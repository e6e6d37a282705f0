------------------------------ MODULE TripsProofs ------------------------------
(***************************************************************************)
(* How a ride comes to a passenger, for any values of the constants of     *)
(* MCTrips: the fetches and the points of LocationFetch, the matches and   *)
(* fares of RouteFare, and what the run of MCTrips checks, concluded from  *)
(* the theorems of its components: these, TripPublishingProofs and         *)
(* TripSearchProofs.                                                       *)
(***************************************************************************)
EXTENDS MCTrips, SequenceTheorems, WellFoundedInduction, TLAPS

------------------------------------------------------------------------------
(* What the loops over a list compute is proved by induction along it: on a*)
(* set of numbers, so that no operator has to be instantiated.             *)
LEMMA NatSets ==
    ASSUME NEW T, 0 \in T, \A n \in Nat : n \in T => n + 1 \in T
    PROVE  Nat \subseteq T
<1> DEFINE S == Nat \ T
           L == OpToRel(<, Nat)
<1>1. SUFFICES ASSUME S # {} PROVE FALSE
  OBVIOUS
<1>2. \A y, x \in Nat : y < x => <<y, x>> \in L
  BY DEF OpToRel
<1>3. IsWellFoundedOn(L, Nat)
  BY NatLessThanWellFounded
<1> HIDE DEF L
<1>4. PICK x \in S : \A y \in S : ~ (<<y, x>> \in L)
  BY <1>1, <1>3, WFMin
<1>5. x \in Nat /\ x # 0 /\ x - 1 \in Nat /\ x - 1 < x
  BY <1>4
<1>6. x - 1 \in T
  BY <1>2, <1>4, <1>5
<1> QED
  BY <1>4, <1>5, <1>6

\* What a loop of m rounds can have after every round, from x0.
Results(m, X, x0, round) ==
    {f \in [0..m -> X] : f[0] = x0 /\ \A i \in 1..m : f[i] = round[i][f[i - 1]]}

\* A loop has a result after every round, whatever a round does.
LEMMA LoopResults ==
    ASSUME NEW m \in Nat, NEW X, NEW x0 \in X, NEW round \in [1..m -> [X -> X]]
    PROVE  Results(m, X, x0, round) # {}
<1> DEFINE Until(n) ==
               \E f \in [0..m -> X] : f[0] = x0 /\ \A i \in 1..n : f[i] = round[i][f[i - 1]]
           T == {n \in Nat : n <= m => Until(n)}
<1>1. 0 \in T
  <2> DEFINE f == [i \in 0..m |-> x0]
  <2>1. f \in [0..m -> X] /\ f[0] = x0 /\ \A i \in 1..0 : f[i] = round[i][f[i - 1]]
    OBVIOUS
  <2> HIDE DEF f
  <2>2. Until(0)
    BY <2>1
  <2> QED
    BY <2>2
<1>2. ASSUME NEW n \in Nat, n \in T PROVE n + 1 \in T
  <2> SUFFICES ASSUME n + 1 <= m PROVE Until(n + 1)
    OBVIOUS
  <2>1. PICK f \in [0..m -> X] : f[0] = x0 /\ \A i \in 1..n : f[i] = round[i][f[i - 1]]
    BY <1>2
  <2> DEFINE g == [f EXCEPT ![n + 1] = round[n + 1][f[n]]]
  <2>2. round[n + 1][f[n]] \in X
    BY <2>1
  <2>3. g \in [0..m -> X] /\ g[0] = x0
    BY <2>1, <2>2
  <2>4. ASSUME NEW i \in 1 .. n + 1 PROVE g[i] = round[i][g[i - 1]]
    <3>1. CASE i = n + 1
      BY <2>1, <3>1
    <3>2. CASE i # n + 1
      BY <2>1, <3>2
    <3> QED
      BY <3>1, <3>2
  <2> HIDE DEF g
  <2> QED
    BY <2>3, <2>4
<1> HIDE DEF T
<1>3. m \in T
  BY <1>1, <1>2, NatSets
<1> QED
  BY <1>3 DEF T, Results

------------------------------------------------------------------------------
(* LocationFetch: the attempts of a fetch, and the points of its route.    *)

\* The timer of an attempt that waits is running.
WaitsUnderTimer == at = "waiting" => attempt \in timers
FetchInv ==
    /\ attempt \in 0 .. Retries - 1
    /\ Fetching!FailsAfterEveryAttempt
    /\ WaitsUnderTimer

\* A caught attempt gives up if it was the last one, and else arms the timer of the next.
LEMMA CatchTries ==
    ASSUME Fetching!Assumptions, FetchInv, at = "waiting",
           NEW running \in SUBSET timers, Fetching!Catch(running)
    PROVE  FetchInv'
<1>1. attempt \in Nat /\ Retries \in Nat /\ attempt <= Retries - 1
  BY DEF FetchInv, Fetching!Assumptions
<1>2. CASE Fetching!LastAttempt
  BY <1>1, <1>2 DEF Fetching!Catch, Fetching!LastAttempt, FetchInv, Fetching!FailsAfterEveryAttempt,
                    WaitsUnderTimer
<1>3. CASE ~Fetching!LastAttempt
  <2>1. attempt + 1 \in 0 .. Retries - 1
    BY <1>1, <1>3 DEF Fetching!LastAttempt
  <2>2. at' = at /\ attempt' = attempt + 1 /\ attempt' \in timers'
    BY <1>3 DEF Fetching!Catch
  <2> QED
    BY <2>1, <2>2 DEF FetchInv, Fetching!FailsAfterEveryAttempt, WaitsUnderTimer
<1> QED
  BY <1>2, <1>3

\* Every step keeps the attempt within the loop and its timer armed.
LEMMA StepFetch ==
    ASSUME Fetching!Assumptions, FetchInv, [Fetching!Next]_(Fetching!vars)
    PROVE  FetchInv'
<1>1. CASE UNCHANGED Fetching!vars
  BY <1>1 DEF Fetching!vars, FetchInv, Fetching!FailsAfterEveryAttempt, WaitsUnderTimer
<1>2. CASE Fetching!Ask
  <2>1. 0 \in 0 .. Retries - 1
    BY DEF Fetching!Assumptions
  <2> QED
    BY <1>2, <2>1 DEF Fetching!Ask, FetchInv, Fetching!FailsAfterEveryAttempt, WaitsUnderTimer
<1>3. CASE Fetching!ConnectionBreaks
  BY <1>3, CatchTries DEF Fetching!ConnectionBreaks
<1>4. CASE Fetching!AnswersError
  BY <1>4, CatchTries DEF Fetching!AnswersError
<1>5. CASE Fetching!AnswersOk
  BY <1>5 DEF Fetching!AnswersOk, FetchInv, Fetching!FailsAfterEveryAttempt, WaitsUnderTimer
<1>6. ASSUME NEW a \in timers, Fetching!TimerFires(a) PROVE FetchInv'
  <2>1. CASE Fetching!Aborts(a)
    BY <1>6, <2>1, CatchTries DEF Fetching!TimerFires, Fetching!Aborts
  <2>2. CASE ~Fetching!Aborts(a)
    BY <1>6, <2>2 DEF Fetching!TimerFires, Fetching!Aborts, FetchInv,
                       Fetching!FailsAfterEveryAttempt,
                      WaitsUnderTimer
  <2> QED
    BY <2>1, <2>2
<1>7. CASE Fetching!BodyEnds
  <2>1. at' = "answered" /\ UNCHANGED attempt
    BY <1>7 DEF Fetching!BodyEnds, Fetching!BodyBreaks, Fetching!BodyArrives
  <2> QED
    BY <2>1 DEF FetchInv, Fetching!FailsAfterEveryAttempt, WaitsUnderTimer
<1> QED
  BY <1>1, <1>2, <1>3, <1>4, <1>5, <1>6, <1>7 DEF Fetching!Next, Fetching!SomeTimer

(* "Generic Fetch With Retry": whatever the services answer and whenever   *)
(* the timers of broken attempts fire, a fetch fails only after its last   *)
(* attempt, and no attempt waits without a timer of its own, for any number*)
(* of attempts and of steps, as long as no body breaks off.                *)
THEOREM FetchesAreRetried ==
    ASSUME Fetching!Assumptions
    PROVE  Fetching!Spec => [](Fetching!FailsAfterEveryAttempt /\ WaitsUnderTimer)
<1>1. Fetching!Init => FetchInv
  BY DEF Fetching!Assumptions, Fetching!Init, FetchInv, Fetching!FailsAfterEveryAttempt,
         WaitsUnderTimer
<1>2. FetchInv /\ [Fetching!Next]_(Fetching!vars) => FetchInv'
  BY StepFetch
<1>3. FetchInv => Fetching!FailsAfterEveryAttempt /\ WaitsUnderTimer
  BY DEF FetchInv
<1> QED
  BY <1>1, <1>2, <1>3, PTL DEF Fetching!Spec

\* The first step of a name before any step of that name.
LEMMA FirstBefore ==
    ASSUME NEW steps, Len(steps) \in Nat, NEW i \in Fetching!Named(steps)
    PROVE  \E j \in Fetching!FirstOfName(steps) : j <= i /\ steps[j].name = steps[i].name
<1> DEFINE Alike == {j \in Fetching!Named(steps) : steps[j].name = steps[i].name}
           L == OpToRel(<, Nat)
<1>1. i \in Alike /\ Fetching!Named(steps) \subseteq Nat /\ Alike \subseteq Nat
  BY DEF Fetching!Named
<1>2. \A y, x \in Nat : y < x => <<y, x>> \in L
  BY DEF OpToRel
<1>3. IsWellFoundedOn(L, Nat)
  BY NatLessThanWellFounded
<1> HIDE DEF L
<1>4. PICK j \in Alike : \A y \in Alike : ~ (<<y, j>> \in L)
  BY <1>1, <1>3, WFMin
<1>5. \A y \in Alike : j <= y
  <2> SUFFICES ASSUME NEW y \in Alike, ~ j <= y PROVE FALSE
    OBVIOUS
  <2>1. y \in Nat /\ j \in Nat
    BY <1>1
  <2>2. y < j
    BY <2>1
  <2> QED
    BY <1>2, <1>4, <2>1, <2>2
<1>6. \A y \in Fetching!Named(steps) : y < j => steps[y].name # steps[j].name
  BY <1>1, <1>5
<1> QED
  BY <1>1, <1>4, <1>5, <1>6 DEF Fetching!FirstOfName

\* A list of the first steps of their names up to n, in the order of the route.
ListsFirst(list, steps, n) ==
    /\ list \in Seq(1..Len(steps))
    /\ Len(list) <= n
    /\ \A k \in 1..Len(list) : list[k] \in Fetching!FirstOfName(steps) /\ list[k] <= n
    /\ \A k, l \in 1..Len(list) : l < k => list[l] < list[k]
    /\ \A i \in Fetching!FirstOfName(steps) : i <= n => \E k \in 1..Len(list) : list[k] = i

\* One more step is listed, or is not the first of its name.
LEMMA ListsOneMore ==
    ASSUME NEW steps, Len(steps) \in Nat, NEW n \in Nat, n < Len(steps),
           NEW list, ListsFirst(list, steps, n)
    PROVE  ListsFirst(IF n + 1 \in Fetching!FirstOfName(steps) THEN Append(list, n + 1) ELSE list,
                      steps, n + 1)
<1> DEFINE U == Fetching!FirstOfName(steps)
<1>1. U \subseteq Nat
  BY DEF Fetching!FirstOfName, Fetching!Named
<1>2. /\ list \in Seq(1..Len(steps)) /\ Len(list) \in Nat /\ Len(list) <= n
      /\ \A k \in 1..Len(list) : list[k] \in U /\ list[k] <= n /\ list[k] \in Nat
      /\ \A k, l \in 1..Len(list) : l < k => list[l] < list[k]
      /\ \A i \in U : i <= n => \E k \in 1..Len(list) : list[k] = i
  BY <1>1 DEF ListsFirst
<1>3. CASE n + 1 \in U
  <2> DEFINE more == Append(list, n + 1)
  <2>1. /\ more \in Seq(1..Len(steps)) /\ Len(more) = Len(list) + 1
        /\ more[Len(list) + 1] = n + 1
        /\ \A k \in 1..Len(list) : more[k] = list[k]
    BY <1>2
  <2> HIDE DEF more, U
  <2>2. \A k \in 1..Len(more) : k \in 1..Len(list) \/ k = Len(list) + 1
    BY <1>2, <2>1
  <2>3. ASSUME NEW k \in 1..Len(more) PROVE more[k] \in U /\ more[k] <= n + 1
    <3>1. CASE k = Len(list) + 1
      BY <1>3, <2>1, <3>1
    <3>2. CASE k \in 1..Len(list)
      <4>1. more[k] = list[k] /\ list[k] \in U /\ list[k] <= n /\ list[k] \in Nat
        BY <1>2, <2>1, <3>2
      <4> QED
        BY <4>1
    <3> QED
      BY <2>2, <3>1, <3>2
  <2>4. ASSUME NEW k \in 1..Len(more), NEW l \in 1..Len(more), l < k
        PROVE  more[l] < more[k]
    <3>1. l \in 1..Len(list)
      BY <1>2, <2>1, <2>4
    <3>2. more[l] = list[l] /\ list[l] \in Nat /\ list[l] <= n
      BY <1>2, <2>1, <3>1
    <3>3. CASE k = Len(list) + 1
      BY <2>1, <3>2, <3>3
    <3>4. CASE k \in 1..Len(list)
      BY <1>2, <2>1, <2>4, <3>1, <3>4
    <3> QED
      BY <2>2, <3>3, <3>4
  <2>5. ASSUME NEW i \in U, i <= n + 1 PROVE \E k \in 1..Len(more) : more[k] = i
    <3>1. Len(list) + 1 \in 1..Len(more) /\ 1..Len(list) \subseteq 1..Len(more)
      BY <1>2, <2>1
    <3>2. CASE i = n + 1
      BY <2>1, <3>1, <3>2
    <3>3. CASE i # n + 1
      <4>1. i <= n
        BY <1>1, <2>5, <3>3
      <4>2. PICK k \in 1..Len(list) : list[k] = i
        BY <1>2, <4>1
      <4> QED
        BY <2>1, <3>1, <4>2
    <3> QED
      BY <3>2, <3>3
  <2>6. Len(more) <= n + 1
    BY <1>2, <2>1
  <2>7. ListsFirst(more, steps, n + 1)
    BY <2>1, <2>3, <2>4, <2>5, <2>6 DEF ListsFirst, U
  <2> QED
    BY <1>3, <2>7 DEF more, U
<1>4. CASE n + 1 \notin U
  <2>1. \A i \in U : i <= n + 1 => i <= n
    BY <1>1, <1>4
  <2> HIDE DEF U
  <2>2. ListsFirst(list, steps, n + 1)
    BY <1>2, <2>1 DEF ListsFirst, U
  <2> QED
    BY <1>4, <2>2 DEF U
<1> QED
  BY <1>3, <1>4

\* What removeDuplicates leaves of the points getRoutePoints pushes.
LEMMA UniqueFirst ==
    ASSUME NEW steps, Len(steps) \in Nat
    PROVE  ListsFirst(Fetching!UniquePoints(steps), steps, Len(steps))
<1> DEFINE m == Len(steps)
           X == Seq(Nat)
           Round(n, x) == IF n \in Fetching!FirstOfName(steps) THEN Append(x, n) ELSE x
           none == <<>>
           round == [n \in 1..m |-> [x \in X |-> Round(n, x)]]
           IsLoop(f) == f = [n \in 0..m |-> IF n = 0 THEN none ELSE Round(n, f[n - 1])]
           c == CHOOSE f : IsLoop(f)
<1>1. m \in Nat /\ none \in X
  OBVIOUS
<1>2. \A n \in 1..m, x \in X : Round(n, x) \in X
  OBVIOUS
<1>3. /\ round \in [1..m -> [X -> X]]
      /\ \A n \in 1..m, x \in X : round[n][x] = Round(n, x)
  <2> HIDE DEF X, m, Round
  <2> QED
    BY <1>2
<1>4. \E f : IsLoop(f)
  <2> HIDE DEF m, X, round, Round, none
  <2>1. PICK f \in Results(m, X, none, round) : TRUE
    <3>1. m \in Nat /\ none \in X /\ round \in [1..m -> [X -> X]]
      BY <1>1, <1>3
    <3>2. Results(m, X, none, round) # {}
      BY ONLY <3>1, LoopResults
    <3> QED
      BY <3>2
  <2>2. f = [n \in 0..m |-> f[n]] /\ f[0] = none
    BY <2>1 DEF Results
  <2>3. \A n \in 1..m : f[n - 1] \in X /\ f[n] = Round(n, f[n - 1])
    BY <1>1, <1>3, <2>1 DEF Results
  <2>4. f = [n \in 0..m |-> IF n = 0 THEN none ELSE Round(n, f[n - 1])]
    <3>1. \A n \in 0..m : f[n] = IF n = 0 THEN none ELSE Round(n, f[n - 1])
      <4> SUFFICES ASSUME NEW n \in 0..m
                   PROVE  f[n] = IF n = 0 THEN none ELSE Round(n, f[n - 1])
        OBVIOUS
      <4>1. n # 0 => n \in 1..m
        BY <1>1
      <4> QED
        BY <2>2, <2>3, <4>1
    <3> QED
      BY <2>2, <3>1
  <2> QED
    BY <2>4
<1>5. IsLoop(c)
  <2> HIDE DEF IsLoop
  <2> QED
    BY <1>4
<1>6. Fetching!UniquePoints(steps) = c[m]
  BY DEF Fetching!UniquePoints
<1>7. c[0] = none /\ \A n \in 1..m : c[n] = Round(n, c[n - 1])
  <2> HIDE DEF c, Round, m, none
  <2> QED
    BY <1>1, <1>5
<1> HIDE DEF c, IsLoop, round
<1> DEFINE T == {n \in Nat : n <= m => ListsFirst(c[n], steps, n)}
<1>8. 0 \in T
  <2>1. \A i \in Fetching!FirstOfName(steps) : i \in Nat \ {0}
    BY DEF Fetching!FirstOfName, Fetching!Named
  <2>2. c[0] = <<>>
    BY <1>7
  <2>3. ListsFirst(<<>>, steps, 0)
    BY <2>1 DEF ListsFirst
  <2> QED
    BY <2>2, <2>3
<1>9. ASSUME NEW n \in Nat, n \in T PROVE n + 1 \in T
  <2> SUFFICES ASSUME n + 1 <= m PROVE ListsFirst(c[n + 1], steps, n + 1)
    OBVIOUS
  <2>1. ListsFirst(c[n], steps, n) /\ n < Len(steps)
    BY <1>9
  <2>2. c[n + 1] = IF n + 1 \in Fetching!FirstOfName(steps) THEN Append(c[n], n + 1) ELSE c[n]
    <3>1. n + 1 \in 1..m /\ (n + 1) - 1 = n
      OBVIOUS
    <3>2. c[n + 1] = Round(n + 1, c[n])
      <4> HIDE DEF Round, m
      <4> QED
        BY <1>7, <3>1
    <3> QED
      BY <3>2
  <2> QED
    BY <2>1, <2>2, ListsOneMore
<1> HIDE DEF T
<1>10. m \in T
  BY <1>1, <1>8, <1>9, NatSets
<1> QED
  BY <1>6, <1>10 DEF T

\* Of those, the points of the answer are the first MaxPoints.
LEMMA PointsListed ==
    ASSUME Fetching!Assumptions, NEW steps \in Fetching!SeqOf(Fetching!Step, MaxSteps)
    PROVE  LET unique == Fetching!UniquePoints(steps)
               listed == Fetching!RoutePoints(steps)
           IN /\ Len(steps) \in Nat
              /\ ListsFirst(unique, steps, Len(steps))
              /\ listed \in Fetching!SeqOf(1..MaxSteps, MaxSteps)
              /\ Len(listed) \in Nat /\ Len(listed) <= Len(unique)
              /\ Len(listed) < MaxPoints => Len(listed) = Len(unique)
              /\ \A k \in 1..Len(listed) : listed[k] = unique[k]
<1> DEFINE unique == Fetching!UniquePoints(steps)
           most == IF MaxPoints <= Len(unique) THEN MaxPoints ELSE Len(unique)
           listed == SubSeq(unique, 1, most)
<1>1. Len(steps) \in Nat /\ Len(steps) <= MaxSteps /\ MaxSteps \in Nat /\ MaxPoints \in Nat
  BY DEF Fetching!SeqOf, Fetching!Assumptions
<1>2. ListsFirst(unique, steps, Len(steps))
  BY <1>1, UniqueFirst
<1> HIDE DEF unique
<1>3. /\ unique \in Seq(1..MaxSteps) /\ Len(unique) \in Nat /\ Len(unique) <= MaxSteps
      /\ \A k \in 1..Len(unique) : unique[k] \in 1..MaxSteps
  <2>1. unique \in Seq(1..Len(steps)) /\ Len(unique) <= Len(steps)
    BY <1>2 DEF ListsFirst
  <2>2. 1..Len(steps) \subseteq 1..MaxSteps
    BY <1>1
  <2>3. Len(unique) \in Nat /\ \A k \in 1..Len(unique) : unique[k] \in 1..MaxSteps
    BY <2>1, <2>2
  <2> QED
    BY <1>1, <2>1, <2>3
<1>4. Fetching!Min({MaxPoints, Len(unique)}) = most
  <2>1. most \in {MaxPoints, Len(unique)} /\ most <= MaxPoints /\ most <= Len(unique)
    BY <1>1, <1>3
  <2>2. \A x \in {MaxPoints, Len(unique)} :
          (\A y \in {MaxPoints, Len(unique)} : x <= y) <=> x = most
    BY <1>1, <1>3, <2>1
  <2> HIDE DEF most
  <2> QED
    BY <2>1, <2>2 DEF Fetching!Min
<1>5. Fetching!RoutePoints(steps) = listed
  BY <1>4 DEF Fetching!RoutePoints, unique
<1>6. /\ most \in 0..Len(unique) /\ (most < MaxPoints => most = Len(unique))
      /\ most \in 0..MaxSteps
  BY <1>1, <1>3
<1> HIDE DEF most
<1>7. /\ Len(listed) = most
      /\ \A k \in 1..most : listed[k] = unique[k] /\ unique[k] \in 1..MaxSteps
      /\ listed \in [1..most -> 1..MaxSteps]
  <2>1. most \in Nat /\ Len(unique) \in Nat /\ \A k \in 1..most : k \in 1..Len(unique)
    BY <1>3, <1>6
  <2>2. \A k \in 1..most : unique[k] \in 1..MaxSteps
    BY <1>3, <2>1
  <2>3. /\ listed \in Seq(1..MaxSteps)
        /\ Len(listed) = IF 1 <= most THEN most - 1 + 1 ELSE 0
        /\ \A k \in 1 .. most - 1 + 1 : listed[k] = unique[k + 1 - 1]
    BY <2>1, <2>2, SubSeqProperties
  <2> HIDE DEF listed
  <2>4. Len(listed) = most /\ \A k \in 1..most : listed[k] = unique[k]
    BY <2>1, <2>3
  <2> QED
    BY <2>2, <2>3, <2>4
<1> HIDE DEF listed
<1>8. listed \in Fetching!SeqOf(1..MaxSteps, MaxSteps)
  BY <1>6, <1>7 DEF Fetching!SeqOf
<1> QED
  BY <1>1, <1>2, <1>3, <1>5, <1>6, <1>7, <1>8 DEF unique

\* They follow the route: what is first of its name is listed, in order.
LEMMA PointsFollow ==
    ASSUME Fetching!Assumptions, route \in Fetching!SeqOf(Fetching!Step, MaxSteps),
           points = Fetching!RoutePoints(route)
    PROVE  Fetching!PointsFollowRoute
<1> DEFINE named == {i \in 1..Len(route) : route[i].located /\ route[i].name # Blocked}
           unique == Fetching!UniquePoints(route)
           U == Fetching!FirstOfName(route)
<1>1. named = Fetching!Named(route)
  BY DEF Fetching!Named
<1>2. /\ Len(route) \in Nat
      /\ ListsFirst(unique, route, Len(route))
      /\ Len(points) \in Nat /\ Len(points) <= Len(unique)
      /\ Len(points) < MaxPoints => Len(points) = Len(unique)
      /\ \A k \in 1..Len(points) : points[k] = unique[k]
  BY PointsListed
<1> HIDE DEF unique
<1>3. /\ U \subseteq named /\ named \subseteq 1..Len(route) /\ named \subseteq Nat
      /\ \A i \in U, j \in named : j < i => route[j].name # route[i].name
  BY <1>1 DEF Fetching!FirstOfName
<1>4. \A i \in named : \E j \in U : j <= i /\ route[j].name = route[i].name
  BY <1>1, <1>2, FirstBefore
<1> HIDE DEF named, U
<1>5. /\ Len(unique) \in Nat
      /\ \A k \in 1..Len(unique) : unique[k] \in U
      /\ \A k, l \in 1..Len(unique) : l < k => unique[l] < unique[k]
      /\ \A i \in U : \E k \in 1..Len(unique) : unique[k] = i
  <2>1. Len(unique) \in Nat
    BY <1>2 DEF ListsFirst
  <2>2. \A i \in U : i <= Len(route)
    BY <1>2, <1>3
  <2> QED
    BY <1>2, <2>1, <2>2 DEF ListsFirst, U
<1>6. 1..Len(points) \subseteq 1..Len(unique)
  BY <1>2, <1>5
<1>7. ASSUME NEW k \in 1..Len(points), NEW i \in named, i < points[k]
      PROVE  /\ route[i].name # route[points[k]].name
             /\ \E l \in 1 .. k - 1 : route[points[l]].name = route[i].name
  <2>1. points[k] = unique[k] /\ unique[k] \in U /\ k \in 1..Len(unique)
    BY <1>2, <1>5, <1>6
  <2>2. route[i].name # route[points[k]].name
    BY <1>3, <1>7, <2>1
  <2>3. PICK j \in U : j <= i /\ route[j].name = route[i].name
    BY <1>4
  <2>4. PICK l \in 1..Len(unique) : unique[l] = j
    BY <1>5
  <2>5. unique[l] < unique[k]
    <3>1. i \in Nat /\ j \in Nat /\ unique[k] \in Nat
      BY <1>3, <2>1
    <3> QED
      BY <1>7, <2>1, <2>3, <2>4, <3>1
  <2>6. l < k
    <3>1. l # k /\ ~ k < l
      <4>1. unique[l] \in Nat /\ unique[k] \in Nat
        BY <1>3, <2>1, <2>4
      <4> QED
        BY <1>5, <2>1, <2>4, <2>5, <4>1
    <3> QED
      BY <1>2, <1>5, <3>1
  <2>7. l \in 1 .. k - 1 /\ l \in 1..Len(points)
    BY <1>2, <1>5, <2>6
  <2>8. points[l] = j
    BY <1>2, <2>4, <2>7
  <2> QED
    BY <2>2, <2>3, <2>7, <2>8
<1>8. ASSUME Len(points) < MaxPoints
      PROVE  {route[i].name : i \in named} = {route[points[k]].name : k \in 1..Len(points)}
  <2>1. Len(points) = Len(unique)
    BY <1>2, <1>8
  <2>2. ASSUME NEW i \in named
        PROVE  \E k \in 1..Len(points) : route[points[k]].name = route[i].name
    <3>1. PICK j \in U : route[j].name = route[i].name
      BY <1>4
    <3>2. PICK k \in 1..Len(unique) : unique[k] = j
      BY <1>5
    <3>3. k \in 1..Len(points) /\ points[k] = j
      BY <1>2, <2>1, <3>2
    <3> QED
      BY <3>1, <3>3
  <2>3. \A k \in 1..Len(points) : points[k] \in named
    BY <1>2, <1>3, <1>5, <1>6
  <2> QED
    BY <2>2, <2>3
<1> QED
  BY <1>7, <1>8 DEF Fetching!PointsFollowRoute, named

RouteInv ==
    /\ Fetching!TypeOK
    /\ at = "answered" => points = Fetching!RoutePoints(route)

\* A catch stays within the attempts, and leaves the timers it knows.
LEMMA CatchTypes ==
    ASSUME Fetching!Assumptions, RouteInv, at = "waiting",
           NEW running \in SUBSET timers, Fetching!Catch(running)
    PROVE  RouteInv'
<1>1. attempt \in Nat /\ Retries \in Nat /\ attempt <= Retries - 1
  BY DEF RouteInv, Fetching!TypeOK, Fetching!Assumptions
<1>2. running \subseteq 0 .. Retries - 1
  BY DEF RouteInv, Fetching!TypeOK
<1>3. route' = route /\ points' = points
  BY DEF Fetching!Catch
<1>A. attempt \in 0 .. Retries - 1
  BY DEF RouteInv, Fetching!TypeOK
<1>4. /\ attempt' \in 0 .. Retries - 1
      /\ timers' \subseteq 0 .. Retries - 1
      /\ at' \in {"waiting", "failed"}
  <2>1. CASE Fetching!LastAttempt
    BY <1>2, <1>A, <2>1 DEF Fetching!Catch
  <2>2. CASE ~Fetching!LastAttempt
    <3>1. attempt + 1 \in 0 .. Retries - 1
      BY <1>1, <2>2 DEF Fetching!LastAttempt
    <3> QED
      BY <1>2, <2>2, <3>1 DEF Fetching!Catch
  <2> QED
    BY <2>1, <2>2
<1> QED
  BY <1>3, <1>4 DEF RouteInv, Fetching!TypeOK

\* Every step keeps the types, and an answer is made of the route beside it.
LEMMA StepRoute ==
    ASSUME Fetching!Assumptions, RouteInv, [Fetching!Next]_(Fetching!vars)
    PROVE  RouteInv'
<1> DEFINE kept == route' = route /\ points' = points
<1>0. /\ 0 \in 0 .. Retries - 1
      /\ <<>> \in Fetching!SeqOf(Fetching!Step, MaxSteps)
      /\ <<>> \in Fetching!SeqOf(1..MaxSteps, MaxSteps)
  BY DEF Fetching!Assumptions, Fetching!SeqOf
<1>1. CASE UNCHANGED Fetching!vars
  BY <1>1 DEF Fetching!vars, RouteInv, Fetching!TypeOK
<1>2. CASE Fetching!Ask
  BY <1>0, <1>2 DEF Fetching!Ask, RouteInv, Fetching!TypeOK
<1>3. CASE Fetching!ConnectionBreaks
  BY <1>3, CatchTypes DEF Fetching!ConnectionBreaks
<1>4. CASE Fetching!AnswersError
  BY <1>4, CatchTypes DEF Fetching!AnswersError
<1>5. CASE Fetching!AnswersOk
  BY <1>5 DEF Fetching!AnswersOk, RouteInv, Fetching!TypeOK
<1>6. ASSUME NEW a \in timers, Fetching!TimerFires(a) PROVE RouteInv'
  <2>1. CASE Fetching!Aborts(a)
    BY <1>6, <2>1, CatchTypes DEF Fetching!TimerFires, Fetching!Aborts
  <2>2. CASE ~Fetching!Aborts(a)
    BY <1>6, <2>2 DEF Fetching!TimerFires, RouteInv, Fetching!TypeOK
  <2> QED
    BY <2>1, <2>2
<1>7. CASE Fetching!BodyEnds
  <2>1. PICK steps \in Fetching!SeqOf(Fetching!Step, MaxSteps) : Fetching!BodyArrives(steps)
    BY <1>7 DEF Fetching!BodyEnds, Fetching!BodyBreaks
  <2>2. Fetching!RoutePoints(steps) \in Fetching!SeqOf(1..MaxSteps, MaxSteps)
    BY PointsListed
  <2>3. /\ at' = "answered" /\ route' = steps
        /\ points' = Fetching!RoutePoints(steps)
        /\ UNCHANGED <<attempt, timers>>
    BY <2>1 DEF Fetching!BodyArrives
  <2>4. points' = Fetching!RoutePoints(route)'
    BY <2>3
  <2> QED
    BY <2>2, <2>3, <2>4 DEF RouteInv, Fetching!TypeOK
<1> QED
  BY <1>1, <1>2, <1>3, <1>4, <1>5, <1>6, <1>7 DEF Fetching!Next, Fetching!SomeTimer

\* The first steps of a fetch.
LEMMA RouteKept ==
    ASSUME Fetching!Assumptions
    PROVE  Fetching!Spec => []RouteInv
<1>1. Fetching!Init => RouteInv
  <2>1. /\ 0 \in 0 .. Retries - 1
        /\ <<>> \in Fetching!SeqOf(Fetching!Step, MaxSteps)
        /\ <<>> \in Fetching!SeqOf(1..MaxSteps, MaxSteps)
    BY DEF Fetching!Assumptions, Fetching!SeqOf
  <2> QED
    BY <2>1 DEF Fetching!Init, RouteInv, Fetching!TypeOK
<1>2. RouteInv /\ [Fetching!Next]_(Fetching!vars) => RouteInv'
  BY StepRoute
<1> QED
  BY <1>1, <1>2, PTL DEF Fetching!Spec

(* getRoutePoints: whatever route was fetched, the answer names points of  *)
(* it in its order, each name once, at the place where the route first     *)
(* carries it, and leaves none out but by the limit.                       *)
THEOREM PointsAreFirst ==
    ASSUME Fetching!Assumptions
    PROVE  Fetching!Spec => [](Fetching!TypeOK /\ Fetching!PointsFollowRoute)
<1>1. RouteInv => Fetching!TypeOK /\ Fetching!PointsFollowRoute
  <2> SUFFICES ASSUME RouteInv PROVE Fetching!PointsFollowRoute
    BY DEF RouteInv
  <2>1. route \in Fetching!SeqOf(Fetching!Step, MaxSteps)
    BY DEF RouteInv, Fetching!TypeOK
  <2>2. CASE at = "answered"
    BY <2>1, <2>2, PointsFollow DEF RouteInv
  <2>3. CASE at # "answered"
    BY <2>3 DEF Fetching!PointsFollowRoute
  <2> QED
    BY <2>2, <2>3
<1> QED
  BY <1>1, RouteKept, PTL

------------------------------------------------------------------------------
(* RouteFare: the nearest points, the way between them and its fare.       *)

\* The first of the points at the least distance, as findNearestRoutePointIndex
\* finds it.
IsFirstNearest(location, stops, k) ==
    /\ k \in 1..Len(stops)
    /\ \A j \in 1..Len(stops) :
           /\ Distance(location, stops[k]) <= Distance(location, stops[j])
           /\ j < k => Distance(location, stops[k]) < Distance(location, stops[j])

\* The loop over the points ends with the first of the nearest, and 0 for none.
LEMMA NearestFound ==
    ASSUME Fares!Assumptions, NEW location \in Places, NEW stops \in Seq(Places)
    PROVE  /\ Fares!NearestIndex(location, stops) \in 0..Len(stops)
           /\ Len(stops) > 0 =>
                  IsFirstNearest(location, stops, Fares!NearestIndex(location, stops))
<1> DEFINE m == Len(stops)
           X == 0..m
           D(k) == Distance(location, stops[k])
           Round(n, x) == IF x = 0 THEN n ELSE IF D(n) < D(x) THEN n ELSE x
           round == [n \in 1..m |-> [x \in X |-> Round(n, x)]]
           IsLoop(f) == f = [n \in 0..m |-> IF n = 0 THEN 0
                                ELSE IF f[n - 1] = 0
                                        \/ Distance(location, stops[n])
                                               < Distance(location, stops[f[n - 1]])
                                     THEN n ELSE f[n - 1]]
           c == CHOOSE f : IsLoop(f)
<1>1. m \in Nat /\ 0 \in X
  OBVIOUS
<1>2. \A k \in 1..m : D(k) \in Nat
  <2>1. \A p \in Places : Distance(location, p) \in Nat
    BY DEF Fares!Assumptions, Fares!IsMetric
  <2>2. \A k \in 1..m : stops[k] \in Places
    OBVIOUS
  <2> QED
    BY <2>1, <2>2
<1>3. /\ round \in [1..m -> [X -> X]]
      /\ \A n \in 1..m, x \in X : round[n][x] = Round(n, x)
  OBVIOUS
<1>4. \E f : IsLoop(f)
  <2> HIDE DEF m, X, round, D
  <2>1. PICK f \in Results(m, X, 0, round) : TRUE
    <3>1. m \in Nat /\ 0 \in X /\ round \in [1..m -> [X -> X]]
      BY <1>1, <1>3
    <3>2. Results(m, X, 0, round) # {}
      BY ONLY <3>1, LoopResults
    <3> QED
      BY <3>2
  <2>2. \A n \in 1..m : f[n - 1] \in X /\ f[n] = Round(n, f[n - 1])
    BY <1>1, <1>3, <2>1 DEF Results
  <2>3. f = [n \in 0..m |-> IF n = 0 THEN 0
                           ELSE IF f[n - 1] = 0 \/ D(n) < D(f[n - 1]) THEN n ELSE f[n - 1]]
    BY <2>1, <2>2 DEF Results
  <2> QED
    BY <2>3 DEF D
<1>5. IsLoop(c)
  <2> HIDE DEF IsLoop
  <2> QED
    BY <1>4
<1>6. Fares!NearestIndex(location, stops) = c[m]
  BY DEF Fares!NearestIndex
<1>7. /\ c[0] = 0
      /\ \A n \in 1..m : c[n] = IF c[n - 1] = 0 \/ D(n) < D(c[n - 1]) THEN n ELSE c[n - 1]
  <2> HIDE DEF c
  <2> QED
    BY <1>1, <1>5
<1> HIDE DEF c, IsLoop, round
<1> DEFINE First(n, k) == /\ k \in 1..n
                          /\ \A j \in 1..n : D(k) <= D(j) /\ (j < k => D(k) < D(j))
           T == {n \in Nat : n <= m => c[n] \in 0..n /\ (n > 0 => First(n, c[n]))}
<1>8. 0 \in T
  BY <1>7
<1>9. ASSUME NEW n \in Nat, n \in T PROVE n + 1 \in T
  <2> SUFFICES ASSUME n + 1 <= m PROVE First(n + 1, c[n + 1])
    OBVIOUS
  <2>1. c[n] \in 0..n /\ (n > 0 => First(n, c[n]))
    BY <1>9
  <2>2. c[n + 1] = IF c[n] = 0 \/ D(n + 1) < D(c[n]) THEN n + 1 ELSE c[n]
    BY <1>7
  <2> HIDE DEF D
  <2>3. CASE n = 0
    BY <1>2, <2>1, <2>2, <2>3
  <2>4. CASE n > 0
    BY <1>2, <2>1, <2>2, <2>4
  <2> QED
    BY <2>3, <2>4
<1> HIDE DEF T
<1>10. m \in T
  BY <1>8, <1>9, NatSets
<1> QED
  BY <1>6, <1>10 DEF T, IsFirstNearest

\* The points among a ride's pickup locations are a list of places.
LEMMA AmongPlaces ==
    ASSUME Fares!Assumptions, NEW locations \in Seq(Fares!Point)
    PROVE  Fares!PointsAmong(locations) \in Seq(Places)
<1> DEFINE m == Len(locations)
           X == Seq(Places)
           Round(n, x) == IF locations[n] = None THEN x ELSE Append(x, locations[n])
           round == [n \in 1..m |-> [x \in X |-> Round(n, x)]]
           none == <<>>
           IsLoop(f) == f = [n \in 0..m |-> IF n = 0 THEN none ELSE Round(n, f[n - 1])]
           c == CHOOSE f : IsLoop(f)
<1>1. m \in Nat /\ none \in X
  OBVIOUS
<1>2. \A n \in 1..m : locations[n] # None => locations[n] \in Places
  BY DEF Fares!Point
<1>3. \A n \in 1..m, x \in X : Round(n, x) \in X
  BY <1>2
<1>4. /\ round \in [1..m -> [X -> X]]
      /\ \A n \in 1..m, x \in X : round[n][x] = Round(n, x)
  <2> HIDE DEF X, m, Round
  <2> QED
    BY <1>3
<1>5. \E f : IsLoop(f)
  <2> HIDE DEF m, X, round, Round, none
  <2>1. PICK f \in Results(m, X, none, round) : TRUE
    <3>1. m \in Nat /\ none \in X /\ round \in [1..m -> [X -> X]]
      BY <1>1, <1>4
    <3>2. Results(m, X, none, round) # {}
      BY ONLY <3>1, LoopResults
    <3> QED
      BY <3>2
  <2>2. f = [n \in 0..m |-> f[n]] /\ f[0] = none
    BY <2>1 DEF Results
  <2>3. \A n \in 1..m : f[n - 1] \in X /\ f[n] = Round(n, f[n - 1])
    BY <1>1, <1>4, <2>1 DEF Results
  <2>4. f = [n \in 0..m |-> IF n = 0 THEN none ELSE Round(n, f[n - 1])]
    <3>1. \A n \in 0..m : f[n] = IF n = 0 THEN none ELSE Round(n, f[n - 1])
      BY <1>1, <2>2, <2>3
    <3> QED
      BY <2>2, <3>1
  <2> QED
    BY <2>4
<1>6. IsLoop(c)
  <2> HIDE DEF IsLoop
  <2> QED
    BY <1>5
<1>7. Fares!PointsAmong(locations) = c[m]
  BY DEF Fares!PointsAmong
<1>8. c[0] = none /\ \A n \in 1..m : c[n] = Round(n, c[n - 1])
  <2> HIDE DEF c, Round, m, none
  <2> QED
    BY <1>1, <1>6
<1> HIDE DEF c, IsLoop, round, Round, X, m, none
<1> DEFINE T == {n \in Nat : n <= m => c[n] \in X}
<1>9. 0 \in T
  BY <1>1, <1>8
<1>10. ASSUME NEW n \in Nat, n \in T PROVE n + 1 \in T
  BY <1>1, <1>3, <1>8, <1>10
<1> HIDE DEF T
<1>11. m \in T
  BY <1>1, <1>9, <1>10, NatSets
<1> QED
  BY <1>1, <1>7, <1>11 DEF T, X, m

RideOK ==
    /\ trip \in [origin: Fares!Point, pickupLocations: Fares!SeqOf(Fares!Point, MaxStops),
                destination: Fares!Point]
    /\ entry \in [pickup: Places, dropoff: Places, seats: 1..MaxSeats]

\* A ride's route has a point to get on at, and its pickup points are its
\* first ones.
LEMMA RoutePlaces ==
    ASSUME Fares!Assumptions, RideOK
    PROVE  /\ Fares!RoutePoints \in Seq(Places)
           /\ Len(Fares!RoutePoints) >= 1
           /\ Fares!PickupPoints \in Seq(Places)
           /\ Len(Fares!PickupPoints) \in 1..Len(Fares!RoutePoints)
           /\ \A i \in 1..Len(Fares!PickupPoints) :
                  Fares!PickupPoints[i] = Fares!RoutePoints[i]
<1> DEFINE first == IF trip.origin = None THEN ZeroPlace ELSE trip.origin
           last == IF trip.destination = None THEN <<>> ELSE <<trip.destination>>
           among == Fares!PointsAmong(trip.pickupLocations)
           stops == Fares!RoutePoints
           most == IF Len(stops) - 1 >= 1 THEN Len(stops) - 1 ELSE 1
<1>1. first \in Places /\ last \in Seq(Places)
  BY DEF RideOK, Fares!Point, Fares!Assumptions
<1>2. among \in Seq(Places)
  <2>1. trip.pickupLocations \in Seq(Fares!Point)
    BY DEF RideOK, Fares!SeqOf
  <2> QED
    BY <2>1, AmongPlaces
<1>3. stops = (<<first>> \o among) \o last
  BY DEF Fares!RoutePoints
<1> HIDE DEF first, last, among
<1>4. stops \in Seq(Places) /\ Len(stops) >= 1
  BY <1>1, <1>2, <1>3
<1> HIDE DEF stops
<1>5. Fares!Max({Len(stops) - 1, 1}) = most
  BY <1>4 DEF Fares!Max
<1>6. Fares!PickupPoints = SubSeq(stops, 1, most)
  BY <1>5 DEF Fares!PickupPoints, stops
<1>7. most \in 1..Len(stops)
  BY <1>4
<1> HIDE DEF most
<1>8. /\ SubSeq(stops, 1, most) \in Seq(Places)
      /\ Len(SubSeq(stops, 1, most)) = most
      /\ \A i \in 1..most : SubSeq(stops, 1, most)[i] = stops[i]
  BY <1>4, <1>7
<1> QED
  BY <1>4, <1>6, <1>7, <1>8 DEF stops

------------------------------------------------------------------------------
\* The running total behind calculateRouteSegmentDistanceKm.
IsTotal(t, stops, start, end) ==
    /\ t \in [start..end -> Nat]
    /\ t[start] = 0
    /\ \A n \in start + 1 .. end : t[n] = t[n - 1] + Distance(stops[n - 1], stops[n])

\* The loop over the segments adds the distances from the start to the end.
LEMMA SegmentTotal ==
    ASSUME Fares!Assumptions, NEW stops \in Seq(Places),
           NEW start \in 1..Len(stops), NEW end \in 1..Len(stops), start < end
    PROVE  \E t : /\ IsTotal(t, stops, start, end)
                  /\ Fares!SegmentDistanceKm(stops, start, end) = t[end]
<1> DEFINE m == end - start
           D(n) == Distance(stops[n - 1], stops[n])
           round == [i \in 1..m |-> [x \in Nat |-> x + D(start + i)]]
           IsLoop(f) == f = [n \in start..end |-> IF n = start THEN 0
                                ELSE f[n - 1] + D(n)]
           c == CHOOSE f : IsLoop(f)
<1>1. m \in Nat
  OBVIOUS
<1>2. \A n \in start + 1 .. end : D(n) \in Nat
  <2>1. \A p, q \in Places : Distance(p, q) \in Nat
    BY DEF Fares!Assumptions, Fares!IsMetric
  <2>2. \A n \in start + 1 .. end : stops[n - 1] \in Places /\ stops[n] \in Places
    OBVIOUS
  <2> QED
    BY <2>1, <2>2
<1>3. \A i \in 1..m : D(start + i) \in Nat
  <2> HIDE DEF D
  <2> QED
    BY <1>2
<1>4. /\ round \in [1..m -> [Nat -> Nat]]
      /\ \A i \in 1..m, x \in Nat : round[i][x] = x + D(start + i)
  <2> HIDE DEF D, m
  <2> QED
    BY <1>3
<1>5. \E f : IsLoop(f) /\ f \in [start..end -> Nat]
  <2> HIDE DEF round
  <2>1. PICK f \in Results(m, Nat, 0, round) : TRUE
    <3>1. m \in Nat /\ 0 \in Nat /\ round \in [1..m -> [Nat -> Nat]]
      BY <1>1, <1>4
    <3> HIDE DEF m
    <3>2. Results(m, Nat, 0, round) # {}
      BY ONLY <3>1, LoopResults
    <3> QED
      BY <3>2
  <2> DEFINE t == [n \in start..end |-> f[n - start]]
  <2>2. f \in [0..m -> Nat] /\ f[0] = 0 /\ \A i \in 1..m : f[i] = round[i][f[i - 1]]
    BY <2>1 DEF Results
  <2>3. \A i \in 1..m : f[i] = f[i - 1] + D(start + i)
    <3> HIDE DEF D, m
    <3>1. \A i \in 1..m : f[i - 1] \in Nat
      BY <1>1, <2>2
    <3> QED
      BY <1>4, <2>2, <3>1
  <2>4. t \in [start..end -> Nat] /\ t[start] = 0
    BY <2>2
  <2>5. \A n \in start + 1 .. end : t[n] = t[n - 1] + D(n)
    <3> SUFFICES ASSUME NEW n \in start + 1 .. end PROVE t[n] = t[n - 1] + D(n)
      OBVIOUS
    <3>1. n - start \in 1..m /\ start + (n - start) = n
      OBVIOUS
    <3>2. f[n - start] = f[(n - start) - 1] + D(n)
      <4> HIDE DEF D, m
      <4> QED
        BY <2>3, <3>1
    <3>3. t[n] = f[n - start] /\ t[n - 1] = f[(n - 1) - start] /\ (n - 1) - start = (n - start) - 1
      OBVIOUS
    <3> QED
      BY <3>2, <3>3
  <2>6. t = [n \in start..end |-> IF n = start THEN 0 ELSE t[n - 1] + D(n)]
    <3> HIDE DEF D, t
    <3> QED
      BY <2>4, <2>5
  <2> QED
    BY <2>4, <2>6
<1>6. IsLoop(c)
  <2> HIDE DEF IsLoop
  <2> QED
    BY <1>5
<1>7. Fares!SegmentDistanceKm(stops, start, end) = c[end]
  BY DEF Fares!SegmentDistanceKm
<1> HIDE DEF c
<1>8. /\ c[start] = 0
      /\ \A n \in start + 1 .. end : c[n] = c[n - 1] + D(n)
      /\ c = [n \in start..end |-> c[n]]
  <2> HIDE DEF D
  <2>1. \A n \in start..end : c[n] = IF n = start THEN 0 ELSE c[n - 1] + D(n)
    BY <1>6
  <2>2. c = [n \in start..end |-> c[n]]
    BY <1>6
  <2>3. c[start] = 0
    BY <2>1
  <2>4. \A n \in start + 1 .. end : n \in start..end /\ n # start
    OBVIOUS
  <2>5. \A n \in start + 1 .. end : c[n] = c[n - 1] + D(n)
    BY <2>1, <2>4
  <2> QED
    BY <2>2, <2>3, <2>5
<1> HIDE DEF D, IsLoop
<1> DEFINE T == {i \in Nat : start + i <= end => c[start + i] \in Nat}
<1>9. 0 \in T
  BY <1>8
<1>10. ASSUME NEW i \in Nat, i \in T PROVE i + 1 \in T
  <2> SUFFICES ASSUME start + (i + 1) <= end PROVE c[start + (i + 1)] \in Nat
    OBVIOUS
  <2> DEFINE n == start + (i + 1)
  <2>1. n \in start + 1 .. end /\ n - 1 = start + i /\ c[n - 1] \in Nat
    BY <1>10
  <2> HIDE DEF n
  <2>2. c[n] = c[n - 1] + D(n) /\ D(n) \in Nat
    BY <1>2, <1>8, <2>1
  <2> QED
    BY <2>1, <2>2 DEF n
<1> HIDE DEF T
<1>11. Nat \subseteq T
  BY <1>9, <1>10, NatSets
<1>12. \A n \in start..end : c[n] \in Nat
  <2> SUFFICES ASSUME NEW n \in start..end PROVE c[n] \in Nat
    OBVIOUS
  <2>1. n - start \in T
    BY <1>11
  <2> QED
    BY <2>1 DEF T
<1>13. c \in [start..end -> Nat]
  BY <1>8, <1>12
<1> QED
  BY <1>7, <1>8, <1>13 DEF IsTotal, D

\* What a step between two points of a route adds to the total is a distance.
LEMMA StepAdds ==
    ASSUME Fares!Assumptions, NEW stops \in Seq(Places), NEW t,
           NEW start \in 1..Len(stops), NEW end \in 1..Len(stops),
           IsTotal(t, stops, start, end), NEW n \in start..end, n < end
    PROVE  /\ n + 1 \in start..end
           /\ t[n] \in Nat /\ t[n + 1] \in Nat
           /\ Distance(stops[n], stops[n + 1]) \in Nat
           /\ t[n + 1] = t[n] + Distance(stops[n], stops[n + 1])
<1>1. n + 1 \in start..end /\ n + 1 \in start + 1 .. end /\ (n + 1) - 1 = n
  OBVIOUS
<1>2. stops[n] \in Places /\ stops[n + 1] \in Places
  OBVIOUS
<1>3. Distance(stops[n], stops[n + 1]) \in Nat
  BY <1>2 DEF Fares!Assumptions, Fares!IsMetric
<1>4. t[n] \in Nat /\ t[n + 1] \in Nat
  BY <1>1 DEF IsTotal
<1>5. t[n + 1] = t[(n + 1) - 1] + Distance(stops[(n + 1) - 1], stops[n + 1])
  BY <1>1 DEF IsTotal
<1> QED
  BY <1>1, <1>3, <1>4, <1>5

\* A way is at least as long as its two ends are apart, and a part of a way is
\* no longer than the way.
LEMMA SegmentBounds ==
    ASSUME Fares!Assumptions, NEW stops \in Seq(Places),
           NEW start \in 1..Len(stops), NEW end \in 1..Len(stops), start < end
    PROVE  /\ Fares!SegmentDistanceKm(stops, start, end) \in Nat
           /\ Distance(stops[start], stops[end])
                  <= Fares!SegmentDistanceKm(stops, start, end)
           /\ Fares!SegmentDistanceKm(stops, start, end)
                  <= Fares!SegmentDistanceKm(stops, 1, Len(stops))
<1> DEFINE m == Len(stops)
<1>0. m \in Nat /\ 1 \in 1..m /\ m \in 1..m /\ 1 < m
  OBVIOUS
<1>1. PICK t : /\ IsTotal(t, stops, start, end)
               /\ Fares!SegmentDistanceKm(stops, start, end) = t[end]
  BY SegmentTotal
<1>2. PICK w : IsTotal(w, stops, 1, m) /\ Fares!SegmentDistanceKm(stops, 1, m) = w[m]
  BY <1>0, SegmentTotal
<1>3. t[start] = 0 /\ t[end] \in Nat /\ \A n \in 1..m : w[n] \in Nat
  <2>1. start \in start..end /\ end \in start..end
    OBVIOUS
  <2>2. t[start] = 0 /\ \A n \in start..end : t[n] \in Nat
    BY <1>1 DEF IsTotal
  <2>3. w \in [1..m -> Nat]
    BY <1>2 DEF IsTotal
  <2> QED
    BY <2>1, <2>2, <2>3
<1>4. Distance(stops[start], stops[end]) <= t[end]
  <2> DEFINE D(n) == Distance(stops[start], stops[n])
             T == {i \in Nat : start + 1 + i <= end => D(start + 1 + i) <= t[start + 1 + i]}
  <2>1. 0 \in T
    <3>1. start \in start..end
      OBVIOUS
    <3>2. t[start + 1] = t[start] + Distance(stops[start], stops[start + 1])
          /\ Distance(stops[start], stops[start + 1]) \in Nat
      BY <1>1, <3>1, StepAdds
    <3> QED
      BY <1>3, <3>2
  <2>2. ASSUME NEW i \in Nat, i \in T PROVE i + 1 \in T
    <3> SUFFICES ASSUME start + 1 + (i + 1) <= end
                 PROVE  D(start + 1 + (i + 1)) <= t[start + 1 + (i + 1)]
      OBVIOUS
    <3> DEFINE n == start + 1 + i
    <3>1. n \in start..end /\ n < end /\ n + 1 = start + 1 + (i + 1) /\ D(n) <= t[n]
      BY <2>2
    <3>2. stops[start] \in Places /\ stops[n] \in Places /\ stops[n + 1] \in Places
      BY <3>1
    <3> HIDE DEF n
    <3>3. /\ t[n + 1] = t[n] + Distance(stops[n], stops[n + 1])
          /\ t[n] \in Nat /\ t[n + 1] \in Nat /\ Distance(stops[n], stops[n + 1]) \in Nat
      BY <1>1, <3>1, StepAdds
    <3>4. D(n) \in Nat /\ D(n + 1) \in Nat
          /\ D(n + 1) <= D(n) + Distance(stops[n], stops[n + 1])
      BY <3>2 DEF Fares!Assumptions, Fares!IsMetric
    <3>5. D(n + 1) <= t[n + 1]
      <4> HIDE DEF D
      <4> QED
        BY <3>1, <3>3, <3>4
    <3> QED
      BY <3>1, <3>5
  <2> HIDE DEF T
  <2>3. end - (start + 1) \in T
    BY <2>1, <2>2, NatSets
  <2> QED
    BY <2>3 DEF T
<1>5. \A n \in start..end : t[n] + w[start] = w[n]
  <2> DEFINE T == {i \in Nat : start + i <= end => t[start + i] + w[start] = w[start + i]}
  <2>1. 0 \in T
    BY <1>3
  <2>2. ASSUME NEW i \in Nat, i \in T PROVE i + 1 \in T
    <3> SUFFICES ASSUME start + (i + 1) <= end
                 PROVE  t[start + (i + 1)] + w[start] = w[start + (i + 1)]
      OBVIOUS
    <3> DEFINE n == start + i
    <3>1. /\ n \in start..end /\ n < end /\ n \in 1..m /\ n < m
          /\ n + 1 = start + (i + 1) /\ t[n] + w[start] = w[n]
      BY <2>2
    <3> HIDE DEF n
    <3>2. /\ t[n + 1] = t[n] + Distance(stops[n], stops[n + 1])
          /\ t[n] \in Nat /\ Distance(stops[n], stops[n + 1]) \in Nat
      BY <1>1, <3>1, StepAdds
    <3>3. w[n + 1] = w[n] + Distance(stops[n], stops[n + 1]) /\ w[n] \in Nat
      BY <1>0, <1>2, <3>1, StepAdds
    <3>4. w[start] \in Nat
      BY <1>3
    <3>5. t[n + 1] + w[start] = w[n + 1]
      BY <3>1, <3>2, <3>3, <3>4
    <3> QED
      BY <3>1, <3>5
  <2> HIDE DEF T
  <2>3. Nat \subseteq T
    BY <2>1, <2>2, NatSets
  <2> SUFFICES ASSUME NEW n \in start..end PROVE t[n] + w[start] = w[n]
    OBVIOUS
  <2>4. n - start \in T
    BY <2>3
  <2> QED
    BY <2>4 DEF T
<1>6. w[end] <= w[m]
  <2> DEFINE T == {i \in Nat : end + i <= m => w[end] <= w[end + i]}
  <2>0. w[end] \in Nat
    BY <1>3
  <2>1. 0 \in T
    BY <2>0
  <2>2. ASSUME NEW i \in Nat, i \in T PROVE i + 1 \in T
    <3> SUFFICES ASSUME end + (i + 1) <= m PROVE w[end] <= w[end + (i + 1)]
      OBVIOUS
    <3> DEFINE n == end + i
    <3>1. n \in 1..m /\ n < m /\ n + 1 = end + (i + 1) /\ w[end] <= w[n]
      BY <2>2
    <3> HIDE DEF n
    <3>2. /\ w[n + 1] = w[n] + Distance(stops[n], stops[n + 1])
          /\ w[n] \in Nat /\ Distance(stops[n], stops[n + 1]) \in Nat
      BY <1>0, <1>2, <3>1, StepAdds
    <3>3. w[end] <= w[n + 1]
      BY <2>0, <3>1, <3>2
    <3> QED
      BY <3>1, <3>3
  <2> HIDE DEF T
  <2>3. m - end \in T
    BY <2>1, <2>2, NatSets
  <2> QED
    BY <2>3 DEF T
<1>7. t[end] <= w[m]
  <2>1. end \in start..end /\ w[start] \in Nat /\ w[end] \in Nat /\ w[m] \in Nat
    BY <1>0, <1>3
  <2>2. t[end] + w[start] = w[end]
    BY <1>5, <2>1
  <2> QED
    BY <1>3, <1>6, <2>1, <2>2
<1> QED
  BY <1>1, <1>2, <1>3, <1>4, <1>7

------------------------------------------------------------------------------
\* What bookTrip and the promotion answer is what the ride and the request
\* make of it, however often either is asked.
AnswersOK ==
    /\ RideOK
    /\ booking # None => booking = IF Fares!Bookable THEN Fares!Fare(entry.seats) ELSE Fares!Refused
    /\ promotion # None =>
           promotion = IF Len(Fares!RoutePoints) >= 2 /\ Fares!PickupIndex < Fares!DropoffIndex
                       THEN Fares!Fare(entry.seats) ELSE Fares!Refused

\* Nothing computed from the ride and the request changes while they do not.
LEMMA SameRide ==
    ASSUME UNCHANGED <<trip, entry>>
    PROVE  /\ RideOK' = RideOK
           /\ Fares!RoutePoints' = Fares!RoutePoints
           /\ Fares!PickupPoints' = Fares!PickupPoints
           /\ Fares!PickupIndex' = Fares!PickupIndex
           /\ Fares!DropoffIndex' = Fares!DropoffIndex
           /\ Fares!Bookable' = Fares!Bookable
           /\ Fares!Fare(entry.seats)' = Fares!Fare(entry.seats)
<1>1. trip' = trip /\ entry' = entry
  OBVIOUS
<1>2. RideOK' = RideOK
  BY <1>1 DEF RideOK
<1>3. Fares!RoutePoints' = Fares!RoutePoints
  BY <1>1 DEF Fares!RoutePoints
<1>4. Fares!PickupPoints' = Fares!PickupPoints
  BY <1>3 DEF Fares!PickupPoints
<1>5. Fares!PickupIndex' = Fares!PickupIndex
  BY <1>1, <1>4 DEF Fares!PickupIndex
<1>6. Fares!DropoffIndex' = Fares!DropoffIndex
  BY <1>1, <1>3 DEF Fares!DropoffIndex
<1>7. Fares!Bookable' = Fares!Bookable
  BY <1>1, <1>3, <1>4, <1>5, <1>6 DEF Fares!Bookable, Fares!IsNear
<1>8. Fares!Fare(entry.seats)' = Fares!Fare(entry.seats)
  BY <1>1, <1>3, <1>5, <1>6 DEF Fares!Fare
<1> QED
  BY <1>2, <1>3, <1>4, <1>5, <1>6, <1>7, <1>8

\* The answers stay the ones of the ride and the request.
LEMMA AnswersKept ==
    ASSUME Fares!Assumptions
    PROVE  Fares!Spec => []AnswersOK
<1>1. ASSUME Fares!Init PROVE AnswersOK
  BY <1>1 DEF Fares!Init, AnswersOK, RideOK
<1>2. ASSUME AnswersOK, [Fares!Next]_Fares!vars PROVE AnswersOK'
  <2>1. UNCHANGED <<trip, entry>>
    BY <1>2 DEF Fares!Next, Fares!BookTrip, Fares!Promote, Fares!vars
  <2>2. RideOK'
    BY <1>2, <2>1, SameRide DEF AnswersOK
  <2>3. \/ booking' = booking
        \/ booking' = IF Fares!Bookable THEN Fares!Fare(entry.seats) ELSE Fares!Refused
    BY <1>2 DEF Fares!Next, Fares!BookTrip, Fares!Promote, Fares!vars
  <2>4. \/ promotion' = promotion
        \/ promotion' = IF Len(Fares!RoutePoints) >= 2 /\ Fares!PickupIndex < Fares!DropoffIndex
                        THEN Fares!Fare(entry.seats) ELSE Fares!Refused
    BY <1>2 DEF Fares!Next, Fares!BookTrip, Fares!Promote, Fares!PromotedFare, Fares!vars
  <2> QED
    BY <1>2, <2>1, <2>2, <2>3, <2>4, SameRide DEF AnswersOK, Fares!Refused
<1> QED
  BY <1>1, <1>2, PTL DEF Fares!Spec

\* The indices of a request are points of the route, or 0.
LEMMA IndicesOnRoute ==
    ASSUME Fares!Assumptions, RideOK
    PROVE  /\ entry.pickup \in Places /\ entry.dropoff \in Places
           /\ Fares!PickupIndex \in 0..Len(Fares!RoutePoints)
           /\ Fares!DropoffIndex \in 0..Len(Fares!RoutePoints)
           /\ IsFirstNearest(entry.pickup, Fares!PickupPoints, Fares!PickupIndex)
           /\ IsFirstNearest(entry.dropoff, Fares!RoutePoints, Fares!DropoffIndex)
<1> DEFINE R == Fares!RoutePoints
           P == Fares!PickupPoints
<1>1. entry.pickup \in Places /\ entry.dropoff \in Places
  BY DEF RideOK
<1>2. R \in Seq(Places) /\ P \in Seq(Places) /\ Len(P) \in 1..Len(R) /\ Len(R) \in Nat
  BY RoutePlaces
<1> HIDE DEF R, P
<1>3. /\ Fares!NearestIndex(entry.pickup, P) \in 0..Len(P)
      /\ Len(P) > 0 => IsFirstNearest(entry.pickup, P, Fares!NearestIndex(entry.pickup, P))
  BY <1>1, <1>2, NearestFound
<1>4. /\ Fares!NearestIndex(entry.dropoff, R) \in 0..Len(R)
      /\ Len(R) > 0 => IsFirstNearest(entry.dropoff, R, Fares!NearestIndex(entry.dropoff, R))
  BY <1>1, <1>2, NearestFound
<1>5. Fares!PickupIndex = Fares!NearestIndex(entry.pickup, P)
  BY DEF Fares!PickupIndex, P
<1>6. Fares!DropoffIndex = Fares!NearestIndex(entry.dropoff, R)
  BY DEF Fares!DropoffIndex, R
<1>7. Len(P) > 0 /\ Len(R) > 0 /\ 0..Len(P) \subseteq 0..Len(R)
  BY <1>2
<1> QED
  BY <1>1, <1>3, <1>4, <1>5, <1>6, <1>7 DEF R, P

\* A request that can be booked gets on before it gets off, near its places.
LEMMA BookableWay ==
    ASSUME Fares!Assumptions, RideOK, Fares!Bookable
    PROVE  /\ Fares!PickupIndex \in 1..Len(Fares!RoutePoints)
           /\ Fares!DropoffIndex \in 1..Len(Fares!RoutePoints)
           /\ Fares!PickupIndex < Fares!DropoffIndex
           /\ Distance(entry.pickup, Fares!RoutePoints[Fares!PickupIndex])
                  <= BOOKING_THRESHOLD_KM
           /\ Distance(entry.dropoff, Fares!RoutePoints[Fares!DropoffIndex])
                  <= BOOKING_THRESHOLD_KM
<1>1. /\ Fares!PickupIndex \in 1..Len(Fares!PickupPoints)
      /\ Fares!DropoffIndex \in 1..Len(Fares!RoutePoints)
  BY IndicesOnRoute DEF IsFirstNearest
<1>2. Fares!PickupPoints[Fares!PickupIndex] = Fares!RoutePoints[Fares!PickupIndex]
  BY <1>1, RoutePlaces
<1>3. Fares!PickupIndex \in 1..Len(Fares!RoutePoints)
  BY <1>1, RoutePlaces
<1>4. /\ Distance(entry.pickup, Fares!PickupPoints[Fares!PickupIndex]) <= BOOKING_THRESHOLD_KM
      /\ Distance(entry.dropoff, Fares!RoutePoints[Fares!DropoffIndex]) <= BOOKING_THRESHOLD_KM
      /\ Fares!PickupIndex < Fares!DropoffIndex
  BY DEF Fares!Bookable, Fares!IsNear, Fares!PickupIndex, Fares!DropoffIndex
<1> QED
  BY <1>1, <1>2, <1>3, <1>4

\* An accepted answer is the fare of a request that can be booked.
LEMMA AcceptedFare ==
    ASSUME AnswersOK, Fares!Accepted(booking)
    PROVE  Fares!Bookable /\ booking = Fares!Fare(entry.seats)
BY DEF AnswersOK, Fares!Accepted, Fares!Refused

\* A fare is the length of the way and its price.
LEMMA FareOfWay ==
    ASSUME Fares!Assumptions, RideOK,
           Fares!PickupIndex \in 1..Len(Fares!RoutePoints),
           Fares!DropoffIndex \in 1..Len(Fares!RoutePoints),
           Fares!PickupIndex < Fares!DropoffIndex
    PROVE  LET fare == Fares!Fare(entry.seats)
           IN /\ fare \in Fares!Outcome
              /\ fare.distanceKm >= Distance(Fares!RoutePoints[Fares!PickupIndex],
                                             Fares!RoutePoints[Fares!DropoffIndex])
              /\ fare.distanceKm
                     <= Fares!SegmentDistanceKm(Fares!RoutePoints, 1, Len(Fares!RoutePoints))
              /\ fare.price = entry.seats * (fare.distanceKm * PricePerKm)
<1> DEFINE R == Fares!RoutePoints
           i == Fares!PickupIndex
           j == Fares!DropoffIndex
           d == Fares!SegmentDistanceKm(R, i, j)
<1>1. R \in Seq(Places)
  BY RoutePlaces
<1>2. i \in 1..Len(R) /\ j \in 1..Len(R) /\ i < j
  OBVIOUS
<1> HIDE DEF R, i, j
<1>3. /\ d \in Nat
      /\ Distance(R[i], R[j]) <= d
      /\ d <= Fares!SegmentDistanceKm(R, 1, Len(R))
  BY <1>1, <1>2, SegmentBounds
<1>4. Fares!Fare(entry.seats) =
          [accepted |-> TRUE, distanceKm |-> d, price |-> d * PricePerKm * entry.seats]
  BY DEF Fares!Fare, R, i, j
<1> HIDE DEF d
<1>5. entry.seats \in Nat /\ PricePerKm \in Nat
  BY DEF RideOK, Fares!Assumptions
<1>6. d * PricePerKm \in Nat
  BY <1>3, <1>5
<1>7. d * PricePerKm * entry.seats = entry.seats * (d * PricePerKm)
  BY <1>5, <1>6
<1>8. d * PricePerKm * entry.seats \in Nat
  BY <1>5, <1>6
<1>9. Distance(R[i], R[j]) \in Nat
  <2>1. R[i] \in Places /\ R[j] \in Places
    BY <1>1, <1>2
  <2> QED
    BY <2>1 DEF Fares!Assumptions, Fares!IsMetric
<1> QED
  BY <1>3, <1>4, <1>7, <1>8, <1>9 DEF Fares!Outcome, R, i, j

(* A booking that is accepted is one the ride can serve: findNearestRoute- *)
(* PointIndex finds a point near the pickup, and a later one near the      *)
(* dropoff.                                                                *)
THEOREM BookingsAreOnTheWay ==
    ASSUME Fares!Assumptions
    PROVE  Fares!Spec => []Fares!BookedOnTheWay
<1>1. AnswersOK => Fares!BookedOnTheWay
  <2> SUFFICES ASSUME AnswersOK, Fares!Accepted(booking) PROVE Fares!OnTheWay
    BY DEF Fares!BookedOnTheWay
  <2>1. Fares!Bookable /\ RideOK
    BY AcceptedFare DEF AnswersOK
  <2> QED
    BY <2>1, BookableWay DEF Fares!OnTheWay
<1> QED
  BY <1>1, AnswersKept, PTL

(* The fare of a booking is for the way its passenger travels: the distance*)
(* of its two places less what it walks, the whole route at most, per seat *)
(* and kilometre.                                                          *)
THEOREM FaresCoverTheWay ==
    ASSUME Fares!Assumptions
    PROVE  Fares!Spec => []Fares!FareCoversTheWay
<1>1. AnswersOK => Fares!FareCoversTheWay
  <2> SUFFICES ASSUME AnswersOK, Fares!Accepted(booking) PROVE Fares!FareCoversTheWay
    BY DEF Fares!FareCoversTheWay
  <2> DEFINE p == entry.pickup
             q == entry.dropoff
             a == Fares!RoutePoints[Fares!PickupIndex]
             b == Fares!RoutePoints[Fares!DropoffIndex]
             d == booking.distanceKm
             near == BOOKING_THRESHOLD_KM
  <2>1. Fares!Bookable /\ RideOK /\ booking = Fares!Fare(entry.seats)
    BY AcceptedFare DEF AnswersOK
  <2>2. /\ Fares!PickupIndex \in 1..Len(Fares!RoutePoints)
        /\ Fares!DropoffIndex \in 1..Len(Fares!RoutePoints)
        /\ Fares!PickupIndex < Fares!DropoffIndex
        /\ Distance(p, a) <= near /\ Distance(q, b) <= near
    BY <2>1, BookableWay
  <2>3. /\ booking \in Fares!Outcome
        /\ d >= Distance(a, b)
        /\ d <= Fares!SegmentDistanceKm(Fares!RoutePoints, 1, Len(Fares!RoutePoints))
        /\ booking.price = entry.seats * (d * PricePerKm)
    BY <2>1, <2>2, FareOfWay
  <2>4. {p, q, a, b} \subseteq Places
    BY <2>1, <2>2, RoutePlaces DEF RideOK
  <2>5. d \in Nat /\ near \in Nat
    BY <2>3 DEF Fares!Outcome, Fares!Assumptions
  <2> HIDE DEF p, q, a, b, d, near
  <2>6. d + 2 * near >= Distance(p, q)
    <3>1. /\ Distance(p, q) <= Distance(p, a) + Distance(a, q)
          /\ Distance(a, q) <= Distance(a, b) + Distance(b, q)
          /\ Distance(b, q) = Distance(q, b)
      BY <2>4 DEF Fares!Assumptions, Fares!IsMetric
    <3>2. {Distance(p, q), Distance(p, a), Distance(a, q), Distance(a, b), Distance(b, q)}
              \subseteq Nat
      BY <2>4 DEF Fares!Assumptions, Fares!IsMetric
    <3> QED
      BY <2>2, <2>3, <2>5, <3>1, <3>2
  <2> QED
    BY <2>3, <2>6 DEF Fares!FareCoversTheWay, p, q, d, near
<1> QED
  BY <1>1, AnswersKept, PTL

(* An entry that bookTrip accepts is one the promotion of the waitlist     *)
(* accepts at the same fare.                                               *)
THEOREM PromotionsCostTheSame ==
    ASSUME Fares!Assumptions
    PROVE  Fares!Spec => []Fares!SamePriceFromWaitlist
<1>1. AnswersOK => Fares!SamePriceFromWaitlist
  <2> SUFFICES ASSUME AnswersOK, Fares!Accepted(booking), promotion # None
               PROVE  promotion = booking
    BY DEF Fares!SamePriceFromWaitlist, Fares!Answered
  <2>1. Fares!Bookable /\ RideOK /\ booking = Fares!Fare(entry.seats)
    BY AcceptedFare DEF AnswersOK
  <2>2. Len(Fares!RoutePoints) >= 2 /\ Fares!PickupIndex < Fares!DropoffIndex
    BY <2>1, BookableWay, RoutePlaces
  <2> QED
    BY <2>1, <2>2 DEF AnswersOK
<1> QED
  BY <1>1, AnswersKept, PTL

(* findNearestPickupPoint and findNearestRoutePointIndex find the first of *)
(* the points at the least distance, whatever the route is.                *)
THEOREM FirstNearestIsFound ==
    ASSUME Fares!Assumptions
    PROVE  Fares!Spec => []Fares!NearestIsFirstNearest
<1>1. AnswersOK => Fares!NearestIsFirstNearest
  <2> SUFFICES ASSUME AnswersOK, NEW stops \in {Fares!PickupPoints, Fares!RoutePoints}
               PROVE  LET least == {i \in 1..Len(stops) : \A j \in 1..Len(stops) :
                              Distance(entry.pickup, stops[i])
                                  <= Distance(entry.pickup, stops[j])}
                      IN Fares!NearestIndex(entry.pickup, stops) = Fares!Min(least)
    BY DEF Fares!NearestIsFirstNearest
  <2> DEFINE least == {i \in 1..Len(stops) : \A j \in 1..Len(stops) :
                           Distance(entry.pickup, stops[i])
                               <= Distance(entry.pickup, stops[j])}
             k == Fares!NearestIndex(entry.pickup, stops)
  <2>1. RideOK /\ entry.pickup \in Places
    BY DEF AnswersOK, RideOK
  <2>2. stops \in Seq(Places) /\ Len(stops) \in Nat /\ Len(stops) > 0
    BY <2>1, RoutePlaces
  <2>3. IsFirstNearest(entry.pickup, stops, k)
    BY <2>1, <2>2, NearestFound
  <2> HIDE DEF k
  <2>4. \A j \in 1..Len(stops) : Distance(entry.pickup, stops[j]) \in Nat
    <3>1. \A j \in 1..Len(stops) : stops[j] \in Places
      BY <2>2
    <3> QED
      BY <2>1, <3>1 DEF Fares!Assumptions, Fares!IsMetric
  <2>5. k \in least /\ least \subseteq Nat
    BY <2>3 DEF IsFirstNearest
  <2>6. \A i \in least : k <= i
    BY <2>2, <2>3, <2>4 DEF IsFirstNearest
  <2> HIDE DEF least
  <2>7. \A x \in least : (\A y \in least : x <= y) <=> x = k
    BY <2>5, <2>6
  <2>8. Fares!Min(least) = k
    BY <2>5, <2>7 DEF Fares!Min
  <2> QED
    BY <2>8 DEF least, k
<1> QED
  BY <1>1, AnswersKept, PTL

(* The answers to a request are fares or refusals: a way and a price that  *)
(* are whole and not negative.                                             *)
THEOREM FaresTypeCorrect ==
    ASSUME Fares!Assumptions
    PROVE  Fares!Spec => []Fares!TypeOK
<1>1. AnswersOK => Fares!TypeOK
  <2> SUFFICES ASSUME AnswersOK PROVE {booking, promotion} \subseteq Fares!Outcome \cup {None}
    BY DEF AnswersOK, RideOK, Fares!TypeOK
  <2>1. RideOK
    BY DEF AnswersOK
  <2>2. Fares!Refused \in Fares!Outcome
    BY DEF Fares!Refused, Fares!Outcome
  <2>3. ASSUME Fares!Bookable PROVE Fares!Fare(entry.seats) \in Fares!Outcome
    BY <2>1, <2>3, BookableWay, FareOfWay
  <2>4. ASSUME Fares!PickupIndex < Fares!DropoffIndex
        PROVE  Fares!Fare(entry.seats) \in Fares!Outcome
    <3>1. /\ Fares!PickupIndex \in 1..Len(Fares!RoutePoints)
          /\ Fares!DropoffIndex \in 1..Len(Fares!RoutePoints)
      <4>1. Fares!PickupIndex \in 1..Len(Fares!PickupPoints)
        BY <2>1, IndicesOnRoute DEF IsFirstNearest
      <4>2. Fares!DropoffIndex \in 1..Len(Fares!RoutePoints)
        BY <2>1, IndicesOnRoute DEF IsFirstNearest
      <4> QED
        BY <2>1, <4>1, <4>2, RoutePlaces
    <3> QED
      BY <2>1, <2>4, <3>1, FareOfWay
  <2> QED
    BY <2>2, <2>3, <2>4 DEF AnswersOK
<1> QED
  BY <1>1, AnswersKept, PTL

------------------------------------------------------------------------------
(* The run of MCTrips: a behaviour that plays a scenario is one of its     *)
(* component.                                                              *)
LEMMA OneScenario ==
    ASSUME [Next]_vars
    PROVE  /\ \A name : Plays(name)' <=> Plays(name)
           /\ Plays("publishing") => [Publishing!Next]_(Publishing!vars)
           /\ Plays("reviewing") => [Reviewing!Next]_(Reviewing!vars)
           /\ Plays("fetching") => [Fetching!Next]_(Fetching!vars)
           /\ Plays("growing") => [Growing!Next]_(Growing!vars)
           /\ Plays("shrinking") => [Shrinking!Next]_(Shrinking!vars)
           /\ Plays("fares") => [Fares!Next]_(Fares!vars)
<1> USE DEF Plays, Next, PublishingStep, LocationStep, SearchStep, FareStep, vars,
            publishingVars, locationVars, searchVars, fareVars
<1>1. \A name : Plays(name)' <=> Plays(name)
  OBVIOUS
<1>2. Plays("publishing") => [Publishing!Next]_(Publishing!vars)
  BY DEF Publishing!vars, Publishing!flags
<1>3. Plays("reviewing") => [Reviewing!Next]_(Reviewing!vars)
  BY DEF Reviewing!vars, Reviewing!flags
<1>4. Plays("fetching") => [Fetching!Next]_(Fetching!vars)
  BY DEF Fetching!vars
<1>5. Plays("growing") => [Growing!Next]_(Growing!vars)
  BY DEF Growing!vars
<1>6. Plays("shrinking") => [Shrinking!Next]_(Shrinking!vars)
  BY DEF Shrinking!vars
<1>7. Plays("fares") => [Fares!Next]_(Fares!vars)
  BY DEF Fares!vars
<1> QED
  BY <1>1, <1>2, <1>3, <1>4, <1>5, <1>6, <1>7

\* With OneScenario, a behaviour either is one of the component or never plays it.
LEMMA PublishingPlay ==
    Spec => \/ Plays("publishing") /\ Publishing!Spec
            \/ []~Plays("publishing")
<1>1. Init /\ Plays("publishing") => Publishing!Init
  BY DEF Init, Plays
<1>2. [Next]_vars /\ Plays("publishing") => [Publishing!Next]_(Publishing!vars)
  BY OneScenario
<1>3. [Next]_vars => (Plays("publishing")' <=> Plays("publishing"))
  BY OneScenario
<1> QED
  BY <1>1, <1>2, <1>3, PTL DEF Spec, Publishing!Spec

\* The same of the others.
LEMMA ReviewingPlay ==
    Spec => \/ Plays("reviewing") /\ Reviewing!Spec
            \/ []~Plays("reviewing")
<1>1. Init /\ Plays("reviewing") => Reviewing!Init
  BY DEF Init, Plays
<1>2. [Next]_vars /\ Plays("reviewing") => [Reviewing!Next]_(Reviewing!vars)
  BY OneScenario
<1>3. [Next]_vars => (Plays("reviewing")' <=> Plays("reviewing"))
  BY OneScenario
<1> QED
  BY <1>1, <1>2, <1>3, PTL DEF Spec, Reviewing!Spec

LEMMA FetchingPlay ==
    Spec => \/ Plays("fetching") /\ Fetching!Spec
            \/ []~Plays("fetching")
<1>1. Init /\ Plays("fetching") => Fetching!Init
  BY DEF Init, Plays
<1>2. [Next]_vars /\ Plays("fetching") => [Fetching!Next]_(Fetching!vars)
  BY OneScenario
<1>3. [Next]_vars => (Plays("fetching")' <=> Plays("fetching"))
  BY OneScenario
<1> QED
  BY <1>1, <1>2, <1>3, PTL DEF Spec, Fetching!Spec

LEMMA GrowingPlay ==
    Spec => \/ Plays("growing") /\ Growing!Spec
            \/ []~Plays("growing")
<1>1. Init /\ Plays("growing") => Growing!Init
  BY DEF Init, Plays
<1>2. [Next]_vars /\ Plays("growing") => [Growing!Next]_(Growing!vars)
  BY OneScenario
<1>3. [Next]_vars => (Plays("growing")' <=> Plays("growing"))
  BY OneScenario
<1> QED
  BY <1>1, <1>2, <1>3, PTL DEF Spec, Growing!Spec

LEMMA ShrinkingPlay ==
    Spec => \/ Plays("shrinking") /\ Shrinking!Spec
            \/ []~Plays("shrinking")
<1>1. Init /\ Plays("shrinking") => Shrinking!Init
  BY DEF Init, Plays
<1>2. [Next]_vars /\ Plays("shrinking") => [Shrinking!Next]_(Shrinking!vars)
  BY OneScenario
<1>3. [Next]_vars => (Plays("shrinking")' <=> Plays("shrinking"))
  BY OneScenario
<1> QED
  BY <1>1, <1>2, <1>3, PTL DEF Spec, Shrinking!Spec

LEMMA FaresPlay ==
    Spec => \/ Plays("fares") /\ Fares!Spec
            \/ []~Plays("fares")
<1>1. Init /\ Plays("fares") => Fares!Init
  BY DEF Init, Plays
<1>2. [Next]_vars /\ Plays("fares") => [Fares!Next]_(Fares!vars)
  BY OneScenario
<1>3. [Next]_vars => (Plays("fares")' <=> Plays("fares"))
  BY OneScenario
<1> QED
  BY <1>1, <1>2, <1>3, PTL DEF Spec, Fares!Spec

(* Every row, request, timer, page and fare keeps its type, for any        *)
(* drivers, rides, requests, names, distances and limits.                  *)
THEOREM TypeCorrect ==
    ASSUME Assumptions
    PROVE  Spec => []TypeOK
<1>1. Publishing!Spec => []Publishing!TypeOK
  BY Publishing!TypeCorrect DEF Assumptions
<1>2. Reviewing!Spec => []Reviewing!TypeOK
  BY Reviewing!TypeCorrect DEF Assumptions
<1>3. Fetching!Spec => [](Fetching!TypeOK /\ Fetching!PointsFollowRoute)
  BY PointsAreFirst DEF Assumptions
<1>4. Growing!Spec => []Growing!TypeOK
  BY Growing!TypeCorrect DEF Assumptions
<1>5. Shrinking!Spec => []Shrinking!TypeOK
  BY Shrinking!TypeCorrect DEF Assumptions
<1>6. Fares!Spec => []Fares!TypeOK
  BY FaresTypeCorrect DEF Assumptions
<1> QED
  BY <1>1, <1>2, <1>3, <1>4, <1>5, <1>6, PublishingPlay, ReviewingPlay, FetchingPlay,
     GrowingPlay, ShrinkingPlay, FaresPlay, PTL DEF TypeOK

(* createTrip, one at a time, gives a driver no two rides at one instant,  *)
(* for any number of drivers, rides and instants.                          *)
THEOREM RidesDoNotOverlap ==
    ASSUME Assumptions
    PROVE  Spec => []NoOverlap
<1>1. Publishing!Spec => []Publishing!NoOverlap
  BY Publishing!SerialNoOverlap DEF Assumptions
<1> QED
  BY <1>1, PublishingPlay, PTL DEF NoOverlap

(* updateDocumentStatus approves a driver only if both documents were      *)
(* approved at one instant, however many administrators review them.       *)
THEOREM DriversAreApprovedAtOnce ==
    ASSUME Assumptions
    PROVE  Spec => []ApprovedTogether
<1>1. Reviewing!Spec => []Reviewing!ApprovedTogether
  BY Reviewing!ApprovedAtOnce DEF Assumptions
<1> QED
  BY <1>1, ReviewingPlay, PTL DEF ApprovedTogether

(* fetchWithRetry gives up only after its last attempt, and getRoutePoints *)
(* names the points of what it fetched, for any attempts, steps and limit. *)
THEOREM RoutesAreFetched ==
    ASSUME Assumptions
    PROVE  Spec => []FetchedRoute
<1>1. Fetching!Spec => [](Fetching!FailsAfterEveryAttempt /\ WaitsUnderTimer)
  BY FetchesAreRetried DEF Assumptions
<1>2. Fetching!Spec => [](Fetching!TypeOK /\ Fetching!PointsFollowRoute)
  BY PointsAreFirst DEF Assumptions
<1> QED
  BY <1>1, <1>2, FetchingPlay, PTL DEF FetchedRoute

(* The pages of a list hold every ride that stays in it while others come, *)
(* and none twice while others go, for any rides, limits and page sizes.   *)
THEOREM ListsArePagedThrough ==
    ASSUME Assumptions
    PROVE  Spec => []PagesCoverTheList
<1>1. Growing!Spec => []Growing!EveryRideShown
  BY Growing!SteadyRidesAreShown DEF Assumptions
<1>2. Shrinking!Spec => []Shrinking!NoRideTwice
  <2>1. Shrinking!SortsAreFixed
    BY DEF Assumptions, Growing!SortsAreFixed, Shrinking!SortsAreFixed
  <2> QED
    BY <2>1, Shrinking!RidesAreShownOnce DEF Assumptions
<1> QED
  BY <1>1, <1>2, GrowingPlay, ShrinkingPlay, PTL DEF PagesCoverTheList

(* An accepted booking is served by the ride and costs its part of it,     *)
(* whatever the distances, the thresholds and the price of a kilometre.    *)
THEOREM FaresAreForTheWay ==
    ASSUME Assumptions
    PROVE  Spec => []FareOfTheWay
<1>1. /\ Fares!Spec => []Fares!BookedOnTheWay
      /\ Fares!Spec => []Fares!FareCoversTheWay
      /\ Fares!Spec => []Fares!NearestIsFirstNearest
  BY BookingsAreOnTheWay, FaresCoverTheWay, FirstNearestIsFound DEF Assumptions
<1> QED
  BY <1>1, FaresPlay, PTL DEF FareOfTheWay

(* The waitlist asks the same price as the booking.                        *)
THEOREM WaitlistAsksTheSame ==
    ASSUME Assumptions
    PROVE  Spec => []SamePriceFromWaitlist
<1>1. Fares!Spec => []Fares!SamePriceFromWaitlist
  BY PromotionsCostTheSame DEF Assumptions
<1> QED
  BY <1>1, FaresPlay, PTL DEF SamePriceFromWaitlist
==============================================================================
