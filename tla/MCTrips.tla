------------------------------- MODULE MCTrips -------------------------------
(***************************************************************************)
(* How a ride comes to a passenger: its publication (TripPublishing), the  *)
(* points of its route (LocationFetch), the lists it is found in           *)
(* (TripSearch) and the fare of a part of it (RouteFare), for TLC.  The    *)
(* four share no state here, so a behaviour is about one of them: it plays *)
(* one scenario, a component under one choice of what may go wrong, and    *)
(* the variables of the others are None.  The components come with their   *)
(* theorems, so that TripsProofs can conclude from them.                   *)
(***************************************************************************)
EXTENDS Integers, Sequences, FiniteSets

CONSTANTS
    Drivers, Rides, MaxTime, Requests,         \* of TripPublishing
    FewerRides, Reviewers,                     \* its Rides and Requests while reviewing
    Retries, MaxSteps, MaxPoints, Names, Blocked,            \* of LocationFetch
    Rows, Kinds, Sorts, Radius, MaxDistance, DefaultLimit, MaxLimit, Limits,  \* of TripSearch
    AnyKinds, ShorterDistance, AnyLimits,      \* its constants of that name while rides go
    Places, ZeroPlace, Distance(_, _), MaxStops, MaxSeats, PricePerKm,   \* of RouteFare
    BOOKING_THRESHOLD_KM, SAME_LOCATION_THRESHOLD_KM,
    None

VARIABLES
    scenario,
    ride,                                 \* of TripPublishing and of TripSearch
    car, document, agreed, verified, barred, request,
    at, attempt, timers, route, points,
    client, shown, steady,
    trip, entry, booking, promotion

publishingVars == <<car, document, agreed, verified, barred, request>>
locationVars == <<at, attempt, timers, route, points>>
searchVars == <<client, shown, steady>>
fareVars == <<trip, entry, booking, promotion>>
vars == <<scenario, ride, publishingVars, locationVars, searchVars, fareVars>>

\* One handler at a time.
Publishing == INSTANCE TripPublishingProofs WITH Serial <- TRUE, Restrictable <- {}
\* Administrators and drivers at the documents at the same time.
Reviewing == INSTANCE TripPublishingProofs WITH
    Rides <- FewerRides, MaxTime <- 0, Requests <- Reviewers, Serial <- FALSE,
    Restrictable <- Drivers
\* A service that fails in every way but in the middle of a body.
Fetching == INSTANCE LocationFetch WITH BodyFails <- FALSE, BodyStalls <- TRUE
\* Rides come into the lists while they are paged through.  The lists are the
\* ones whose count and page size are right.
Growing == INSTANCE TripSearchProofs WITH Arrivals <- TRUE, Departures <- FALSE
\* Rides go out of the lists, users of a type among them, with any limit.
Shrinking == INSTANCE TripSearchProofs WITH
    Kinds <- AnyKinds, MaxDistance <- ShorterDistance, Limits <- AnyLimits,
    Arrivals <- FALSE, Departures <- TRUE
Fares == INSTANCE RouteFare

ASSUME Assumptions ==
    /\ Publishing!Assumptions /\ Reviewing!Assumptions /\ Fetching!Assumptions
    /\ Growing!Assumptions /\ Shrinking!Assumptions /\ Fares!Assumptions
    /\ Growing!SortsAreFixed /\ Growing!CountsKept /\ Growing!LimitsKept

\* Distances along a street, for Distance in TLC's run.
AlongStreet(p, q) == IF p < q THEN q - p ELSE p - q

------------------------------------------------------------------------------
Plays(name) == scenario = name

NoPublishing ==
    /\ car = None /\ document = None /\ agreed = None
    /\ verified = None /\ barred = None /\ request = None
NoLocation ==
    at = None /\ attempt = None /\ timers = None /\ route = None /\ points = None
NoSearch == client = None /\ shown = None /\ steady = None
NoFare == trip = None /\ entry = None /\ booking = None /\ promotion = None

Init ==
    \/ Plays("publishing") /\ Publishing!Init /\ NoLocation /\ NoSearch /\ NoFare
    \/ Plays("reviewing") /\ Reviewing!Init /\ NoLocation /\ NoSearch /\ NoFare
    \/ Plays("fetching") /\ Fetching!Init /\ ride = None /\ NoPublishing /\ NoSearch /\ NoFare
    \/ Plays("growing") /\ Growing!Init /\ NoPublishing /\ NoLocation /\ NoFare
    \/ Plays("shrinking") /\ Shrinking!Init /\ NoPublishing /\ NoLocation /\ NoFare
    \/ Plays("fares") /\ Fares!Init /\ ride = None /\ NoPublishing /\ NoLocation /\ NoSearch

PublishingStep ==
    /\ \/ Plays("publishing") /\ Publishing!Next
       \/ Plays("reviewing") /\ Reviewing!Next
    /\ UNCHANGED <<locationVars, searchVars, fareVars>>
LocationStep ==
    /\ Plays("fetching") /\ Fetching!Next
    /\ UNCHANGED <<ride, publishingVars, searchVars, fareVars>>
SearchStep ==
    /\ \/ Plays("growing") /\ Growing!Next
       \/ Plays("shrinking") /\ Shrinking!Next
    /\ UNCHANGED <<publishingVars, locationVars, fareVars>>
FareStep ==
    /\ Plays("fares") /\ Fares!Next
    /\ UNCHANGED <<ride, publishingVars, locationVars, searchVars>>

Next == UNCHANGED scenario /\ (PublishingStep \/ LocationStep \/ SearchStep \/ FareStep)

Spec == Init /\ [][Next]_vars

------------------------------------------------------------------------------
(* The type invariants of the four components.                             *)
TypeOK ==
    /\ Plays("publishing") => Publishing!TypeOK
    /\ Plays("reviewing") => Reviewing!TypeOK
    /\ Plays("fetching") => Fetching!TypeOK
    /\ Plays("growing") => Growing!TypeOK
    /\ Plays("shrinking") => Shrinking!TypeOK
    /\ Plays("fares") => Fares!TypeOK

(* createTrip, one at a time, gives a driver no two rides at one instant.  *)
NoOverlap == Plays("publishing") => Publishing!NoOverlap

(* updateDocumentStatus approves a driver's row, and verifies a restricted *)
(* driver, only if both documents were approved at one instant, whoever    *)
(* reviews, files and restricts at the same time.                          *)
ApprovedTogether == Plays("reviewing") => Reviewing!ApprovedTogether

(* fetchWithRetry gives up only after its last attempt, and getRoutePoints *)
(* names the points of what it fetched in the order of the route.          *)
FetchedRoute ==
    Plays("fetching") => Fetching!FailsAfterEveryAttempt /\ Fetching!PointsFollowRoute

(* The pages of a list hold every ride that stays in it while others come, *)
(* and no ride twice while others go.                                      *)
PagesCoverTheList ==
    /\ Plays("growing") => Growing!EveryRideShown
    /\ Plays("shrinking") => Shrinking!NoRideTwice

(* An accepted booking is served by the ride, and costs its part of it.    *)
FareOfTheWay ==
    Plays("fares") => Fares!BookedOnTheWay /\ Fares!FareCoversTheWay
                      /\ Fares!NearestIsFirstNearest

(* The waitlist asks the same price as the booking.                        *)
SamePriceFromWaitlist == Plays("fares") => Fares!SamePriceFromWaitlist
==============================================================================
