------------------------------ MODULE RouteFare -------------------------------
(***************************************************************************)
(* Where on a ride's route a passenger gets on and off, and what that      *)
(* costs: utils/location.utils and its two callers, bookTrip (modules/     *)
(* passenger/trip) and the promotion of the waitlist (cron/waitlist.cron). *)
(* Of haversineDistance the code uses that it is a metric.                 *)
(***************************************************************************)
EXTENDS Integers, Sequences, SequencesExt, FiniteSetsExt

CONSTANTS
    Places,       \* where a ride, a pickup or a dropoff can be
    ZeroPlace,    \* the place at 0, 0
    Distance(_, _),  \* haversineDistance
    MaxStops,     \* bound: pickup locations of a ride
    MaxSeats,     \* bound: seats of a request, 6 in the code
    PricePerKm,
    BOOKING_THRESHOLD_KM,        \* a place is near the route: 2 km
    SAME_LOCATION_THRESHOLD_KM,  \* two places are the same: 0.5 km
    None          \* a coordinate that is null, an element that is no point

IsMetric ==
    /\ \A p, q \in Places : Distance(p, q) \in Nat /\ Distance(p, q) = Distance(q, p)
    /\ \A p, q, r \in Places : Distance(p, r) <= Distance(p, q) + Distance(q, r)

Assumptions ==
    /\ ZeroPlace \in Places /\ None \notin Places
    /\ IsMetric
    /\ {MaxStops, MaxSeats, PricePerKm} \subseteq Nat
    /\ {BOOKING_THRESHOLD_KM, SAME_LOCATION_THRESHOLD_KM} \subseteq Nat

VARIABLES
    trip,      \* the ride: origin, pickupLocations, destination
    entry,     \* the request: pickup, dropoff, seats
    booking,   \* what bookTrip answered, or None
    promotion  \* what the cron made of the same entry, or None

vars == <<trip, entry, booking, promotion>>

Point == Places \cup {None}
Refused == [accepted |-> FALSE, distanceKm |-> 0, price |-> 0]
Outcome == [accepted: BOOLEAN, distanceKm: Nat, price: Nat]

\* One type invariant: an answer is a refusal or a fare.
TypeOK ==
    /\ trip \in [origin: Point, pickupLocations: SeqOf(Point, MaxStops), destination: Point]
    /\ entry \in [pickup: Places, dropoff: Places, seats: 1..MaxSeats]
    /\ {booking, promotion} \subseteq Outcome \cup {None}

------------------------------------------------------------------------------
(* The reduce of findNearestPickupPoint and findNearestRoutePointIndex: the*)
(* index of the nearest of the first n points, 0 for no point; a later     *)
(* point must be nearer to replace an earlier one.                         *)
NearestIndex(location, points) ==
    LET closest[n \in 0..Len(points)] ==
            IF n = 0 THEN 0
            ELSE IF closest[n - 1] = 0
                    \/ Distance(location, points[n]) < Distance(location, points[closest[n - 1]])
                 THEN n ELSE closest[n - 1]
    IN closest[Len(points)]

IsNear(location, points) ==
    LET nearest == NearestIndex(location, points)
    IN nearest # 0 /\ Distance(location, points[nearest]) <= BOOKING_THRESHOLD_KM

(* calculateRouteSegmentDistanceKm: the distance from start to every n.    *)
SegmentDistanceKm_OneShort(points, start, end) ==
    IF start < 1 \/ end > Len(points) \/ end <= start THEN 0
    ELSE LET total[n \in start..end] ==
                 IF n = start THEN 0 ELSE total[n - 1] + Distance(points[n - 1], points[n])
         IN total[end - 1]
SegmentDistanceKm(points, start, end) ==
    IF start < 1 \/ end > Len(points) \/ end <= start THEN 0
    ELSE LET total[n \in start..end] ==
                 IF n = start THEN 0 ELSE total[n - 1] + Distance(points[n - 1], points[n])
         IN total[end]

(* buildRideRoutePoints: the origin, 0, 0 when it is null; the points      *)
(* among the pickup locations; the destination when there is one.          *)
PointsAmong(locations) ==
    LET points[n \in 0..Len(locations)] ==
            IF n = 0 THEN <<>>
            ELSE IF locations[n] = None THEN points[n - 1]
                 ELSE Append(points[n - 1], locations[n])
    IN points[Len(locations)]
RoutePoints ==
    <<IF trip.origin = None THEN ZeroPlace ELSE trip.origin>>
        \o PointsAmong(trip.pickupLocations)
        \o IF trip.destination = None THEN <<>> ELSE <<trip.destination>>
PickupPoints == SubSeq(RoutePoints, 1, Max({Len(RoutePoints) - 1, 1}))

PickupIndex == NearestIndex(entry.pickup, PickupPoints)
DropoffIndex == NearestIndex(entry.dropoff, RoutePoints)

Fare(seats) ==
    LET distance == SegmentDistanceKm(RoutePoints, PickupIndex, DropoffIndex)
    IN [accepted |-> TRUE, distanceKm |-> distance, price |-> distance * PricePerKm * seats]

------------------------------------------------------------------------------
Init ==
    /\ trip \in [origin: Point, pickupLocations: SeqOf(Point, MaxStops), destination: Point]
    /\ entry \in [pickup: Places, dropoff: Places, seats: 1..MaxSeats]
    /\ booking = None
    /\ promotion = None

(* bookTrip refuses places off the route, the same place twice, and a      *)
(* dropoff that is not after the pickup.                                   *)
Bookable ==
    /\ IsNear(entry.pickup, PickupPoints)
    /\ IsNear(entry.dropoff, RoutePoints)
    /\ ~ Distance(entry.pickup, entry.dropoff) < SAME_LOCATION_THRESHOLD_KM
    /\ PickupIndex < DropoffIndex
BookTrip ==
    /\ booking = None
    /\ booking' = IF Bookable THEN Fare(entry.seats) ELSE Refused
    /\ UNCHANGED <<trip, entry, promotion>>

(* The cron looks at the order of the two matches alone: not at isNear, nor*)
(* at the distance of the two places.                                      *)
PromotedFare_PerEntry == Fare(1)
PromotedFare == Fare(entry.seats)
Promote ==
    /\ promotion = None
    /\ promotion' = IF Len(RoutePoints) >= 2 /\ PickupIndex < DropoffIndex
                    THEN PromotedFare ELSE Refused
    /\ UNCHANGED <<trip, entry, booking>>

Next == BookTrip \/ Promote

Spec == Init /\ [][Next]_vars

------------------------------------------------------------------------------
Answered(answer) == answer # None
Accepted(answer) == answer # None /\ answer.accepted

\* The passenger can ride from a point of the route near the pickup to a
\* later one near the dropoff.
OnTheWay == \E i, j \in 1..Len(RoutePoints) :
    /\ i < j
    /\ Distance(entry.pickup, RoutePoints[i]) <= BOOKING_THRESHOLD_KM
    /\ Distance(entry.dropoff, RoutePoints[j]) <= BOOKING_THRESHOLD_KM

(* A booking that is accepted is one the ride can serve: it passes the     *)
(* pickup and then the dropoff.                                            *)
BookedOnTheWay == Accepted(booking) => OnTheWay

(* The fare is for the way the passenger travels: at least the distance of *)
(* the two places, less what it walks at either end, at most the whole     *)
(* route, per seat and kilometre.                                          *)
FareCoversTheWay ==
    Accepted(booking) =>
        /\ booking.distanceKm + 2 * BOOKING_THRESHOLD_KM >= Distance(entry.pickup, entry.dropoff)
        /\ booking.distanceKm <= SegmentDistanceKm(RoutePoints, 1, Len(RoutePoints))
        /\ booking.price = entry.seats * (booking.distanceKm * PricePerKm)

(* "Waitlist promotions use the same distance-based pricing logic as direct*)
(* bookings": an entry that both accept costs the same, and no entry that  *)
(* can be booked is one the waitlist skips.                                *)
SamePriceFromWaitlist ==
    Accepted(booking) /\ Answered(promotion) => promotion = booking

(* The nearest point is the first of those at the least distance: a        *)
(* passenger gets on where the ride first comes nearest.                   *)
NearestIsFirstNearest ==
    \A points \in {PickupPoints, RoutePoints} :
        LET least == {i \in 1..Len(points) : \A j \in 1..Len(points) :
                Distance(entry.pickup, points[i]) <= Distance(entry.pickup, points[j])}
        IN NearestIndex(entry.pickup, points) = Min(least)

(* BOOKING_THRESHOLD_KM = 2 (cron/waitlist.cron): the promotion matches    *)
(* places against the route with the threshold of a booking, so an entry it*)
(* promotes is near the route at both ends.                                *)
PromotedOnTheWay == Accepted(promotion) => OnTheWay

(* "Dropoff must come after pickup on the trip route": a request of two    *)
(* places too far apart to be near one point of the route is refused only  *)
(* if the ride does not pass the pickup and then the dropoff.              *)
RefusedOffTheWay ==
    /\ Answered(booking) /\ ~booking.accepted
    /\ Distance(entry.pickup, entry.dropoff) > 2 * BOOKING_THRESHOLD_KM
    => ~OnTheWay
==============================================================================
