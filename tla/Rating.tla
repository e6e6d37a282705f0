-------------------------------- MODULE Rating --------------------------------
(***************************************************************************)
(* The review of a ride's driver by a passenger once the ride is over      *)
(* (modules/rating): submitRating reads the ride with its bookings and its *)
(* reviews, validates them, and inserts a review, for which no unique key  *)
(* exists.  The ride and its bookings are RideBooking's: here the ride ends*)
(* at some instant, and a passenger gets one booking or several.           *)
(***************************************************************************)
EXTENDS Naturals

CONSTANTS
    Users,        \* who may submit a rating
    MaxReviews,   \* bound: reviews of one user for the ride
    MaxBookings,  \* bound: bookings of one user for the ride
    Requests,     \* bound: requests open at the same time
    Serial        \* TRUE: a handler starts only when none is open

Assumptions == MaxReviews \in Nat /\ MaxBookings \in Nat /\ Serial \in BOOLEAN

VARIABLES
    status,     \* the ride's: SCHEDULED, ONGOING, COMPLETED
    bookings,   \* per user its bookings of the ride, whatever their status
    reviews,    \* per user the reviews it wrote of the ride
    request     \* per request the user it is about to insert a review for

vars == <<status, bookings, reviews, request>>
Idle == {}

\* One type invariant: the counts are counts and a request has one user.
TypeOK ==
    /\ status \in {"SCHEDULED", "ONGOING", "COMPLETED"}
    /\ bookings \in [Users -> 0..MaxBookings]
    /\ reviews \in [Users -> 0..MaxReviews]
    /\ request \in [Requests -> {Idle} \cup {{u} : u \in Users}]

Init ==
    /\ status = "SCHEDULED"
    /\ bookings = [u \in Users |-> 0]
    /\ reviews = [u \in Users |-> 0]
    /\ request = [q \in Requests |-> Idle]

------------------------------------------------------------------------------
Books(u) ==
    /\ bookings[u] < MaxBookings
    /\ bookings' = [bookings EXCEPT ![u] = @ + 1]
    /\ UNCHANGED <<status, reviews, request>>
Moved(was) == IF was = "SCHEDULED" THEN "ONGOING" ELSE "COMPLETED"
RideMoves ==
    /\ status # "COMPLETED"
    /\ status' = Moved(status)
    /\ UNCHANGED <<bookings, reviews, request>>

(* validateTrip: a booking of the user, a ride that is over, no review of  *)
(* the user yet.                                                           *)
MayRate_OncePerBooking(u) == bookings[u] > 0 /\ status = "COMPLETED" /\ reviews[u] < bookings[u]
MayRate(u) == bookings[u] > 0 /\ status = "COMPLETED" /\ reviews[u] = 0

(* submitRating: the ride is read and validated, then the review inserted. *)
RateRead(q, u) ==
    /\ request[q] = Idle
    /\ Serial => \A other \in Requests : request[other] = Idle
    /\ MayRate(u)
    /\ request' = [request EXCEPT ![q] = {u}]
    /\ UNCHANGED <<status, bookings, reviews>>
RateCreate(q, u) ==
    /\ request[q] = {u}
    /\ reviews[u] < MaxReviews
    /\ reviews' = [reviews EXCEPT ![u] = @ + 1]
    /\ request' = [request EXCEPT ![q] = Idle]
    /\ UNCHANGED <<status, bookings>>

\* The insert fails, or the process stops.
Fail(q) ==
    /\ request[q] # Idle
    /\ request' = [request EXCEPT ![q] = Idle]
    /\ UNCHANGED <<status, bookings, reviews>>

Next ==
    \/ RideMoves
    \/ \E u \in Users : Books(u) \/ \E q \in Requests : RateRead(q, u) \/ RateCreate(q, u)
    \/ \E q \in Requests : Fail(q)

Spec == Init /\ [][Next]_vars

------------------------------------------------------------------------------
(* "Rating already submitted for this trip"                                *)
(* (RATING_ALREADY_SUBMITTED): a user reviews a ride once, with however    *)
(* many bookings and tries.                                                *)
OneReview == \A u \in Users : reviews[u] <= 1
==============================================================================
