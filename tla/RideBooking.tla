----------------------------- MODULE RideBooking -----------------------------
(***************************************************************************)
(* The seats of published rides: passengers book, cancel and queue for     *)
(* them, the driver answers bookings, starts the ride and picks passengers *)
(* up, and three cron jobs clean up behind them.  The state is what the    *)
(* database keeps (rows of Ride, Booking and WaitingList) and what each    *)
(* open HTTP request or cron tick holds in its local variables between two *)
(* awaits.  Every await of a handler ends a step: another handler may run  *)
(* there.  A statement, or a prisma.$transaction([...]) of several, is one *)
(* step of the database.                                                   *)
(***************************************************************************)
EXTENDS Integers, FiniteSets, Functions

CONSTANTS
    Rides,        \* rides the drivers have published
    Passengers,   \* users with the role PASSENGER
    BookingIds,   \* bound: the rows of Booking, numbered as they are created
    Requests,     \* bound: HTTP requests that can be open at the same time
    Capacity,     \* availableSeats a ride is published with
    SeatCounts,   \* numbers of seats a passenger asks for
    JoinTimes,    \* bound: distinct values of WaitingList.createdAt
    SeatBound,    \* bound: no cancellation starts that would exceed it
    DriverMoves,  \* <<from, to>>: the answers drivers give to bookings
    Serial        \* TRUE: a handler or tick starts only when none is open

RideStatus == {"SCHEDULED", "ONGOING", "COMPLETED", "CANCELLED"}
BookingStatus ==
    {"PENDING", "ACCEPTED", "REJECTED", "CANCELLED", "COMPLETED", "PICKEDUP"}
WaitingListStatus == {"WAITING", "NOTIFIED", "ACCEPTED", "CANCELLED"}

\* createTripShema and bookTripSchema both accept 1 to 6 seats.
MaxSeats == 6

ASSUME BookingIdsAssumption == IsFiniteSet(BookingIds) /\ BookingIds \subseteq Nat
ASSUME PassengersAssumption == IsFiniteSet(Passengers)
ASSUME CapacityAssumption == Capacity \in 1..MaxSeats
ASSUME SeatCountsAssumption == SeatCounts \subseteq 1..MaxSeats
ASSUME JoinTimesAssumption == JoinTimes \subseteq Nat
ASSUME DriverMovesAssumption == DriverMoves \subseteq BookingStatus \X BookingStatus
ASSUME SerialAssumption == Serial \in BOOLEAN

VARIABLES
    rideStatus,      \* Ride.status
    availableSeats,  \* Ride.availableSeats, an Int column with no constraint
    passed,          \* which of the ride's departureTime and endTime are past
    booking,         \* the rows of Booking, by id
    waitlist,        \* the rows of WaitingList of a ride, by passenger (unique)
    request,         \* what each open request remembers at its current await
    tick             \* what the running tick of the waitlist cron remembers

vars == <<rideStatus, availableSeats, passed, booking, waitlist, request, tick>>
database == <<rideStatus, availableSeats, passed, booking, waitlist>>

------------------------------------------------------------------------------
(* The rows, and the stages of the handlers.                               *)

BookingRow == [ride: Rides, passenger: Passengers, seats: SeatCounts,
               status: BookingStatus]

\* `onRoute` stands for what findNearestRoutePointIndex says of the entry's
\* pickup and dropoff: both found, dropoff after pickup.
WaitingListRow == [seats: SeatCounts, onRoute: BOOLEAN, createdAt: JoinTimes,
                   position: Nat, status: WaitingListStatus]

Idle == [at |-> "idle"]

RequestState ==
    {Idle}
    \* bookTrip: the ride is read; then the passenger's bookings are summed
    \cup [at: {"bookSeen", "bookChecked"}, ride: Rides, passenger: Passengers,
          seats: SeatCounts, seen: Int]
    \* cancelBooking, verifyPickupOtp: the booking is read and validated
    \cup [at: {"cancelSeen", "pickupSeen"}, booking: BookingIds]
    \* joinWaitlist: the ride, the passenger's entries and the count are read
    \cup [at: {"joinSeen"}, ride: Rides, passenger: Passengers,
          seats: SeatCounts, onRoute: BOOLEAN, count: Nat]
    \* startTrip: the ride is read and validated
    \cup [at: {"startSeen"}, ride: Rides]

\* `left` and `queue` are remainingSeats and the entries still in the snapshot
\* of each ride; `on` is the ride of the outer loop's current iteration.
TickState ==
    [at: {"idle", "cleaned", "promoting"}, left: [Rides -> Int],
     queue: [Rides -> SUBSET Passengers], on: SUBSET Rides]

IdleTick == [at |-> "idle", left |-> [r \in Rides |-> 0],
             queue |-> [r \in Rides |-> {}], on |-> {}]

\* The rows of a table, by key.
IsTable(rows, keys, row) ==
    DOMAIN rows \subseteq keys /\ rows \in [DOMAIN rows -> row]

\* One type invariant: every row and every handler's memory is of the shape
\* the schema and the code give it.
TypeOK ==
    /\ rideStatus \in [Rides -> RideStatus]
    /\ availableSeats \in [Rides -> Int]
    /\ passed \in [Rides -> SUBSET {"departureTime", "endTime"}]
    /\ IsTable(booking, BookingIds, BookingRow)
    /\ waitlist = [r \in Rides |-> waitlist[r]]
    /\ \A r \in Rides : IsTable(waitlist[r], Passengers, WaitingListRow)
    /\ request \in [Requests -> RequestState]
    /\ tick \in TickState

Init ==
    /\ rideStatus = [r \in Rides |-> "SCHEDULED"]
    /\ availableSeats = [r \in Rides |-> Capacity]
    /\ passed = [r \in Rides |-> {}]
    /\ booking = [b \in {} |-> [status |-> "PENDING"]]
    /\ waitlist = [r \in Rides |-> [p \in {} |-> [status |-> "WAITING"]]]
    /\ request = [q \in Requests |-> Idle]
    /\ tick = IdleTick

------------------------------------------------------------------------------
(* Common steps of the handlers.                                           *)

\* A row inserted, or rewritten, in a table.
Put(rows, key, row) ==
    [k \in DOMAIN rows \cup {key} |-> IF k = key THEN row ELSE rows[k]]

NewBooking_Upsert(b) == \A c \in BookingIds : c < b => c \in DOMAIN booking

\* Ids are uuids; a new row takes the first number that is free.
NewBooking(b) ==
    b \notin DOMAIN booking /\ \A c \in BookingIds : c < b => c \in DOMAIN booking

SetStatus(b, status) == booking' = [booking EXCEPT ![b].status = status]

Quiet == tick.at = "idle" /\ \A q \in Requests : request[q] = Idle

MayOpen == Serial => Quiet

\* The request reaches its first await with what it has read.
Opens(q, state) ==
    /\ request[q] = Idle
    /\ MayOpen
    /\ request' = [request EXCEPT ![q] = state]
    /\ UNCHANGED <<database, tick>>

Closes(q) == request' = [request EXCEPT ![q] = Idle]

\* The request is refused, fails or its process dies before its last write:
\* a handler's writes are one statement or one transaction, so nothing of it
\* is in the database.  Refusals depend on data this module leaves out as well
\* (locations, ownership, the OTP): any open request may end this way.
Fail(q) ==
    /\ request[q] # Idle
    /\ Closes(q)
    /\ UNCHANGED <<database, tick>>

------------------------------------------------------------------------------
(* bookTrip, trip.service.ts                                               *)

\* First await: the ride is read, whatever its status.
BookRead(q) ==
    \E r \in Rides, p \in Passengers, s \in SeatCounts :
        Opens(q, [at |-> "bookSeen", ride |-> r, passenger |-> p,
                  seats |-> s, seen |-> availableSeats[r]])

AlreadyBooked_Live(r, p) ==
    \E b \in DOMAIN booking :
        booking[b].ride = r /\ booking[b].passenger = p /\ booking[b].status # "CANCELLED"

\* "Already booked": the seats of all the passenger's bookings of the ride are
\* summed, cancelled ones included; every row has at least one seat.
AlreadyBooked(r, p) ==
    \E b \in DOMAIN booking : booking[b].ride = r /\ booking[b].passenger = p

EnoughSeats_AnySeat(ask) == ask.seen > 0

\* "Seat validation", against the row read at the first await.
EnoughSeats(ask) == ask.seen >= ask.seats

\* Second await: the aggregate is read, and the checks are made on both reads.
BookCheck(q) ==
    /\ request[q].at = "bookSeen"
    /\ ~AlreadyBooked(request[q].ride, request[q].passenger)
    /\ EnoughSeats(request[q])
    /\ request' = [request EXCEPT ![q].at = "bookChecked"]
    /\ UNCHANGED <<database, tick>>

SeatsAfterBooking_OnePerBooking(ask) == ask.seen - 1

\* The new value of the ride's column is computed from the row read first.
SeatsAfterBooking(ask) == ask.seen - ask.seats

\* Third await: the transaction of booking.create and ride.update.
BookCommit(q) ==
    LET ask == request[q] IN
    /\ ask.at = "bookChecked"
    /\ \E b \in BookingIds :
        /\ NewBooking(b)
        /\ booking' = Put(booking, b,
               [ride |-> ask.ride, passenger |-> ask.passenger,
                seats |-> ask.seats, status |-> "PENDING"])
    /\ availableSeats' = [availableSeats EXCEPT ![ask.ride] = SeatsAfterBooking(ask)]
    /\ Closes(q)
    /\ UNCHANGED <<rideStatus, passed, waitlist, tick>>

------------------------------------------------------------------------------
(* cancelBooking, booking.service.ts (passenger)                           *)

Cancellable_NotCompleted(b) == booking[b].status # "COMPLETED"

\* validateCancelBooking
Cancellable(b) == booking[b].status \notin {"COMPLETED", "CANCELLED"}

CancelRead(q) ==
    \E b \in DOMAIN booking :
        /\ Cancellable(b)
        /\ availableSeats[booking[b].ride] + booking[b].seats <= SeatBound
        /\ Opens(q, [at |-> "cancelSeen", booking |-> b])

SeatsReturned_One(b) == 1

\* The seats a cancellation returns to its ride.
SeatsReturned(b) == booking[b].seats

CancelCommit(q) ==
    LET b == request[q].booking IN
    /\ request[q].at = "cancelSeen"
    /\ SetStatus(b, "CANCELLED")
    /\ availableSeats' = [availableSeats EXCEPT ![booking[b].ride] = @ + SeatsReturned(b)]
    /\ Closes(q)
    /\ UNCHANGED <<rideStatus, passed, waitlist, tick>>

------------------------------------------------------------------------------
(* joinWaitlist, booking.service.ts (passenger)                            *)

Waiting(r) == {p \in DOMAIN waitlist[r] : waitlist[r][p].status = "WAITING"}

EntryCount_WaitingOnly(r) == Cardinality(Waiting(r))

\* _count of the ride's waitingLists, in whatever status.
EntryCount(r) == Cardinality(DOMAIN waitlist[r])

\* validateWaitlistEntry: no seat is free and the passenger has no entry; the
\* ride's status and the passenger's bookings are not looked at.
MayJoin(r, p) == availableSeats[r] <= 0 /\ p \notin DOMAIN waitlist[r]

JoinRead(q) ==
    \E r \in Rides, p \in Passengers, s \in SeatCounts, ok \in BOOLEAN :
        /\ MayJoin(r, p)
        /\ Opens(q, [at |-> "joinSeen", ride |-> r, passenger |-> p,
                     seats |-> s, onRoute |-> ok,
                     count |-> EntryCount(r)])

\* createdAt is now(): the first instant after those of the rows present.
IsNow(t, r) ==
    /\ \A p \in DOMAIN waitlist[r] : waitlist[r][p].createdAt < t
    /\ \A u \in JoinTimes :
           u < t => \E p \in DOMAIN waitlist[r] : u <= waitlist[r][p].createdAt

\* waitingList.create; @@unique([rideId, passengerId]) refuses a second row
\* of the same passenger, and that request ends in Fail.
JoinCommit(q) ==
    LET ask == request[q] IN
    /\ ask.at = "joinSeen"
    /\ ask.passenger \notin DOMAIN waitlist[ask.ride]
    /\ \E t \in JoinTimes :
        /\ IsNow(t, ask.ride)
        /\ waitlist' = [waitlist EXCEPT ![ask.ride] = Put(@, ask.passenger,
               [seats |-> ask.seats, onRoute |-> ask.onRoute, createdAt |-> t,
                position |-> ask.count + 1, status |-> "WAITING"])]
    /\ Closes(q)
    /\ UNCHANGED <<rideStatus, availableSeats, passed, booking, tick>>

------------------------------------------------------------------------------
(* The driver: updateBookingStatus, startTrip, verifyPickupOtp             *)

\* The read only checks whose ride it is, which never changes: the single
\* write is the step.  No status is refused and no seat is returned.
DriverUpdate ==
    /\ MayOpen
    /\ \E b \in DOMAIN booking :
           \E to \in BookingStatus \ {"PICKEDUP"} :
               /\ <<booking[b].status, to>> \in DriverMoves
               /\ SetStatus(b, to)
    /\ UNCHANGED <<rideStatus, availableSeats, passed, waitlist, request, tick>>

\* validateStartTrip
MayStart(r) == rideStatus[r] = "SCHEDULED" /\ "departureTime" \in passed[r]

StartRead(q) ==
    \E r \in Rides : MayStart(r) /\ Opens(q, [at |-> "startSeen", ride |-> r])

StartCommit_BookingStatus(q) ==
    /\ request[q].at = "startSeen"
    /\ rideStatus' = [rideStatus EXCEPT ![request[q].ride] = "PICKEDUP"]
    /\ Closes(q)
    /\ UNCHANGED <<availableSeats, passed, booking, waitlist, tick>>

StartCommit(q) ==
    /\ request[q].at = "startSeen"
    /\ rideStatus' = [rideStatus EXCEPT ![request[q].ride] = "ONGOING"]
    /\ Closes(q)
    /\ UNCHANGED <<availableSeats, passed, booking, waitlist, tick>>

\* validateVerifyOtp refuses a COMPLETED booking only; the ride's status is
\* not read.  Whether the OTP is right is left open: a wrong one is a Fail.
PickupRead(q) ==
    \E b \in DOMAIN booking :
        /\ booking[b].status # "COMPLETED"
        /\ <<booking[b].status, "PICKEDUP">> \in DriverMoves
        /\ Opens(q, [at |-> "pickupSeen", booking |-> b])

PickupCommit(q) ==
    /\ request[q].at = "pickupSeen"
    /\ SetStatus(request[q].booking, "PICKEDUP")
    /\ Closes(q)
    /\ UNCHANGED <<rideStatus, availableSeats, passed, waitlist, tick>>

------------------------------------------------------------------------------
(* startWaitlistCron, waitlist.cron.ts: one tick every ten minutes          *)

Departed_NotCompleted == {r \in Rides : rideStatus[r] \in {"ONGOING", "CANCELLED"}}

\* Rides whose waiting entries a tick deletes.
Departed == {r \in Rides : rideStatus[r] \in {"COMPLETED", "ONGOING", "CANCELLED"}}

TickClean ==
    /\ tick.at = "idle"
    /\ MayOpen
    /\ waitlist' = [r \in Rides |->
           IF r \in Departed
           THEN Restrict(waitlist[r], DOMAIN waitlist[r] \ Waiting(r))
           ELSE waitlist[r]]
    /\ tick' = [tick EXCEPT !.at = "cleaned"]
    /\ UNCHANGED <<rideStatus, availableSeats, passed, booking, request>>

TickRead_AllEntries ==
    /\ tick.at = "cleaned"
    /\ tick' = [at |-> "promoting", left |-> availableSeats, on |-> {},
                queue |-> [r \in Rides |->
                    IF rideStatus[r] = "SCHEDULED" /\ availableSeats[r] > 0
                    THEN DOMAIN waitlist[r] ELSE {}]]
    /\ UNCHANGED <<database, request>>

\* The findMany: scheduled rides with a free seat, and their waiting entries.
TickRead ==
    /\ tick.at = "cleaned"
    /\ tick' = [at |-> "promoting", left |-> availableSeats, on |-> {},
                queue |-> [r \in Rides |->
                    IF rideStatus[r] = "SCHEDULED" /\ availableSeats[r] > 0
                    THEN Waiting(r) ELSE {}]]
    /\ UNCHANGED <<database, request>>

\* The entries of the snapshot the loop would promote: those it skips do not
\* become promotable later in the tick, as remainingSeats only falls.  A row
\* of the snapshot keeps its seats, route and createdAt.
Promotable(r) ==
    {p \in tick.queue[r] : /\ waitlist[r][p].onRoute
                           /\ waitlist[r][p].seats <= tick.left[r]}

IsNext_AnyOrder(r, p) == p \in Promotable(r)

IsNext_HeadOfLine(r, p) ==
    /\ p \in Promotable(r)
    /\ \A o \in tick.queue[r] : waitlist[r][p].createdAt <= waitlist[r][o].createdAt

\* orderBy: { createdAt: "asc" }
IsNext(r, p) ==
    /\ p \in Promotable(r)
    /\ \A o \in Promotable(r) : waitlist[r][p].createdAt <= waitlist[r][o].createdAt

\* The iterations of the outer loop follow each other.
OuterLoopAt(r) == \A o \in tick.on \ {r} : Promotable(o) = {}

\* The transaction of one promotion, on the ride's current row.
TickPromote(r) ==
    /\ tick.at = "promoting"
    /\ OuterLoopAt(r)
    /\ \E p \in tick.queue[r], b \in BookingIds :
        /\ IsNext(r, p)
        /\ NewBooking(b)
        /\ booking' = Put(booking, b, [ride |-> r, passenger |-> p,
               seats |-> waitlist[r][p].seats, status |-> "ACCEPTED"])
        /\ waitlist' = [waitlist EXCEPT ![r][p].status = "ACCEPTED"]
        /\ availableSeats' = [availableSeats EXCEPT ![r] = @ - waitlist[r][p].seats]
        /\ tick' = [tick EXCEPT !.left[r] = @ - waitlist[r][p].seats,
                                !.queue[r] = @ \ {p}, !.on = {r}]
    /\ UNCHANGED <<rideStatus, passed, request>>

TickEnd ==
    /\ tick.at = "promoting"
    /\ \A r \in Rides : Promotable(r) = {}
    /\ tick' = IdleTick
    /\ UNCHANGED <<database, request>>

\* Any error ends the whole tick (the catch is outside both loops), and so
\* does a crash of the process.
TickAbort ==
    /\ tick.at # "idle"
    /\ tick' = IdleTick
    /\ UNCHANGED <<database, request>>

------------------------------------------------------------------------------
(* The other two crons, one updateMany each, and time.                      *)

Over_AnyTime(r) == rideStatus[r] = "ONGOING"

Over(r) == rideStatus[r] = "ONGOING" /\ "endTime" \in passed[r]

TripCron ==
    /\ MayOpen
    /\ \E r \in Rides : Over(r)
    /\ rideStatus' = [r \in Rides |-> IF Over(r) THEN "COMPLETED" ELSE rideStatus[r]]
    /\ UNCHANGED <<availableSeats, passed, booking, waitlist, request, tick>>

Unanswered_OfCancelledRide(b) ==
    booking[b].status = "PENDING" /\ rideStatus[booking[b].ride] = "CANCELLED"

\* A booking nobody answered before the end of its ride.
Unanswered(b) ==
    /\ booking[b].status = "PENDING"
    /\ rideStatus[booking[b].ride] \in {"COMPLETED", "CANCELLED"}

BookingCron ==
    /\ MayOpen
    /\ \E b \in DOMAIN booking : Unanswered(b)
    /\ booking' = [b \in DOMAIN booking |->
           IF Unanswered(b) THEN [booking[b] EXCEPT !.status = "CANCELLED"]
                            ELSE booking[b]]
    /\ UNCHANGED <<rideStatus, availableSeats, passed, waitlist, request, tick>>

\* createTrip compares endTime with departureTime nowhere: either may be first.
TimePasses(r) ==
    /\ \E t \in {"departureTime", "endTime"} \ passed[r] :
           passed' = [passed EXCEPT ![r] = @ \cup {t}]
    /\ UNCHANGED <<rideStatus, availableSeats, booking, waitlist, request, tick>>

------------------------------------------------------------------------------
HandlerStep(q) ==
    \/ BookCheck(q) \/ BookCommit(q) \/ CancelCommit(q) \/ JoinCommit(q)
    \/ StartCommit(q) \/ PickupCommit(q)

Next ==
    \/ \E q \in Requests :
        \/ BookRead(q) \/ BookCheck(q) \/ BookCommit(q)
        \/ CancelRead(q) \/ CancelCommit(q)
        \/ JoinRead(q) \/ JoinCommit(q)
        \/ StartRead(q) \/ StartCommit(q)
        \/ PickupRead(q) \/ PickupCommit(q)
        \/ Fail(q)
    \/ DriverUpdate
    \/ TickClean \/ TickRead \/ TickEnd \/ TickAbort
    \/ \E r \in Rides : TickPromote(r) \/ TimePasses(r)
    \/ TripCron \/ BookingCron

Spec == Init /\ [][Next]_vars

\* Node runs what is ready, so an open handler takes its next step or fails,
\* and node-cron fires every job again and again.  A tick may fail, but not at
\* the same statement at every tick for ever (SF).  Nothing makes a request
\* arrive or a driver act; time passes.
Fairness ==
    /\ \A q \in Requests : WF_vars(HandlerStep(q) \/ Fail(q))
    /\ WF_vars(TickClean) /\ SF_vars(TickRead) /\ WF_vars(TickEnd)
    /\ \A r \in Rides : SF_vars(TickPromote(r)) /\ WF_vars(TimePasses(r))
    /\ WF_vars(TripCron) /\ WF_vars(BookingCron)

FairSpec == Spec /\ Fairness

------------------------------------------------------------------------------
(* Properties: seats.                                                      *)

\* The seats taken from ride r: those of every booking but the cancelled ones
\* (a rejection returns none).  A set of <<booking, seat>> pairs is counted.
TakenSeats(r) ==
    {u \in (DOMAIN booking) \X (1..MaxSeats) :
        /\ booking[u[1]].ride = r
        /\ booking[u[1]].status # "CANCELLED"
        /\ u[2] <= booking[u[1]].seats}

HeldSeats(r) == Cardinality(TakenSeats(r))

\* Seat validation (trip.service.ts:237): the free seats of a ride are never
\* negative, and with the seats its bookings hold never exceed its capacity.
NeverOversold ==
    \A r \in Rides : availableSeats[r] >= 0 /\ availableSeats[r] + HeldSeats(r) <= Capacity

\* No seat leaks: until the ride is over, every seat is free or held by a
\* booking (bookTrip, cancelBooking and the promotion move each seat once).
SeatsConserved ==
    \A r \in Rides : rideStatus[r] # "COMPLETED" =>
        availableSeats[r] + HeldSeats(r) = Capacity

\* The handlers of one ride's seats implement the seat account: every step
\* takes free seats, gives held ones back, lets held ones lapse, or neither.
Account == INSTANCE SeatAccount
               WITH free <- availableSeats, held <- [r \in Rides |-> HeldSeats(r)]
ImplementsSeatAccount == Account!Spec

\* Already booked (trip.service.ts:232): a passenger never holds two live
\* bookings of one ride.
OneLiveBooking ==
    \A b, c \in DOMAIN booking :
        /\ b # c
        /\ booking[b].ride = booking[c].ride
        /\ booking[b].passenger = booking[c].passenger
        => "CANCELLED" \in {booking[b].status, booking[c].status}

\* Who has two bookings of one ride, cancelled ones included, got one of them
\* from the waitlist: nobody books the same ride twice directly.
SecondBookingFromWaitlist ==
    \A b, c \in DOMAIN booking :
        LET r == booking[b].ride
            p == booking[b].passenger
        IN  /\ b # c
            /\ booking[c].ride = r
            /\ booking[c].passenger = p
            => p \in DOMAIN waitlist[r] \ Waiting(r)

\* Booking is already cancelled (booking.validator.ts:19): the cancellation of
\* a passenger takes effect on a booking that still holds its seats.
CancelsOnce ==
    [][\A q \in Requests : CancelCommit(q) =>
          booking[request[q].booking].status # "CANCELLED"]_vars

------------------------------------------------------------------------------
(* Properties: the waitlist.                                               *)

\* An entry is promoted at most once, by the step that creates its booking:
\* a row born ACCEPTED takes a waiting entry of its passenger, of the same
\* number of seats, and leaves it ACCEPTED (ticks that abort included).
EachEntryPromotedOnce ==
    [][\A b \in DOMAIN booking' \ DOMAIN booking :
          booking'[b].status = "ACCEPTED" =>
              LET r == booking'[b].ride
                  p == booking'[b].passenger
              IN  /\ waitlist[r][p].status = "WAITING"
                  /\ waitlist[r][p].seats = booking'[b].seats
                  /\ waitlist'[r][p].status = "ACCEPTED"]_vars

\* No entry disappears once it is accepted, and its booking exists.
EntryHasBooking ==
    \A r \in Rides : \A p \in DOMAIN waitlist[r] :
        waitlist[r][p].status = "ACCEPTED" =>
            \E b \in DOMAIN booking :
                /\ booking[b].ride = r
                /\ booking[b].passenger = p
                /\ booking[b].seats = waitlist[r][p].seats

\* First come, first served, but for size: who is overtaken by an accepted
\* later entry, on the same route, asked for more seats than it.
OvertakenAskedMore ==
    \A r \in Rides : \A p \in Waiting(r), o \in DOMAIN waitlist[r] :
        /\ waitlist[r][p].onRoute
        /\ waitlist[r][o].status = "ACCEPTED"
        /\ waitlist[r][p].createdAt < waitlist[r][o].createdAt
        => waitlist[r][p].seats > waitlist[r][o].seats

\* WaitingList.position is the rank of the entry by createdAt while the ride
\* has not left (joinWaitlist writes count + 1 and nothing renumbers).
PositionIsRank ==
    \A r \in Rides : rideStatus[r] = "SCHEDULED" =>
        \A p \in DOMAIN waitlist[r] :
            waitlist[r][p].position =
                Cardinality({o \in DOMAIN waitlist[r] :
                    waitlist[r][o].createdAt <= waitlist[r][p].createdAt})

------------------------------------------------------------------------------
(* Properties: the life of a ride.                                         *)

\* A ride is under way only after its departure time and over only after its
\* end time, whichever requests and crons overlap.
StatusFollowsClock ==
    \A r \in Rides :
        /\ rideStatus[r] \in {"ONGOING", "COMPLETED"} => "departureTime" \in passed[r]
        /\ rideStatus[r] = "COMPLETED" => "endTime" \in passed[r]

\* Trip is not scheduled (trip.validator.ts:36): a ride is started once, from
\* SCHEDULED, and a ride that is over stays over.
StartsOnce ==
    [][\A r \in Rides : rideStatus'[r] # rideStatus[r] =>
          <<rideStatus[r], rideStatus'[r]>> \in
              {<<"SCHEDULED", "ONGOING">>, <<"ONGOING", "COMPLETED">>}]_vars

\* What is done is not done again: a ride is started once and a booking
\* cancelled once by its passenger, by handlers that do not overlap.
HandledOnce == StartsOnce /\ CancelsOnce

------------------------------------------------------------------------------
(* Properties: what must eventually happen.                                *)

\* trip.cron: a ride under way whose end has passed is eventually not under way.
RidesEnd ==
    \A r \in Rides :
        (rideStatus[r] = "ONGOING" /\ "endTime" \in passed[r]) ~> rideStatus[r] = "COMPLETED"

LeftPending(b) ==
    /\ b \in DOMAIN booking
    /\ booking[b].status = "PENDING"
    /\ rideStatus[booking[b].ride] = "COMPLETED"

\* booking.cron: no booking of a finished ride stays unanswered.
NoBookingLeftPending == \A b \in BookingIds : LeftPending(b) ~> ~LeftPending(b)

\* The two crons between them close every ride: it ends, and then none of its
\* bookings stays unanswered.
CronsCloseRides == RidesEnd /\ NoBookingLeftPending

\* waitlist.cron: a waiting entry of a ride that left is eventually deleted.
LeftoversDeleted ==
    \A r \in Rides, p \in Passengers :
        (rideStatus[r] # "SCHEDULED" /\ p \in Waiting(r)) ~> (p \notin Waiting(r))

Fits(r, p) ==
    /\ rideStatus[r] = "SCHEDULED"
    /\ p \in Waiting(r)
    /\ waitlist[r][p].onRoute
    /\ waitlist[r][p].seats <= availableSeats[r]

\* waitlist.cron: an entry does not wait for ever beside seats that fit it,
\* whatever entries of other sizes or routes are ahead of it.
FittingEntryServed ==
    \A r \in Rides, p \in Passengers : Fits(r, p) ~> ~Fits(r, p)
==============================================================================
