-------------------------- MODULE RideBookingProofs --------------------------
(***************************************************************************)
(* Theorems about RideBooking, for every value of its constants.           *)
(***************************************************************************)
EXTENDS RideBooking, FiniteSetTheorems, TLAPS

\* A row inserted in a table, or written over one of its rows, leaves a table.
LEMMA PutTable ==
    ASSUME NEW rows, NEW keys, NEW row,
           IsTable(rows, keys, row), NEW k \in keys, NEW v \in row
    PROVE  IsTable(Put(rows, k, v), keys, row)
BY DEF IsTable, Put

\* Deleting rows from a table leaves a table.
LEMMA RestrictTable ==
    ASSUME NEW rows, NEW keys, NEW row, IsTable(rows, keys, row), NEW S \in SUBSET DOMAIN rows
    PROVE  IsTable(Restrict(rows, S), keys, row)
BY DEF IsTable, Restrict

\* Changing the status of a booking leaves a table of bookings.
LEMMA SetStatusTable ==
    ASSUME IsTable(booking, BookingIds, BookingRow),
           NEW b \in DOMAIN booking, NEW s \in BookingStatus, SetStatus(b, s)
    PROVE  IsTable(booking', BookingIds, BookingRow)
<1>1. booking[b] \in BookingRow
    BY DEF IsTable
<1>2. [booking[b] EXCEPT !.status = s] \in BookingRow
    BY <1>1 DEF BookingRow
<1>3. booking' = [booking EXCEPT ![b] = [@ EXCEPT !.status = s]]
    BY DEF SetStatus
<1> QED BY <1>2, <1>3 DEF IsTable

\* What open requests and the tick remember is still in the database: the
\* booking a request has read, and the waiting entries of the tick's snapshot.
Remembered ==
    /\ \A q \in Requests :
           request[q].at \in {"cancelSeen", "pickupSeen"} =>
               request[q].booking \in DOMAIN booking
    /\ tick.at = "promoting" => \A r \in Rides : tick.queue[r] \subseteq Waiting(r)

\* The initial rows and handlers are of their types.
LEMMA InitType == Init => TypeOK
BY SMT, CapacityAssumption
   DEF Init, TypeOK, IsTable, RideStatus, RequestState, Idle, IdleTick, TickState, MaxSeats

\* A request that opens with a well-formed memory keeps the type invariant.
LEMMA OpensType ==
    ASSUME TypeOK, NEW q \in Requests, NEW state \in RequestState, Opens(q, state)
    PROVE  TypeOK'
BY DEF Opens, TypeOK, database, IsTable

\* A request that closes leaves every request well-formed.
LEMMA ClosesType ==
    ASSUME TypeOK, NEW q \in Requests, Closes(q)
    PROVE  request' \in [Requests -> RequestState]
BY DEF Closes, TypeOK, RequestState

\* The type invariant, one step per action of Next.
LEMMA TypeStep == TypeOK /\ Remembered /\ [Next]_vars => TypeOK'
<1> SUFFICES ASSUME TypeOK, Remembered, [Next]_vars PROVE TypeOK'
    OBVIOUS
<1> USE DEF TypeOK
<1>1. ASSUME NEW q \in Requests, BookRead(q) PROVE TypeOK'
    <2> PICK r \in Rides, p \in Passengers, s \in SeatCounts :
            Opens(q, [at |-> "bookSeen", ride |-> r, passenger |-> p,
                      seats |-> s, seen |-> availableSeats[r]])
        BY <1>1 DEF BookRead
    <2> QED BY OpensType DEF RequestState
<1>2. ASSUME NEW q \in Requests, BookCheck(q) PROVE TypeOK'
    BY <1>2 DEF BookCheck, RequestState, Idle, database, IsTable
<1>3. ASSUME NEW q \in Requests, BookCommit(q) PROVE TypeOK'
    <2>1. request[q] \in [at: {"bookSeen", "bookChecked"}, ride: Rides,
                          passenger: Passengers, seats: SeatCounts, seen: Int]
        BY <1>3 DEF BookCommit, RequestState, Idle
    <2> DEFINE row == [ride |-> request[q].ride, passenger |-> request[q].passenger,
                       seats |-> request[q].seats, status |-> "PENDING"]
    <2>2. row \in BookingRow
        BY <2>1 DEF BookingRow, BookingStatus
    <2>3. PICK b \in BookingIds : booking' = Put(booking, b, row)
        BY <1>3 DEF BookCommit
    <2>4. IsTable(booking', BookingIds, BookingRow)
        <3> HIDE DEF row
        <3>1. IsTable(Put(booking, b, row), BookingIds, BookingRow)
            BY <2>2, PutTable
        <3> QED BY <2>3, <3>1
    <2>5. availableSeats' \in [Rides -> Int]
        BY <1>3, <2>1, SeatCountsAssumption
           DEF BookCommit, SeatsAfterBooking, MaxSeats
    <2> QED BY <1>3, <2>4, <2>5, ClosesType DEF BookCommit, IsTable
<1>4. ASSUME NEW q \in Requests, CancelRead(q) PROVE TypeOK'
    <2> PICK b \in DOMAIN booking : Opens(q, [at |-> "cancelSeen", booking |-> b])
        BY <1>4 DEF CancelRead
    <2> QED BY OpensType DEF RequestState, IsTable
<1>5. ASSUME NEW q \in Requests, CancelCommit(q) PROVE TypeOK'
    <2> request[q].booking \in DOMAIN booking
        BY <1>5 DEF CancelCommit, Remembered
    <2>1. IsTable(booking', BookingIds, BookingRow)
        BY <1>5, SetStatusTable DEF CancelCommit, BookingStatus
    <2>2. availableSeats' \in [Rides -> Int]
        BY <1>5, SeatCountsAssumption
           DEF CancelCommit, SeatsReturned, IsTable, BookingRow, MaxSeats
    <2> QED BY <1>5, <2>1, <2>2, ClosesType DEF CancelCommit, IsTable
<1>6. ASSUME NEW q \in Requests, JoinRead(q) PROVE TypeOK'
    <2> PICK r \in Rides, p \in Passengers, s \in SeatCounts, ok \in BOOLEAN :
            Opens(q, [at |-> "joinSeen", ride |-> r, passenger |-> p, seats |-> s,
                      onRoute |-> ok, count |-> EntryCount(r)])
        BY <1>6 DEF JoinRead
    <2>1. EntryCount(r) \in Nat
        BY PassengersAssumption, FS_Subset, FS_CardinalityType DEF EntryCount, IsTable
    <2> QED BY <2>1, OpensType DEF RequestState
<1>7. ASSUME NEW q \in Requests, JoinCommit(q) PROVE TypeOK'
    <2>1. request[q] \in [at: {"joinSeen"}, ride: Rides, passenger: Passengers,
                          seats: SeatCounts, onRoute: BOOLEAN, count: Nat]
        BY <1>7 DEF JoinCommit, RequestState, Idle
    <2> DEFINE r == request[q].ride
               p == request[q].passenger
               row(t) == [seats |-> request[q].seats, onRoute |-> request[q].onRoute,
                          createdAt |-> t, position |-> request[q].count + 1,
                          status |-> "WAITING"]
    <2>2. PICK t \in JoinTimes :
              waitlist' = [waitlist EXCEPT ![r] = Put(@, p, row(t))]
        BY <1>7 DEF JoinCommit
    <2>3. row(t) \in WaitingListRow
        BY <2>1 DEF WaitingListRow, WaitingListStatus
    <2>4. waitlist' = [x \in Rides |-> IF x = r THEN Put(waitlist[r], p, row(t))
                                               ELSE waitlist[x]]
        BY <2>2
    <2>5. IsTable(Put(waitlist[r], p, row(t)), Passengers, WaitingListRow)
        <3> HIDE DEF row
        <3> r \in Rides /\ p \in Passengers
            BY <2>1
        <3> HIDE DEF r, p
        <3> QED BY <2>3, PutTable
    <2>6. /\ waitlist' = [x \in Rides |-> waitlist'[x]]
          /\ \A x \in Rides : IsTable(waitlist'[x], Passengers, WaitingListRow)
        BY <2>4, <2>5
    <2> QED BY <1>7, <2>6, ClosesType DEF JoinCommit, IsTable
<1>8. ASSUME NEW q \in Requests, StartRead(q) PROVE TypeOK'
    BY <1>8, OpensType DEF StartRead, RequestState
<1>9. ASSUME NEW q \in Requests, StartCommit(q) PROVE TypeOK'
    BY <1>9, ClosesType DEF StartCommit, RideStatus, IsTable
<1>10. ASSUME NEW q \in Requests, PickupRead(q) PROVE TypeOK'
    <2> PICK b \in DOMAIN booking : Opens(q, [at |-> "pickupSeen", booking |-> b])
        BY <1>10 DEF PickupRead
    <2> QED BY OpensType DEF RequestState, IsTable
<1>11. ASSUME NEW q \in Requests, PickupCommit(q) PROVE TypeOK'
    <2>1. IsTable(booking', BookingIds, BookingRow)
        BY <1>11, SetStatusTable DEF PickupCommit, Remembered, BookingStatus
    <2> QED BY <1>11, <2>1, ClosesType DEF PickupCommit, IsTable
<1>12. ASSUME NEW q \in Requests, Fail(q) PROVE TypeOK'
    BY <1>12, ClosesType DEF Fail, database, IsTable
<1>13. CASE DriverUpdate
    BY <1>13 DEF DriverUpdate, SetStatus, BookingRow, BookingStatus, IsTable
<1>14. CASE TickClean
    <2>1. \A r \in Rides : waitlist'[r] = waitlist[r]
              \/ waitlist'[r] = Restrict(waitlist[r], DOMAIN waitlist[r] \ Waiting(r))
        BY <1>14 DEF TickClean
    <2>2. \A r \in Rides : IsTable(waitlist'[r], Passengers, WaitingListRow)
        <3> TAKE r \in Rides
        <3>1. IsTable(Restrict(waitlist[r], DOMAIN waitlist[r] \ Waiting(r)),
                      Passengers, WaitingListRow)
            BY RestrictTable
        <3> QED BY <2>1, <3>1
    <2>3. waitlist' = [r \in Rides |-> waitlist'[r]]
        BY <1>14 DEF TickClean
    <2> QED BY <1>14, <2>2, <2>3 DEF TickClean, TickState, IsTable
<1>15. CASE TickRead
    BY <1>15 DEF TickRead, TickState, Waiting, database, IsTable
<1>16. ASSUME NEW r \in Rides, TickPromote(r) PROVE TypeOK'
    <2> DEFINE row(p) == [ride |-> r, passenger |-> p, seats |-> waitlist[r][p].seats,
                          status |-> "ACCEPTED"]
    <2>1. PICK p \in tick.queue[r], b \in BookingIds :
              /\ IsNext(r, p)
              /\ booking' = Put(booking, b, row(p))
              /\ waitlist' = [waitlist EXCEPT ![r][p].status = "ACCEPTED"]
              /\ availableSeats' = [availableSeats EXCEPT ![r] = @ - waitlist[r][p].seats]
              /\ tick' = [tick EXCEPT !.left[r] = @ - waitlist[r][p].seats,
                                      !.queue[r] = @ \ {p}, !.on = {r}]
        BY <1>16 DEF TickPromote
    <2>2. p \in DOMAIN waitlist[r]
        BY <1>16, <2>1 DEF TickPromote, Remembered, Waiting
    <2>3. /\ waitlist[r][p] \in WaitingListRow
          /\ p \in Passengers
          /\ waitlist[r][p].seats \in SeatCounts /\ waitlist[r][p].seats \in Int
        BY <2>2, SeatCountsAssumption DEF IsTable, WaitingListRow, MaxSeats
    <2>4. IsTable(booking', BookingIds, BookingRow)
        <3>1. row(p) \in BookingRow
            BY <2>3 DEF BookingRow, BookingStatus
        <3> HIDE DEF row
        <3>2. IsTable(Put(booking, b, row(p)), BookingIds, BookingRow)
            BY <3>1, PutTable
        <3> QED BY <2>1, <3>2
    <2>5. \A x \in Rides : IsTable(waitlist'[x], Passengers, WaitingListRow)
        <3>1. [waitlist[r][p] EXCEPT !.status = "ACCEPTED"] \in WaitingListRow
            BY <2>3 DEF WaitingListRow, WaitingListStatus
        <3>2. waitlist'[r] = [waitlist[r] EXCEPT ![p] = [@ EXCEPT !.status = "ACCEPTED"]]
            BY <2>1
        <3>3. \A x \in Rides \ {r} : waitlist'[x] = waitlist[x]
            BY <2>1
        <3> QED BY <3>1, <3>2, <3>3 DEF IsTable
    <2>6. waitlist' = [x \in Rides |-> waitlist'[x]]
        BY <2>1
    <2>7. availableSeats' \in [Rides -> Int]
        BY <2>1, <2>3
    <2>8. tick' \in TickState
        <3>1. /\ tick'.left = [tick.left EXCEPT ![r] = @ - waitlist[r][p].seats]
              /\ tick'.queue = [tick.queue EXCEPT ![r] = @ \ {p}]
              /\ tick' = [at |-> tick.at, left |-> tick'.left, queue |-> tick'.queue,
                          on |-> {r}]
            BY <2>1 DEF TickState
        <3>2. tick'.left \in [Rides -> Int]
            BY <2>3, <3>1 DEF TickState
        <3>3. tick'.queue \in [Rides -> SUBSET Passengers]
            BY <3>1 DEF TickState
        <3> QED BY <3>1, <3>2, <3>3 DEF TickState
    <2> QED BY <1>16, <2>4, <2>5, <2>6, <2>7, <2>8 DEF TickPromote, IsTable
<1>17. CASE TickEnd \/ TickAbort
    BY <1>17 DEF TickEnd, TickAbort, IdleTick, TickState, database, IsTable
<1>18. ASSUME NEW r \in Rides, TimePasses(r) PROVE TypeOK'
    BY <1>18 DEF TimePasses, IsTable
<1>19. CASE TripCron
    BY <1>19 DEF TripCron, RideStatus, IsTable
<1>20. CASE BookingCron
    BY <1>20 DEF BookingCron, BookingRow, BookingStatus, IsTable
<1>21. CASE UNCHANGED vars
    BY <1>21 DEF vars, IsTable
<1> QED
    BY <1>1, <1>2, <1>3, <1>4, <1>5, <1>6, <1>7, <1>8, <1>9, <1>10, <1>11, <1>12,
       <1>13, <1>14, <1>15, <1>16, <1>17, <1>18, <1>19, <1>20, <1>21 DEF Next

\* Rows of Booking are never deleted, and the entries of a snapshot leave
\* WAITING only by the promotion that takes them out of it.
LEMMA RememberedStep == TypeOK /\ Remembered /\ [Next]_vars => Remembered'
<1> SUFFICES ASSUME TypeOK, Remembered, [Next]_vars PROVE Remembered'
    OBVIOUS
<1> USE DEF Remembered
<1>1. ASSUME NEW q \in Requests,
             \/ BookRead(q) \/ CancelRead(q) \/ JoinRead(q) \/ StartRead(q) \/ PickupRead(q)
      PROVE  Remembered'
    <2>1. PICK state : /\ Opens(q, state)
                       /\ state.at \in {"cancelSeen", "pickupSeen"} =>
                              state.booking \in DOMAIN booking
        <3>1. CASE BookRead(q)
            BY <3>1 DEF BookRead
        <3>2. CASE CancelRead(q)
            BY <3>2 DEF CancelRead
        <3>3. CASE JoinRead(q)
            BY <3>3 DEF JoinRead
        <3>4. CASE StartRead(q)
            BY <3>4 DEF StartRead
        <3>5. CASE PickupRead(q)
            BY <3>5 DEF PickupRead
        <3> QED BY <1>1, <3>1, <3>2, <3>3, <3>4, <3>5
    <2>2. /\ \A x \in Requests \ {q} : request'[x] = request[x]
          /\ request'[q] = state
        BY <2>1 DEF Opens, TypeOK
    <2>3. UNCHANGED <<booking, waitlist, tick>>
        BY <2>1 DEF Opens, database
    <2> QED BY <2>1, <2>2, <2>3 DEF Waiting
<1>2. ASSUME NEW q \in Requests,
             BookCheck(q) \/ StartCommit(q) \/ Fail(q)
      PROVE  Remembered'
    <2>1. /\ \A x \in Requests \ {q} : request'[x] = request[x]
          /\ request'[q].at \in {"idle", "bookChecked"}
        BY <1>2 DEF BookCheck, StartCommit, Fail, Closes, Idle, TypeOK, RequestState
    <2>2. UNCHANGED <<booking, waitlist, tick>>
        BY <1>2 DEF BookCheck, StartCommit, Fail, database
    <2> QED BY <2>1, <2>2 DEF Waiting
<1>3. ASSUME NEW q \in Requests, BookCommit(q) PROVE Remembered'
    <2>1. /\ \A x \in Requests \ {q} : request'[x] = request[x]
          /\ request'[q].at = "idle"
        BY <1>3 DEF BookCommit, Closes, Idle, TypeOK
    <2>2. DOMAIN booking \subseteq DOMAIN booking' /\ UNCHANGED <<waitlist, tick>>
        BY <1>3 DEF BookCommit, Put
    <2> QED BY <2>1, <2>2 DEF Waiting
<1>4. ASSUME NEW q \in Requests, CancelCommit(q) \/ PickupCommit(q) PROVE Remembered'
    <2>1. /\ \A x \in Requests \ {q} : request'[x] = request[x]
          /\ request'[q].at = "idle"
        BY <1>4 DEF CancelCommit, PickupCommit, Closes, Idle, TypeOK
    <2>2. DOMAIN booking' = DOMAIN booking /\ UNCHANGED <<waitlist, tick>>
        BY <1>4 DEF CancelCommit, PickupCommit, SetStatus
    <2> QED BY <2>1, <2>2 DEF Waiting
<1>5. ASSUME NEW q \in Requests, JoinCommit(q) PROVE Remembered'
    <2>1. /\ \A x \in Requests \ {q} : request'[x] = request[x]
          /\ request'[q].at = "idle"
        BY <1>5 DEF JoinCommit, Closes, Idle, TypeOK
    <2>2. PICK t \in JoinTimes :
              LET ask == request[q]
              IN  waitlist' = [waitlist EXCEPT ![ask.ride] = Put(@, ask.passenger,
                    [seats |-> ask.seats, onRoute |-> ask.onRoute, createdAt |-> t,
                     position |-> ask.count + 1, status |-> "WAITING"])]
        BY <1>5 DEF JoinCommit
    <2>3. \A r \in Rides : Waiting(r) \subseteq Waiting(r)'
        BY <2>2 DEF Waiting, Put, TypeOK
    <2>4. UNCHANGED <<booking, tick>>
        BY <1>5 DEF JoinCommit
    <2> QED BY <2>1, <2>3, <2>4
<1>6. CASE DriverUpdate \/ TripCron \/ BookingCron
    BY <1>6 DEF DriverUpdate, SetStatus, TripCron, BookingCron, Waiting
<1>7. CASE TickClean \/ TickEnd \/ TickAbort
    BY <1>7 DEF TickClean, TickEnd, TickAbort, IdleTick, database, TypeOK, TickState
<1>8. CASE TickRead
    BY <1>8 DEF TickRead, Waiting, database
<1>9. ASSUME NEW r \in Rides, TickPromote(r) PROVE Remembered'
    <2>1. PICK p \in tick.queue[r] :
              /\ waitlist' = [waitlist EXCEPT ![r][p].status = "ACCEPTED"]
              /\ tick' = [tick EXCEPT !.left[r] = @ - waitlist[r][p].seats,
                                      !.queue[r] = @ \ {p}, !.on = {r}]
        BY <1>9 DEF TickPromote
    <2>2. \A x \in Rides : tick'.queue[x] = IF x = r THEN tick.queue[r] \ {p}
                                                     ELSE tick.queue[x]
        BY <2>1 DEF TypeOK, TickState
    <2>3. \A x \in Rides : \A o \in Waiting(x) : x # r \/ o # p => o \in Waiting(x)'
        BY <2>1 DEF Waiting, TypeOK
    <2>4. DOMAIN booking \subseteq DOMAIN booking' /\ UNCHANGED request
        BY <1>9 DEF TickPromote, Put
    <2>5. tick.at = "promoting"
        BY <1>9 DEF TickPromote
    <2> QED BY <2>2, <2>3, <2>4, <2>5
<1>10. ASSUME NEW r \in Rides, TimePasses(r) PROVE Remembered'
    BY <1>10 DEF TimePasses, Waiting
<1>11. CASE UNCHANGED vars
    BY <1>11 DEF vars, Waiting
<1> QED
    BY <1>1, <1>2, <1>3, <1>4, <1>5, <1>6, <1>7, <1>8, <1>9, <1>10, <1>11 DEF Next

\* Every row and every handler's memory keeps its shape, for any number of
\* rides, passengers and overlapping requests.
THEOREM TypeCorrect == Spec => [](TypeOK /\ Remembered)
<1>1. Init => Remembered
    BY DEF Init, Remembered, Idle, IdleTick
<1>2. TypeOK /\ Remembered /\ [Next]_vars => (TypeOK /\ Remembered)'
    BY TypeStep, RememberedStep
<1> QED
    BY InitType, <1>1, <1>2, PTL DEF Spec

------------------------------------------------------------------------------
(* The clock, whatever overlaps.                                           *)

\* A start that was found due stays due: times that are past stay past.
StartsAreDue ==
    \A q \in Requests :
        request[q].at = "startSeen" => "departureTime" \in passed[request[q].ride]

ClockInv == TypeOK /\ Remembered /\ StatusFollowsClock /\ StartsAreDue

\* Only a start and the trip cron write a ride's status.
LEMMA RideStatusKept ==
    ASSUME [Next]_vars
    PROVE  \/ UNCHANGED rideStatus \/ TripCron \/ \E q \in Requests : StartCommit(q)
BY DEF Next, vars, database, BookRead, BookCheck, BookCommit, CancelRead, CancelCommit,
       JoinRead, JoinCommit, StartRead, PickupRead, PickupCommit, Opens, Fail,
       DriverUpdate, TickClean, TickRead, TickEnd, TickAbort, TickPromote,
       TimePasses, BookingCron

\* Nothing that is past becomes due again.
LEMMA PastStaysPast ==
    ASSUME TypeOK, [Next]_vars
    PROVE  \A r \in Rides : passed[r] \subseteq passed'[r]
<1>1. CASE UNCHANGED passed
    BY <1>1
<1>2. ASSUME NEW r \in Rides, TimePasses(r)
      PROVE  \A x \in Rides : passed[x] \subseteq passed'[x]
    <2>1. PICK t : passed' = [passed EXCEPT ![r] = @ \cup {t}]
        BY <1>2 DEF TimePasses
    <2> QED BY <2>1 DEF TypeOK
<1>3. UNCHANGED passed \/ \E r \in Rides : TimePasses(r)
    BY DEF Next, vars, database, BookRead, BookCheck, BookCommit, CancelRead, CancelCommit,
           JoinRead, JoinCommit, StartRead, StartCommit, PickupRead, PickupCommit, Opens,
           Fail, DriverUpdate, TickClean, TickRead, TickEnd, TickAbort, TickPromote,
           TripCron, BookingCron
<1> QED BY <1>1, <1>2, <1>3

\* A request is about to start a ride only if it already was, or has just read
\* that the departure time is past.
LEMMA StartsSeen ==
    ASSUME TypeOK, [Next]_vars
    PROVE  \A q \in Requests : request'[q].at = "startSeen" =>
               \/ request'[q] = request[q]
               \/ \E r \in Rides : request'[q] = [at |-> "startSeen", ride |-> r] /\ MayStart(r)
<1> DEFINE Seen(q) == \/ request'[q] = request[q]
                      \/ \E r \in Rides : /\ request'[q] = [at |-> "startSeen", ride |-> r]
                                          /\ MayStart(r)
                      \/ request'[q].at # "startSeen"
<1> SUFFICES \A q \in Requests : Seen(q)
    OBVIOUS
<1>1. CASE UNCHANGED request
    BY <1>1
<1>2. ASSUME NEW o \in Requests,
             BookRead(o) \/ CancelRead(o) \/ JoinRead(o) \/ PickupRead(o)
      PROVE  \A q \in Requests : Seen(q)
    <2>1. PICK state : Opens(o, state) /\ state.at # "startSeen"
        <3>1. CASE BookRead(o)
            BY <3>1 DEF BookRead
        <3>2. CASE CancelRead(o)
            BY <3>2 DEF CancelRead
        <3>3. CASE JoinRead(o)
            BY <3>3 DEF JoinRead
        <3>4. CASE PickupRead(o)
            BY <3>4 DEF PickupRead
        <3> QED BY <1>2, <3>1, <3>2, <3>3, <3>4
    <2> QED BY <2>1 DEF Opens, TypeOK
<1>3. ASSUME NEW o \in Requests, StartRead(o)
      PROVE  \A q \in Requests : Seen(q)
    <2>1. PICK r \in Rides : MayStart(r) /\ Opens(o, [at |-> "startSeen", ride |-> r])
        BY <1>3 DEF StartRead
    <2> QED BY <2>1 DEF Opens, TypeOK
<1>4. ASSUME NEW o \in Requests,
             \/ BookCheck(o) \/ BookCommit(o) \/ CancelCommit(o) \/ JoinCommit(o)
             \/ StartCommit(o) \/ PickupCommit(o) \/ Fail(o)
      PROVE  \A q \in Requests : Seen(q)
    <2>1. /\ \A q \in Requests \ {o} : request'[q] = request[q]
          /\ request'[o].at \in {"idle", "bookChecked"}
        BY <1>4 DEF BookCheck, BookCommit, CancelCommit, JoinCommit, StartCommit,
                    PickupCommit, Fail, Closes, Idle, TypeOK, RequestState
    <2> QED BY <2>1
<1>5. \/ UNCHANGED request
      \/ \E o \in Requests :
            \/ BookRead(o) \/ CancelRead(o) \/ JoinRead(o) \/ PickupRead(o) \/ StartRead(o)
            \/ BookCheck(o) \/ BookCommit(o) \/ CancelCommit(o) \/ JoinCommit(o)
            \/ StartCommit(o) \/ PickupCommit(o) \/ Fail(o)
    BY DEF Next, vars, DriverUpdate, TickClean, TickRead, TickEnd, TickAbort, TickPromote,
           TimePasses, TripCron, BookingCron
<1> QED BY <1>1, <1>2, <1>3, <1>4, <1>5

\* A ride is under way only after its departure time and over only after its
\* end time, for any requests and crons that overlap.
THEOREM RidesFollowTheClock == Spec => []StatusFollowsClock
<1>1. Init => ClockInv
    BY InitType DEF Init, ClockInv, Remembered, Idle, IdleTick, StatusFollowsClock, StartsAreDue
<1>2. ClockInv /\ [Next]_vars => ClockInv'
    <2> SUFFICES ASSUME ClockInv, [Next]_vars PROVE ClockInv'
        OBVIOUS
    <2>1. TypeOK /\ TypeOK' /\ Remembered'
        BY TypeStep, RememberedStep DEF ClockInv
    <2>2. \A r \in Rides : passed[r] \subseteq passed'[r]
        BY <2>1, PastStaysPast
    <2>3. StartsAreDue'
        <3> SUFFICES ASSUME NEW q \in Requests, request'[q].at = "startSeen"
                     PROVE  "departureTime" \in passed'[request'[q].ride]
            BY DEF StartsAreDue
        <3>1. CASE request'[q] = request[q]
            <4>1. request[q].ride \in Rides
                BY <2>1, <3>1 DEF TypeOK, RequestState, Idle
            <4> QED BY <2>2, <3>1, <4>1 DEF ClockInv, StartsAreDue
        <3>2. CASE \E r \in Rides : request'[q] = [at |-> "startSeen", ride |-> r] /\ MayStart(r)
            BY <2>2, <3>2 DEF MayStart
        <3> QED BY <2>1, <3>1, <3>2, StartsSeen
    <2>4. StatusFollowsClock'
        <3>1. CASE UNCHANGED rideStatus
            BY <2>2, <3>1 DEF ClockInv, StatusFollowsClock
        <3>2. CASE TripCron
            BY <2>1, <2>2, <3>2 DEF TripCron, Over, ClockInv, StatusFollowsClock
        <3>3. ASSUME NEW q \in Requests, StartCommit(q) PROVE StatusFollowsClock'
            <4>1. /\ "departureTime" \in passed[request[q].ride]
                  /\ rideStatus' = [rideStatus EXCEPT ![request[q].ride] = "ONGOING"]
                BY <3>3 DEF StartCommit, ClockInv, StartsAreDue
            <4> QED BY <2>1, <2>2, <4>1 DEF ClockInv, StatusFollowsClock, TypeOK
        <3> QED BY <3>1, <3>2, <3>3, RideStatusKept
    <2> QED BY <2>1, <2>3, <2>4 DEF ClockInv
<1>3. ClockInv => StatusFollowsClock
    BY DEF ClockInv
<1> QED
    BY <1>1, <1>2, <1>3, PTL DEF Spec

------------------------------------------------------------------------------
(* The waitlist, whatever overlaps.                                        *)

\* The steps that touch the waitlist or the tick.
LEMMA WaitlistSteps ==
    ASSUME [Next]_vars
    PROVE  \/ UNCHANGED <<waitlist, tick>>
           \/ \E q \in Requests : JoinCommit(q)
           \/ TickClean \/ TickRead \/ TickEnd \/ TickAbort
           \/ \E r \in Rides : TickPromote(r)
<1>1. ASSUME NEW q \in Requests,
             \/ BookRead(q) \/ BookCheck(q) \/ CancelRead(q) \/ JoinRead(q)
             \/ StartRead(q) \/ PickupRead(q) \/ Fail(q)
      PROVE  UNCHANGED <<waitlist, tick>>
    BY <1>1 DEF BookRead, BookCheck, CancelRead, JoinRead, StartRead, PickupRead,
                Fail, Opens, database
<1>2. ASSUME NEW q \in Requests,
             BookCommit(q) \/ CancelCommit(q) \/ StartCommit(q) \/ PickupCommit(q)
      PROVE  UNCHANGED <<waitlist, tick>>
    BY <1>2 DEF BookCommit, CancelCommit, StartCommit, PickupCommit
<1>3. ASSUME \/ DriverUpdate \/ TripCron \/ BookingCron \/ UNCHANGED vars
             \/ \E r \in Rides : TimePasses(r)
      PROVE  UNCHANGED <<waitlist, tick>>
    BY <1>3 DEF DriverUpdate, TripCron, BookingCron, TimePasses, vars
<1> QED
    BY <1>1, <1>2, <1>3 DEF Next

\* A booking keeps its ride, its passenger and its seats for ever, and only a
\* promotion creates one that is ACCEPTED.
LEMMA RowsKept ==
    ASSUME TypeOK, Remembered, [Next]_vars
    PROVE  /\ \A b \in DOMAIN booking :
                  /\ b \in DOMAIN booking'
                  /\ booking'[b].ride = booking[b].ride
                  /\ booking'[b].passenger = booking[b].passenger
                  /\ booking'[b].seats = booking[b].seats
           /\ \/ \E r \in Rides : TickPromote(r)
              \/ \A b \in DOMAIN booking' \ DOMAIN booking :
                     booking'[b].status # "ACCEPTED"
<1> DEFINE Kept == \A b \in DOMAIN booking :
                  /\ b \in DOMAIN booking'
                  /\ booking'[b].ride = booking[b].ride
                  /\ booking'[b].passenger = booking[b].passenger
                  /\ booking'[b].seats = booking[b].seats
           Same == Kept /\ DOMAIN booking' = DOMAIN booking
<1> booking \in [DOMAIN booking -> BookingRow]
    BY DEF TypeOK, IsTable
<1>1. ASSUME NEW q \in Requests,
             \/ BookRead(q) \/ BookCheck(q) \/ CancelRead(q) \/ JoinRead(q)
             \/ StartRead(q) \/ PickupRead(q) \/ Fail(q)
      PROVE  Same
    BY <1>1 DEF BookRead, BookCheck, CancelRead, JoinRead, StartRead, PickupRead,
                Fail, Opens, database
<1>2. ASSUME NEW q \in Requests, BookCommit(q)
      PROVE  Kept /\ \A b \in DOMAIN booking' \ DOMAIN booking :
                         booking'[b].status # "ACCEPTED"
    BY <1>2 DEF BookCommit, NewBooking, Put
<1>3. ASSUME NEW b, NEW status, SetStatus(b, status)
      PROVE  Same
    BY <1>3 DEF SetStatus, BookingRow
<1>4. ASSUME NEW q \in Requests, CancelCommit(q) \/ PickupCommit(q) PROVE Same
    BY <1>3, <1>4 DEF CancelCommit, PickupCommit
<1>5. CASE DriverUpdate
    BY <1>3, <1>5 DEF DriverUpdate
<1>6. ASSUME NEW q \in Requests, JoinCommit(q) \/ StartCommit(q) PROVE Same
    BY <1>6 DEF JoinCommit, StartCommit
<1>7. CASE TickClean \/ TickRead \/ TickEnd \/ TickAbort \/ TripCron \/ UNCHANGED vars
    BY <1>7 DEF TickClean, TickRead, TickEnd, TickAbort, TripCron, database, vars
<1>8. ASSUME NEW r \in Rides, TickPromote(r) PROVE Kept
    BY <1>8 DEF TickPromote, NewBooking, Put
<1>9. CASE BookingCron
    <2>1. \A b \in DOMAIN booking : booking'[b] \in
              {booking[b], [booking[b] EXCEPT !.status = "CANCELLED"]}
        BY <1>9 DEF BookingCron
    <2> QED BY <1>9, <2>1 DEF BookingCron, BookingRow
<1>10. ASSUME NEW r \in Rides, TimePasses(r) PROVE Same
    BY <1>10 DEF TimePasses
<1> QED
    BY <1>1, <1>2, <1>4, <1>5, <1>6, <1>7, <1>8, <1>9, <1>10 DEF Next, BookingCron

\* What the promotion of p, in the booking b, does to the tables and the tick.
Promotion(r, p, b) ==
    /\ IsNext(r, p)
    /\ p \in Waiting(r)
    /\ b \notin DOMAIN booking
    /\ booking' = Put(booking, b, [ride |-> r, passenger |-> p,
           seats |-> waitlist[r][p].seats, status |-> "ACCEPTED"])
    /\ \A x \in Rides : DOMAIN waitlist'[x] = DOMAIN waitlist[x]
    /\ waitlist'[r][p] = [waitlist[r][p] EXCEPT !.status = "ACCEPTED"]
    /\ \A x \in Rides : \A o \in DOMAIN waitlist[x] :
           x # r \/ o # p => waitlist'[x][o] = waitlist[x][o]
    /\ availableSeats' = [availableSeats EXCEPT ![r] = @ - waitlist[r][p].seats]
    /\ tick.at = "promoting" /\ tick'.at = "promoting"
    /\ tick'.queue = [tick.queue EXCEPT ![r] = @ \ {p}]
    /\ tick'.left = [tick.left EXCEPT ![r] = @ - waitlist[r][p].seats]

\* What a promotion does, with its entry and its booking named.
LEMMA PromoteEffect ==
    ASSUME TypeOK, Remembered, NEW r \in Rides, TickPromote(r)
    PROVE  \E p \in tick.queue[r], b \in BookingIds : Promotion(r, p, b)
<1>1. PICK p \in tick.queue[r], b \in BookingIds :
        /\ IsNext(r, p)
        /\ NewBooking(b)
        /\ booking' = Put(booking, b, [ride |-> r, passenger |-> p,
               seats |-> waitlist[r][p].seats, status |-> "ACCEPTED"])
        /\ waitlist' = [waitlist EXCEPT ![r][p].status = "ACCEPTED"]
        /\ availableSeats' = [availableSeats EXCEPT ![r] = @ - waitlist[r][p].seats]
        /\ tick' = [tick EXCEPT !.left[r] = @ - waitlist[r][p].seats,
                                !.queue[r] = @ \ {p}, !.on = {r}]
    BY DEF TickPromote
<1>2. tick.at = "promoting"
    BY DEF TickPromote
<1>3. p \in Waiting(r)
    BY <1>2 DEF Remembered
<1>4. /\ tick'.at = tick.at
      /\ tick'.queue = [tick.queue EXCEPT ![r] = @ \ {p}]
      /\ tick'.left = [tick.left EXCEPT ![r] = @ - waitlist[r][p].seats]
    BY <1>1 DEF TypeOK, TickState
<1>5. /\ \A x \in Rides : DOMAIN waitlist'[x] = DOMAIN waitlist[x]
      /\ waitlist'[r][p] = [waitlist[r][p] EXCEPT !.status = "ACCEPTED"]
      /\ \A x \in Rides : \A o \in DOMAIN waitlist[x] :
             x # r \/ o # p => waitlist'[x][o] = waitlist[x][o]
    BY <1>1, <1>3 DEF TypeOK, Waiting
<1> QED
    BY <1>1, <1>2, <1>3, <1>4, <1>5 DEF NewBooking, Promotion

\* What a join does to the table: one row more, the latest of its ride.
LEMMA JoinEffect ==
    ASSUME TypeOK, NEW q \in Requests, JoinCommit(q)
    PROVE  \E r \in Rides, p \in Passengers, t \in JoinTimes :
        /\ p \notin DOMAIN waitlist[r]
        /\ \A o \in DOMAIN waitlist[r] : waitlist[r][o].createdAt < t
        /\ DOMAIN waitlist'[r] = DOMAIN waitlist[r] \cup {p}
        /\ waitlist'[r][p].status = "WAITING"
        /\ waitlist'[r][p].createdAt = t
        /\ waitlist'[r][p].position = request[q].count + 1 /\ request[q].ride = r
        /\ \A o \in DOMAIN waitlist[r] : waitlist'[r][o] = waitlist[r][o]
        /\ \A x \in Rides \ {r} : waitlist'[x] = waitlist[x]
        /\ tick' = tick
<1>1. request[q] \in [at: {"joinSeen"}, ride: Rides, passenger: Passengers,
                      seats: SeatCounts, onRoute: BOOLEAN, count: Nat]
    BY DEF JoinCommit, TypeOK, RequestState, Idle
<1> DEFINE r == request[q].ride
           p == request[q].passenger
           row(t) == [seats |-> request[q].seats, onRoute |-> request[q].onRoute,
                      createdAt |-> t, position |-> request[q].count + 1,
                      status |-> "WAITING"]
<1>2. PICK t \in JoinTimes :
        IsNow(t, r) /\ waitlist' = [waitlist EXCEPT ![r] = Put(@, p, row(t))]
    BY DEF JoinCommit
<1>3. r \in Rides /\ p \in Passengers /\ p \notin DOMAIN waitlist[r] /\ tick' = tick
    BY <1>1 DEF JoinCommit
<1>4. \A x \in Rides \ {r} : waitlist'[x] = waitlist[x]
    BY <1>2 DEF TypeOK
<1>5. waitlist'[r] = Put(waitlist[r], p, row(t))
    BY <1>2, <1>3 DEF TypeOK
<1>6. /\ DOMAIN waitlist'[r] = DOMAIN waitlist[r] \cup {p}
      /\ waitlist'[r][p] = row(t)
      /\ \A o \in DOMAIN waitlist[r] : waitlist'[r][o] = waitlist[r][o]
    BY <1>3, <1>5 DEF Put
<1>7. \A o \in DOMAIN waitlist[r] : waitlist[r][o].createdAt < t
    BY <1>2 DEF IsNow
<1>8. /\ row(t).status = "WAITING" /\ row(t).createdAt = t
      /\ row(t).position = request[q].count + 1 /\ request[q].ride = r
    OBVIOUS
<1> HIDE DEF r, p, row
<1> QED
    BY <1>2, <1>3, <1>4, <1>6, <1>7, <1>8

\* What cleaning leaves of an entry it keeps.
LEMMA CleanEffect ==
    ASSUME TypeOK, TickClean
    PROVE  \A r \in Rides :
        /\ DOMAIN waitlist'[r] \subseteq DOMAIN waitlist[r]
        /\ \A p \in DOMAIN waitlist'[r] : waitlist'[r][p] = waitlist[r][p]
<1> TAKE r \in Rides
<1>1. waitlist'[r] = waitlist[r]
          \/ waitlist'[r] = Restrict(waitlist[r], DOMAIN waitlist[r] \ Waiting(r))
    BY DEF TickClean
<1> QED
    BY <1>1 DEF Restrict

\* An accepted entry keeps its booking: no crash, failed tick, cleaning or
\* overlapping request separates the two.
THEOREM AcceptedEntriesHaveBookings == Spec => []EntryHasBooking
<1>1. Init => EntryHasBooking
    BY DEF Init, EntryHasBooking
<1>2. TypeOK /\ Remembered /\ EntryHasBooking /\ [Next]_vars => EntryHasBooking'
    <2> SUFFICES ASSUME TypeOK, Remembered, EntryHasBooking, [Next]_vars,
                        NEW r \in Rides, NEW p \in DOMAIN waitlist'[r],
                        waitlist'[r][p].status = "ACCEPTED"
                 PROVE  \E b \in DOMAIN booking' :
                            /\ booking'[b].ride = r
                            /\ booking'[b].passenger = p
                            /\ booking'[b].seats = waitlist'[r][p].seats
        BY DEF EntryHasBooking
    <2>1. ASSUME p \in DOMAIN waitlist[r], waitlist'[r][p] = waitlist[r][p]
          PROVE  \E b \in DOMAIN booking' :
                     /\ booking'[b].ride = r
                     /\ booking'[b].passenger = p
                     /\ booking'[b].seats = waitlist'[r][p].seats
        <3>1. PICK b \in DOMAIN booking : /\ booking[b].ride = r
                                         /\ booking[b].passenger = p
                                         /\ booking[b].seats = waitlist[r][p].seats
            BY <2>1 DEF EntryHasBooking
        <3> QED BY <2>1, <3>1, RowsKept
    <2>2. CASE UNCHANGED <<waitlist, tick>>
        BY <2>1, <2>2
    <2>3. ASSUME NEW q \in Requests, JoinCommit(q)
          PROVE  p \in DOMAIN waitlist[r] /\ waitlist'[r][p] = waitlist[r][p]
        BY <2>3, JoinEffect
    <2>4. CASE TickClean
        BY <2>1, <2>4, CleanEffect
    <2>5. CASE TickRead \/ TickEnd \/ TickAbort
        BY <2>1, <2>5 DEF TickRead, TickEnd, TickAbort, database
    <2>6. ASSUME NEW x \in Rides, TickPromote(x)
          PROVE  \E b \in DOMAIN booking' :
                     /\ booking'[b].ride = r
                     /\ booking'[b].passenger = p
                     /\ booking'[b].seats = waitlist'[r][p].seats
        <3>1. PICK o \in tick.queue[x], b \in BookingIds : Promotion(x, o, b)
            BY <2>6, PromoteEffect
        <3>2. CASE r = x /\ p = o
            <4>1. booking'[b] = [ride |-> x, passenger |-> o,
                                 seats |-> waitlist[x][o].seats, status |-> "ACCEPTED"]
                BY <3>1 DEF Promotion, Put
            <4>2. waitlist[x][o] \in WaitingListRow
                BY <3>1 DEF Promotion, TypeOK, IsTable, Waiting
            <4>3. waitlist'[x][o].seats = waitlist[x][o].seats
                BY <3>1, <4>2 DEF Promotion, WaitingListRow
            <4>4. b \in DOMAIN booking'
                BY <3>1 DEF Promotion, Put
            <4> QED BY <3>2, <4>1, <4>3, <4>4
        <3>3. CASE r # x \/ p # o
            BY <2>1, <3>1, <3>3 DEF Promotion
        <3> QED BY <3>2, <3>3
    <2> QED BY <2>1, <2>2, <2>3, <2>4, <2>5, <2>6, WaitlistSteps
<1> QED
    BY <1>1, <1>2, TypeCorrect, PTL DEF Spec

\* At most one booking is ever created for an entry by its promotion, and the
\* entry is taken out of WAITING by the same step.
THEOREM EntriesPromotedOnce == Spec => EachEntryPromotedOnce
<1> DEFINE Once == \A b \in DOMAIN booking' \ DOMAIN booking :
          booking'[b].status = "ACCEPTED" =>
              LET r == booking'[b].ride
                  p == booking'[b].passenger
              IN  /\ waitlist[r][p].status = "WAITING"
                  /\ waitlist[r][p].seats = booking'[b].seats
                  /\ waitlist'[r][p].status = "ACCEPTED"
<1>1. TypeOK /\ Remembered /\ [Next]_vars => Once
    <2> SUFFICES ASSUME TypeOK, Remembered, [Next]_vars PROVE Once
        OBVIOUS
    <2>1. ASSUME NEW r \in Rides, TickPromote(r) PROVE Once
        <3>1. PICK p \in tick.queue[r], b \in BookingIds : Promotion(r, p, b)
            BY <2>1, PromoteEffect
        <3>2. waitlist[r][p] \in WaitingListRow
            BY <3>1 DEF Promotion, TypeOK, IsTable, Waiting
        <3>3. waitlist'[r][p].status = "ACCEPTED"
            BY <3>1, <3>2 DEF Promotion, WaitingListRow
        <3>4. /\ booking'[b] = [ride |-> r, passenger |-> p,
                                seats |-> waitlist[r][p].seats, status |-> "ACCEPTED"]
              /\ DOMAIN booking' = DOMAIN booking \cup {b}
            BY <3>1 DEF Promotion, Put
        <3>5. waitlist[r][p].status = "WAITING"
            BY <3>1 DEF Promotion, Waiting
        <3> QED BY <3>3, <3>4, <3>5
    <2> QED BY <2>1, RowsKept
<1> QED
    BY <1>1, TypeCorrect, PTL DEF Spec, EachEntryPromotedOnce

\* The snapshot of a tick has no holes: a waiting entry older than one still in
\* the snapshot is in it too.  This is what makes OvertakenAskedMore inductive.
SnapshotClosed ==
    tick.at = "promoting" =>
        \A r \in Rides : \A o \in tick.queue[r], p \in Waiting(r) :
            waitlist[r][p].createdAt < waitlist[r][o].createdAt => p \in tick.queue[r]

\* The row of an entry is an entry; its seats and createdAt are numbers.
LEMMA EntryType ==
    ASSUME TypeOK, NEW r \in Rides, NEW p \in DOMAIN waitlist[r]
    PROVE  /\ waitlist[r][p] \in WaitingListRow
           /\ waitlist[r][p].seats \in Int
           /\ waitlist[r][p].createdAt \in Int
<1>1. waitlist[r][p] \in WaitingListRow
    BY DEF TypeOK, IsTable
<1>2. waitlist[r][p].seats \in SeatCounts /\ waitlist[r][p].createdAt \in JoinTimes
    BY <1>1 DEF WaitingListRow
<1>3. SeatCounts \subseteq Int /\ JoinTimes \subseteq Int
    BY SeatCountsAssumption, JoinTimesAssumption DEF MaxSeats
<1> QED
    BY <1>1, <1>2, <1>3

\* The snapshot of a tick stays closed under seniority, whatever joins and
\* promotions happen while the tick runs.
LEMMA SnapshotClosedStep ==
    TypeOK /\ Remembered /\ SnapshotClosed /\ [Next]_vars => SnapshotClosed'
<1> SUFFICES ASSUME TypeOK, Remembered, SnapshotClosed, [Next]_vars
             PROVE  SnapshotClosed'
    OBVIOUS
<1>1. CASE UNCHANGED <<waitlist, tick>>
    BY <1>1 DEF SnapshotClosed, Waiting
<1>2. ASSUME NEW q \in Requests, JoinCommit(q) PROVE SnapshotClosed'
    <2>1. PICK x \in Rides, n \in Passengers, t \in JoinTimes :
        /\ n \notin DOMAIN waitlist[x]
        /\ \A o \in DOMAIN waitlist[x] : waitlist[x][o].createdAt < t
        /\ DOMAIN waitlist'[x] = DOMAIN waitlist[x] \cup {n}
        /\ waitlist'[x][n].status = "WAITING"
        /\ waitlist'[x][n].createdAt = t
        /\ \A o \in DOMAIN waitlist[x] : waitlist'[x][o] = waitlist[x][o]
        /\ \A y \in Rides \ {x} : waitlist'[y] = waitlist[y]
        /\ tick' = tick
        BY <1>2, JoinEffect
    <2> SUFFICES ASSUME tick.at = "promoting", NEW r \in Rides,
                        NEW o \in tick.queue[r], NEW p \in Waiting(r)',
                        waitlist'[r][p].createdAt < waitlist'[r][o].createdAt
                 PROVE  p \in tick.queue[r]
        BY <2>1 DEF SnapshotClosed
    <2>2. o \in DOMAIN waitlist[r] /\ waitlist'[r][o] = waitlist[r][o]
        BY <2>1 DEF Remembered, Waiting
    <2>3. p \in DOMAIN waitlist[r] /\ waitlist'[r][p] = waitlist[r][p]
        <3>1. p \in DOMAIN waitlist'[r]
            BY DEF Waiting
        <3>2. CASE r = x /\ p = n
            <4>1. t < waitlist[x][o].createdAt /\ waitlist[x][o].createdAt < t
                BY <2>1, <2>2, <3>2
            <4>2. waitlist[x][o].createdAt \in Int /\ t \in Int
                BY <2>2, <3>2, EntryType, JoinTimesAssumption
            <4> QED BY <4>1, <4>2
        <3> QED BY <2>1, <3>1, <3>2
    <2> QED BY <2>2, <2>3 DEF SnapshotClosed, Waiting
<1>3. CASE TickClean \/ TickEnd \/ TickAbort
    BY <1>3 DEF TickClean, TickEnd, TickAbort, IdleTick, SnapshotClosed, TypeOK, TickState
<1>4. CASE TickRead
    BY <1>4 DEF TickRead, SnapshotClosed, Waiting, database
<1>5. ASSUME NEW x \in Rides, TickPromote(x) PROVE SnapshotClosed'
    <2>1. PICK n \in tick.queue[x], b \in BookingIds : Promotion(x, n, b)
        BY <1>5, PromoteEffect
    <2> SUFFICES ASSUME NEW r \in Rides, NEW o \in tick'.queue[r], NEW p \in Waiting(r)',
                        waitlist'[r][p].createdAt < waitlist'[r][o].createdAt
                 PROVE  p \in tick'.queue[r]
        BY DEF SnapshotClosed
    <2>2. tick.at = "promoting"
        BY <2>1 DEF Promotion
    <2>3. o \in tick.queue[r] /\ (r # x \/ o # n)
        BY <2>1 DEF Promotion, TypeOK, TickState
    <2>4. n \in Waiting(x) /\ waitlist'[x][n].status = "ACCEPTED"
        BY <2>1, EntryType DEF Promotion, Waiting, WaitingListRow
    <2>5. p \in Waiting(r) /\ (r # x \/ p # n) /\ waitlist'[r][p] = waitlist[r][p]
        BY <2>1, <2>4 DEF Promotion, Waiting
    <2>6. waitlist'[r][o] = waitlist[r][o]
        BY <2>1, <2>2, <2>3 DEF Promotion, Remembered, Waiting
    <2>7. p \in tick.queue[r]
        BY <2>2, <2>3, <2>5, <2>6 DEF SnapshotClosed
    <2> QED BY <2>1, <2>5, <2>7 DEF Promotion, TypeOK, TickState
<1> QED
    BY <1>1, <1>2, <1>3, <1>4, <1>5, WaitlistSteps

\* Nobody is overtaken by an entry that asked for as many seats or more, however
\* joins, cancellations, ticks and their failures interleave.
THEOREM OnlyLargerRequestsOvertaken == Spec => []OvertakenAskedMore
<1>1. Init => OvertakenAskedMore /\ SnapshotClosed
    BY DEF Init, OvertakenAskedMore, SnapshotClosed, Waiting, IdleTick
<1>2. TypeOK /\ Remembered /\ SnapshotClosed /\ OvertakenAskedMore /\ [Next]_vars
        => OvertakenAskedMore'
    <2> SUFFICES ASSUME TypeOK, Remembered, SnapshotClosed, OvertakenAskedMore,
                        [Next]_vars,
                        NEW r \in Rides, NEW p \in Waiting(r)', NEW o \in DOMAIN waitlist'[r],
                        waitlist'[r][p].onRoute, waitlist'[r][o].status = "ACCEPTED",
                        waitlist'[r][p].createdAt < waitlist'[r][o].createdAt
                 PROVE  waitlist'[r][p].seats > waitlist'[r][o].seats
        BY DEF OvertakenAskedMore
    <2>1. ASSUME p \in DOMAIN waitlist[r], waitlist'[r][p] = waitlist[r][p],
                 o \in DOMAIN waitlist[r], waitlist'[r][o] = waitlist[r][o]
          PROVE  waitlist'[r][p].seats > waitlist'[r][o].seats
        BY <2>1 DEF OvertakenAskedMore, Waiting
    <2>2. p \in DOMAIN waitlist'[r]
        BY DEF Waiting
    <2>3. CASE UNCHANGED <<waitlist, tick>>
        BY <2>1, <2>2, <2>3
    <2>4. ASSUME NEW q \in Requests, JoinCommit(q)
          PROVE  waitlist'[r][p].seats > waitlist'[r][o].seats
        <3>1. PICK x \in Rides, n \in Passengers, t \in JoinTimes :
            /\ n \notin DOMAIN waitlist[x]
            /\ \A z \in DOMAIN waitlist[x] : waitlist[x][z].createdAt < t
            /\ DOMAIN waitlist'[x] = DOMAIN waitlist[x] \cup {n}
            /\ waitlist'[x][n].status = "WAITING"
            /\ waitlist'[x][n].createdAt = t
            /\ \A z \in DOMAIN waitlist[x] : waitlist'[x][z] = waitlist[x][z]
            /\ \A y \in Rides \ {x} : waitlist'[y] = waitlist[y]
            /\ tick' = tick
            BY <2>4, JoinEffect
        <3>2. o \in DOMAIN waitlist[r] /\ waitlist'[r][o] = waitlist[r][o]
            BY <3>1
        <3>3. p \in DOMAIN waitlist[r] /\ waitlist'[r][p] = waitlist[r][p]
            <4>1. CASE r = x /\ p = n
                <5>1. t < waitlist[x][o].createdAt /\ waitlist[x][o].createdAt < t
                    BY <3>1, <3>2, <4>1
                <5>2. waitlist[x][o].createdAt \in Int /\ t \in Int
                    BY <3>2, <4>1, EntryType, JoinTimesAssumption
                <5> QED BY <5>1, <5>2
            <4> QED BY <2>2, <3>1, <4>1
        <3> QED BY <2>1, <3>2, <3>3
    <2>5. CASE TickClean
        BY <2>1, <2>2, <2>5, CleanEffect
    <2>6. CASE TickRead \/ TickEnd \/ TickAbort
        BY <2>1, <2>2, <2>6 DEF TickRead, TickEnd, TickAbort, database
    <2>7. ASSUME NEW x \in Rides, TickPromote(x)
          PROVE  waitlist'[r][p].seats > waitlist'[r][o].seats
        <3>1. PICK n \in tick.queue[x], b \in BookingIds : Promotion(x, n, b)
            BY <2>7, PromoteEffect
        <3>2. n \in Waiting(x) /\ tick.at = "promoting" /\ IsNext(x, n)
            BY <3>1 DEF Promotion
        <3>3. /\ waitlist'[x][n].status = "ACCEPTED"
              /\ waitlist'[x][n].seats = waitlist[x][n].seats
              /\ waitlist'[x][n].createdAt = waitlist[x][n].createdAt
            BY <3>1, <3>2, EntryType DEF Promotion, Waiting, WaitingListRow
        <3>4. p \in Waiting(r) /\ waitlist'[r][p] = waitlist[r][p]
            <4>1. waitlist'[r][p].status = "WAITING" /\ p \in DOMAIN waitlist[r]
                BY <3>1 DEF Promotion, Waiting
            <4>2. waitlist'[r][p] = waitlist[r][p]
                BY <3>1, <3>3, <4>1 DEF Promotion
            <4> QED BY <4>1, <4>2 DEF Waiting
        <3>5. o \in DOMAIN waitlist[r]
            BY <3>1 DEF Promotion
        <3>6. CASE r = x /\ o = n
            <4>1. p \in tick.queue[x]
                BY <3>2, <3>3, <3>4, <3>6 DEF SnapshotClosed
            <4>2. /\ waitlist[x][p].createdAt \in Int /\ waitlist[x][n].createdAt \in Int
                  /\ waitlist[x][p].seats \in Int /\ waitlist[x][n].seats \in Int
                  /\ tick.left[x] \in Int
                BY <3>4, <3>5, <3>6, EntryType DEF Waiting, TypeOK, TickState
            <4>3. p \notin Promotable(x)
                BY <3>2, <3>3, <3>4, <3>6, <4>2 DEF IsNext
            <4>4. ~(waitlist[x][p].seats <= tick.left[x])
                BY <3>4, <3>6, <4>1, <4>3 DEF Promotable
            <4>5. waitlist[x][n].seats <= tick.left[x]
                BY <3>2 DEF IsNext, Promotable
            <4> QED BY <3>3, <3>4, <3>6, <4>2, <4>4, <4>5
        <3>7. CASE r # x \/ o # n
            BY <2>1, <3>1, <3>4, <3>5, <3>7 DEF Promotion, Waiting
        <3> QED BY <3>6, <3>7
    <2> QED BY <2>3, <2>4, <2>5, <2>6, <2>7, WaitlistSteps
<1> QED
    BY <1>1, <1>2, SnapshotClosedStep, TypeCorrect, PTL DEF Spec

------------------------------------------------------------------------------
(* Seats, when handlers do not overlap and no cancelled booking is revived. *)

\* Disjoint union with the n seats of one booking.
LEMMA SeatsOfOneBooking ==
    ASSUME NEW T, IsFiniteSet(T), NEW b, NEW n \in Nat, T \cap ({b} \X (1..n)) = {}
    PROVE  /\ IsFiniteSet(T \cup ({b} \X (1..n)))
           /\ Cardinality(T \cup ({b} \X (1..n))) = Cardinality(T) + n
<1> DEFINE I == 1..n
           O == {b}
           P == O \X I
<1>1. IsFiniteSet(I) /\ Cardinality(I) = n
    <2>1. 1 \in Int /\ n \in Int
        OBVIOUS
    <2>2. IsFiniteSet(I) /\ Cardinality(I) = IF 1 > n THEN 0 ELSE n - 1 + 1
        BY <2>1, FS_Interval, Zenon
    <2> QED BY <2>2
<1>2. IsFiniteSet(O) /\ Cardinality(O) = 1
    BY FS_Singleton
<1>3. IsFiniteSet(P) /\ Cardinality(P) = Cardinality(O) * Cardinality(I)
    <2> HIDE DEF I, O
    <2> QED BY <1>1, <1>2, FS_Product
<1>4. Cardinality(P) = n
    BY <1>1, <1>2, <1>3
<1>5. T \cap P = {}
    OBVIOUS
<1> HIDE DEF P
<1>6. Cardinality(T) \in Nat /\ Cardinality(T \cap P) = 0
    BY <1>5, FS_CardinalityType, FS_EmptySet, Zenon
<1>7. /\ IsFiniteSet(T \cup P)
      /\ Cardinality(T \cup P) = Cardinality(T) + Cardinality(P) - Cardinality(T \cap P)
    BY <1>3, FS_Union
<1>8. IsFiniteSet(T \cup P) /\ Cardinality(T \cup P) = Cardinality(T) + n
    BY <1>4, <1>6, <1>7
<1> QED
    BY <1>8 DEF P

\* The seats taken from a ride are finitely many, so HeldSeats counts them.
LEMMA TakenFinite ==
    ASSUME IsTable(booking, BookingIds, BookingRow), NEW r
    PROVE  IsFiniteSet(TakenSeats(r)) /\ HeldSeats(r) \in Nat
<1> DEFINE S == 1..MaxSeats
<1>1. IsFiniteSet(S)
    <2>1. MaxSeats \in Int
        BY DEF MaxSeats
    <2> QED BY <2>1, FS_Interval
<1> HIDE DEF S
<1>2. IsFiniteSet(BookingIds \X S)
    BY <1>1, BookingIdsAssumption, FS_Product
<1> USE DEF S
<1>3. TakenSeats(r) \in SUBSET (BookingIds \X (1..MaxSeats))
    BY DEF TakenSeats, IsTable
<1> QED
    BY <1>2, <1>3, FS_Subset, FS_CardinalityType DEF HeldSeats

\* A new booking that is not cancelled holds its seats, and changes no others.
LEMMA InsertHolds ==
    ASSUME TypeOK, TypeOK', NEW b, b \notin DOMAIN booking, NEW row \in BookingRow,
           row.status # "CANCELLED", booking' = Put(booking, b, row)
    PROVE  \A r \in Rides :
               HeldSeats(r)' = IF r = row.ride THEN HeldSeats(r) + row.seats
                                               ELSE HeldSeats(r)
<1> TAKE r \in Rides
<1>1. row.seats \in 1..MaxSeats
    BY SeatCountsAssumption DEF BookingRow
<1>2. /\ DOMAIN booking' = DOMAIN booking \cup {b}
      /\ booking'[b] = row
      /\ \A c \in DOMAIN booking : booking'[c] = booking[c]
    BY DEF Put
<1>3. CASE r = row.ride
    <2>1. TakenSeats(r)' = TakenSeats(r) \cup ({b} \X (1..row.seats))
        <3>1. ASSUME NEW u \in TakenSeats(r)'
              PROVE  u \in TakenSeats(r) \cup ({b} \X (1..row.seats))
            <4>1. CASE u[1] = b
                BY <1>1, <1>2, <3>1, <4>1 DEF TakenSeats
            <4>2. CASE u[1] # b
                BY <1>2, <3>1, <4>2 DEF TakenSeats
            <4> QED BY <4>1, <4>2
        <3>2. ASSUME NEW u \in TakenSeats(r) PROVE u \in TakenSeats(r)'
            BY <1>2, <3>2 DEF TakenSeats
        <3>3. ASSUME NEW u \in {b} \X (1..row.seats) PROVE u \in TakenSeats(r)'
            BY <1>1, <1>2, <1>3, <3>3 DEF TakenSeats, MaxSeats
        <3> QED BY <3>1, <3>2, <3>3
    <2>2. TakenSeats(r) \cap ({b} \X (1..row.seats)) = {}
        BY DEF TakenSeats
    <2>3. IsFiniteSet(TakenSeats(r)) /\ row.seats \in Nat
        BY <1>1, TakenFinite DEF TypeOK, MaxSeats
    <2>4. Cardinality(TakenSeats(r) \cup ({b} \X (1..row.seats)))
              = Cardinality(TakenSeats(r)) + row.seats
        BY <2>2, <2>3, SeatsOfOneBooking
    <2>5. Cardinality(TakenSeats(r)') = Cardinality(TakenSeats(r)) + row.seats
        BY <2>1, <2>4, Zenon
    <2> QED BY <1>3, <2>5 DEF HeldSeats
<1>4. CASE r # row.ride
    <2>1. TakenSeats(r)' = TakenSeats(r)
        BY <1>2, <1>4 DEF TakenSeats
    <2> QED BY <1>4, <2>1 DEF HeldSeats
<1> QED BY <1>3, <1>4

\* A change of statuses that revives no cancelled booking takes no seat.
LEMMA StatusesHoldNoMore ==
    ASSUME TypeOK, TypeOK', DOMAIN booking' = DOMAIN booking,
           \A b \in DOMAIN booking :
               /\ booking'[b].ride = booking[b].ride
               /\ booking'[b].seats = booking[b].seats
               /\ booking[b].status = "CANCELLED" => booking'[b].status = "CANCELLED"
    PROVE  \A r \in Rides : HeldSeats(r)' \in Nat /\ HeldSeats(r)' <= HeldSeats(r)
<1> TAKE r \in Rides
<1>1. TakenSeats(r)' \in SUBSET TakenSeats(r)
    BY DEF TakenSeats
<1>2. IsFiniteSet(TakenSeats(r))
    BY TakenFinite DEF TypeOK
<1> QED
    BY <1>1, <1>2, FS_Subset, FS_CardinalityType DEF HeldSeats

\* Cancelling a booking that holds its seats frees exactly those.
LEMMA CancelFrees ==
    ASSUME TypeOK, TypeOK', NEW b \in DOMAIN booking,
           booking[b].status # "CANCELLED", SetStatus(b, "CANCELLED")
    PROVE  \A r \in Rides :
               /\ HeldSeats(r)' \in Nat
               /\ HeldSeats(r)' = IF r = booking[b].ride THEN HeldSeats(r) - booking[b].seats
                                                         ELSE HeldSeats(r)
<1> TAKE r \in Rides
<1>1. booking[b] \in BookingRow /\ booking[b].seats \in 1..MaxSeats
    BY SeatCountsAssumption DEF TypeOK, IsTable, BookingRow
<1>2. /\ DOMAIN booking' = DOMAIN booking
      /\ booking'[b].status = "CANCELLED"
      /\ \A c \in DOMAIN booking \ {b} : booking'[c] = booking[c]
    BY <1>1 DEF SetStatus, BookingRow
<1>3. CASE r = booking[b].ride
    <2>1. TakenSeats(r) = TakenSeats(r)' \cup ({b} \X (1..booking[b].seats))
        <3> b \in DOMAIN booking /\ r = booking[b].ride
            BY <1>3
        <3>1. ASSUME NEW u \in TakenSeats(r)
              PROVE  u \in TakenSeats(r)' \cup ({b} \X (1..booking[b].seats))
            <4>1. CASE u[1] = b
                BY <1>1, <3>1, <4>1 DEF TakenSeats
            <4>2. CASE u[1] # b
                BY <1>2, <3>1, <4>2 DEF TakenSeats
            <4> QED BY <4>1, <4>2
        <3>2. ASSUME NEW u \in TakenSeats(r)' PROVE u \in TakenSeats(r)
            BY <1>2, <3>2 DEF TakenSeats
        <3>3. ASSUME NEW u \in {b} \X (1..booking[b].seats) PROVE u \in TakenSeats(r)
            BY <1>1, <3>3 DEF TakenSeats, MaxSeats
        <3> QED BY <3>1, <3>2, <3>3
    <2>2. TakenSeats(r)' \cap ({b} \X (1..booking[b].seats)) = {}
        BY <1>2 DEF TakenSeats
    <2>3. IsFiniteSet(TakenSeats(r)') /\ HeldSeats(r)' \in Nat
        <3>1. TakenSeats(r)' \in SUBSET TakenSeats(r)
            BY <2>1
        <3>2. IsFiniteSet(TakenSeats(r))
            BY TakenFinite DEF TypeOK
        <3>3. IsFiniteSet(TakenSeats(r)')
            BY <3>1, <3>2, FS_Subset
        <3> QED BY <3>3, FS_CardinalityType DEF HeldSeats
    <2>4. booking[b].seats \in Nat
        BY <1>1 DEF MaxSeats
    <2>5. Cardinality(TakenSeats(r)' \cup ({b} \X (1..booking[b].seats)))
              = Cardinality(TakenSeats(r)') + booking[b].seats
        BY <2>2, <2>3, <2>4, SeatsOfOneBooking
    <2>6. Cardinality(TakenSeats(r)) = Cardinality(TakenSeats(r)') + booking[b].seats
        BY <2>1, <2>5, Zenon
    <2> QED BY <1>3, <2>3, <2>4, <2>6 DEF HeldSeats
<1>4. CASE r # booking[b].ride
    <2>1. \A c \in DOMAIN booking : booking'[c].ride = booking[c].ride
        BY <1>1, <1>2 DEF SetStatus, BookingRow
    <2>2. TakenSeats(r)' = TakenSeats(r)
        BY <1>2, <1>4, <2>1 DEF TakenSeats
    <2>3. HeldSeats(r) \in Nat
        BY TakenFinite DEF TypeOK
    <2> QED BY <1>4, <2>2, <2>3 DEF HeldSeats
<1> QED BY <1>3, <1>4

\* At most one request is open, and none while a tick runs.
OneAtATime ==
    /\ \A q, o \in Requests : q = o \/ request[q] = Idle \/ request[o] = Idle
    /\ tick.at = "idle" \/ \A q \in Requests : request[q] = Idle

\* What the open handler has read is still what the database holds.
StillTrue ==
    /\ \A q \in Requests :
        /\ request[q].at \in {"bookSeen", "bookChecked"} =>
               request[q].seen = availableSeats[request[q].ride]
        /\ request[q].at = "bookChecked" => request[q].seats <= request[q].seen
        /\ request[q].at \in {"cancelSeen", "pickupSeen"} =>
               booking[request[q].booking].status # "CANCELLED"
    /\ tick.at = "promoting" => tick.left = availableSeats

\* The inductive invariant behind NeverOversold for handlers one at a time.
SerialInv == TypeOK /\ Remembered /\ OneAtATime /\ StillTrue /\ NeverOversold

\* What a step may do to the seats: take free ones, give held ones back, or let
\* held ones lapse.
Takes(r, n) ==
    /\ n <= availableSeats[r]
    /\ availableSeats' = [availableSeats EXCEPT ![r] = @ - n]
    /\ \A x \in Rides : HeldSeats(x)' = IF x = r THEN HeldSeats(x) + n ELSE HeldSeats(x)
Gives(r, n) ==
    /\ availableSeats' = [availableSeats EXCEPT ![r] = @ + n]
    /\ n <= HeldSeats(r)
    /\ \A x \in Rides : HeldSeats(x)' = IF x = r THEN HeldSeats(x) - n ELSE HeldSeats(x)
Lapses ==
    /\ UNCHANGED availableSeats
    /\ \A r \in Rides : HeldSeats(r)' \in Nat /\ HeldSeats(r)' <= HeldSeats(r)
SeatMove == Lapses \/ \E r \in Rides, n \in 1..MaxSeats : Takes(r, n) \/ Gives(r, n)

\* A step that touches neither seats nor bookings moves none.
LEMMA SeatsUntouched ==
    ASSUME TypeOK, UNCHANGED <<availableSeats, booking>>
    PROVE  SeatMove
<1>1. \A r \in Rides : HeldSeats(r)' = HeldSeats(r) /\ HeldSeats(r) \in Nat
    BY TakenFinite DEF TypeOK, HeldSeats, TakenSeats
<1> QED BY <1>1 DEF SeatMove, Lapses

\* None of the three moves oversells a ride.
LEMMA MoveKeepsSeats ==
    ASSUME SerialInv, SeatMove
    PROVE  NeverOversold'
<1> SUFFICES ASSUME NEW x \in Rides
             PROVE  availableSeats'[x] >= 0 /\ availableSeats'[x] + HeldSeats(x)' <= Capacity
    BY DEF NeverOversold
<1>1. /\ availableSeats[x] \in Int /\ HeldSeats(x) \in Nat /\ Capacity \in Int
      /\ availableSeats[x] >= 0 /\ availableSeats[x] + HeldSeats(x) <= Capacity
    BY TakenFinite, CapacityAssumption DEF SerialInv, TypeOK, NeverOversold, MaxSeats
<1>2. CASE Lapses
    BY <1>1, <1>2 DEF Lapses
<1>3. ASSUME NEW r \in Rides, NEW n \in 1..MaxSeats, Takes(r, n) \/ Gives(r, n)
      PROVE  availableSeats'[x] >= 0 /\ availableSeats'[x] + HeldSeats(x)' <= Capacity
    BY <1>1, <1>3 DEF Takes, Gives, SerialInv, TypeOK, MaxSeats
<1> QED BY <1>2, <1>3 DEF SeatMove

\* Each of the three is a step of the seat account.
LEMMA MoveIsAccounted ==
    ASSUME SerialInv, SeatMove
    PROVE  Account!Next
<1> DEFINE held == [r \in Rides |-> HeldSeats(r)]
<1>1. \A x \in Rides : /\ HeldSeats(x) \in Nat /\ availableSeats[x] \in Nat
                       /\ availableSeats[x] <= Capacity /\ HeldSeats(x) <= Capacity
    <2> TAKE x \in Rides
    <2>1. HeldSeats(x) \in Nat
        BY TakenFinite DEF SerialInv, TypeOK
    <2> QED BY <2>1, CapacityAssumption DEF SerialInv, TypeOK, NeverOversold, MaxSeats
<1>2. CASE Lapses
    <2>1. \A r \in Rides : HeldSeats(r)' \in 0..HeldSeats(r)
        BY <1>1, <1>2 DEF Lapses
    <2>2. Account!Lapse
        BY <1>2, <2>1 DEF Lapses, Account!Lapse
    <2> QED BY <2>2 DEF Account!Next
<1>3. ASSUME NEW r \in Rides, NEW n \in 1..MaxSeats, Takes(r, n)
      PROVE  Account!Next
    <2>1. n \in 1..Capacity
        BY <1>1, <1>3, CapacityAssumption DEF Takes, MaxSeats
    <2>2. held' = [held EXCEPT ![r] = @ + n]
        BY <1>3 DEF Takes
    <2>3. Account!Take(r, n)
        BY <1>3, <2>2 DEF Takes, Account!Take
    <2> QED BY <2>1, <2>3 DEF Account!Next
<1>4. ASSUME NEW r \in Rides, NEW n \in 1..MaxSeats, Gives(r, n)
      PROVE  Account!Next
    <2>1. n <= HeldSeats(r) /\ n \in 1..Capacity
        BY <1>1, <1>4, CapacityAssumption DEF Gives, MaxSeats
    <2>2. held' = [held EXCEPT ![r] = @ - n]
        BY <1>4 DEF Gives
    <2>3. Account!Give(r, n)
        BY <1>4, <2>1, <2>2 DEF Gives, Account!Give
    <2> QED BY <2>1, <2>3 DEF Account!Next
<1> QED BY <1>2, <1>3, <1>4 DEF SeatMove

\* A request opens on what it has just read, with nothing else open.
LEMMA SerialOpen ==
    ASSUME SerialInv, Serial = TRUE, NEW q \in Requests, NEW state, Opens(q, state),
           state.at \in {"bookSeen", "bookChecked"} =>
               state.at = "bookSeen" /\ state.seen = availableSeats[state.ride],
           state.at \in {"cancelSeen", "pickupSeen"} =>
               booking[state.booking].status # "CANCELLED"
    PROVE  OneAtATime' /\ StillTrue' /\ SeatMove
<1>1. tick.at = "idle" /\ \A o \in Requests : request[o] = Idle
    BY DEF Opens, MayOpen, Quiet
<1>2. /\ \A o \in Requests \ {q} : request'[o] = Idle
      /\ request'[q] = state
      /\ UNCHANGED <<database, tick>>
    BY <1>1 DEF Opens, SerialInv, TypeOK
<1>3. OneAtATime'
    BY <1>1, <1>2 DEF OneAtATime
<1>4. StillTrue'
    BY <1>1, <1>2 DEF StillTrue, Idle, database
<1>5. SeatMove
    BY <1>2, SeatsUntouched DEF SerialInv, database
<1> QED BY <1>3, <1>4, <1>5

\* A request closes: nothing is open any more.
LEMMA SerialClose ==
    ASSUME SerialInv, NEW q \in Requests, request[q] # Idle, Closes(q), UNCHANGED tick
    PROVE  OneAtATime' /\ StillTrue'
<1>1. tick.at = "idle" /\ \A o \in Requests : request'[o] = Idle
    BY DEF SerialInv, OneAtATime, Closes, TypeOK
<1> QED BY <1>1 DEF OneAtATime, StillTrue, Idle

\* A step of a cron or of the driver, with no request open.
LEMMA SerialAlone ==
    ASSUME \A o \in Requests : request[o] = Idle, UNCHANGED request,
           tick'.at = "promoting" => tick'.left = availableSeats'
    PROVE  OneAtATime' /\ StillTrue'
<1>1. \A o \in Requests : request'[o] = Idle
    OBVIOUS
<1>2. OneAtATime'
    BY <1>1 DEF OneAtATime
<1>3. StillTrue'
    BY <1>1 DEF StillTrue, Idle
<1> QED BY <1>2, <1>3

\* Statuses change and nobody's seats are taken: some may lapse.
LEMMA StatusesKeepSeats ==
    ASSUME SerialInv, TypeOK', UNCHANGED availableSeats, DOMAIN booking' = DOMAIN booking,
           \A b \in DOMAIN booking :
               /\ booking'[b].ride = booking[b].ride
               /\ booking'[b].seats = booking[b].seats
               /\ booking[b].status = "CANCELLED" => booking'[b].status = "CANCELLED"
    PROVE  SeatMove
<1>1. \A r \in Rides : HeldSeats(r)' \in Nat /\ HeldSeats(r)' <= HeldSeats(r)
    BY StatusesHoldNoMore DEF SerialInv
<1> QED BY <1>1 DEF SeatMove, Lapses

\* SerialInv is inductive, and every step is a move of seats, when handlers do
\* not overlap and no driver revives a cancelled booking: one step per action.
LEMMA SerialStep ==
    ASSUME SerialInv, Serial = TRUE,
           \A s \in BookingStatus : <<"CANCELLED", s>> \notin DriverMoves,
           [Next]_vars
    PROVE  SerialInv' /\ SeatMove
<1>1. TypeOK' /\ Remembered'
    BY TypeStep, RememberedStep DEF SerialInv
<1> DEFINE Goal == OneAtATime' /\ StillTrue' /\ SeatMove
<1>2. ASSUME NEW q \in Requests,
             \/ BookRead(q) \/ CancelRead(q) \/ JoinRead(q) \/ StartRead(q) \/ PickupRead(q)
      PROVE  Goal
    <2>1. CASE BookRead(q)
        BY <2>1, SerialOpen DEF BookRead
    <2>2. CASE CancelRead(q)
        BY <2>2, SerialOpen DEF CancelRead, Cancellable
    <2>3. CASE JoinRead(q)
        BY <2>3, SerialOpen DEF JoinRead
    <2>4. CASE StartRead(q)
        BY <2>4, SerialOpen DEF StartRead
    <2>5. CASE PickupRead(q)
        <3>1. PICK b \in DOMAIN booking :
                /\ <<booking[b].status, "PICKEDUP">> \in DriverMoves
                /\ Opens(q, [at |-> "pickupSeen", booking |-> b])
            BY <2>5 DEF PickupRead
        <3>2. booking[b].status # "CANCELLED"
            BY <3>1 DEF BookingStatus
        <3> QED BY <3>1, <3>2, SerialOpen
    <2> QED BY <1>2, <2>1, <2>2, <2>3, <2>4, <2>5
<1>3. ASSUME NEW q \in Requests, BookCheck(q) PROVE Goal
    <2>1. request[q].at = "bookSeen" /\ EnoughSeats(request[q])
        BY <1>3 DEF BookCheck
    <2>2. tick.at = "idle" /\ \A o \in Requests \ {q} : request[o] = Idle
        BY <2>1 DEF SerialInv, OneAtATime, Idle
    <2>3. /\ \A o \in Requests \ {q} : request'[o] = Idle
          /\ request'[q].at = "bookChecked"
          /\ request'[q].ride = request[q].ride
          /\ request'[q].seats = request[q].seats
          /\ request'[q].seen = request[q].seen
          /\ UNCHANGED <<database, tick>>
        BY <1>3, <2>1, <2>2 DEF BookCheck, SerialInv, TypeOK, RequestState, Idle
    <2>4. request[q].seats \in Int /\ request[q].seen \in Int
        BY <2>1, SeatCountsAssumption DEF SerialInv, TypeOK, RequestState, Idle, MaxSeats
    <2>5. OneAtATime'
        BY <2>2, <2>3 DEF OneAtATime
    <2>6. StillTrue'
        BY <2>1, <2>2, <2>3, <2>4 DEF StillTrue, SerialInv, Idle, EnoughSeats, database
    <2>7. SeatMove
        BY <2>3, SeatsUntouched DEF SerialInv, database
    <2> QED BY <2>5, <2>6, <2>7
<1>4. ASSUME NEW q \in Requests, BookCommit(q) PROVE Goal
    <2> DEFINE ask == request[q]
               row == [ride |-> ask.ride, passenger |-> ask.passenger,
                       seats |-> ask.seats, status |-> "PENDING"]
    <2>1. PICK b \in BookingIds : NewBooking(b) /\ booking' = Put(booking, b, row)
        BY <1>4 DEF BookCommit
    <2>2. /\ ask.at = "bookChecked" /\ Closes(q) /\ UNCHANGED tick
          /\ availableSeats' = [availableSeats EXCEPT ![ask.ride] = ask.seen - ask.seats]
        BY <1>4 DEF BookCommit, SeatsAfterBooking
    <2>3. /\ ask \in [at: {"bookSeen", "bookChecked"}, ride: Rides,
                      passenger: Passengers, seats: SeatCounts, seen: Int]
          /\ ask.seen = availableSeats[ask.ride] /\ ask.seats <= ask.seen
        BY <2>2 DEF SerialInv, TypeOK, RequestState, Idle, StillTrue
    <2>4. row \in BookingRow /\ row.status # "CANCELLED" /\ row.ride = ask.ride
              /\ row.seats = ask.seats
        BY <2>3 DEF BookingRow, BookingStatus
    <2> HIDE DEF row
    <2>5. \A r \in Rides : HeldSeats(r)' = IF r = ask.ride THEN HeldSeats(r) + ask.seats
                                                           ELSE HeldSeats(r)
        BY <1>1, <2>1, <2>4, InsertHolds DEF SerialInv, NewBooking
    <2>6. Takes(ask.ride, ask.seats) /\ ask.ride \in Rides /\ ask.seats \in 1..MaxSeats
        BY <2>2, <2>3, <2>5, SeatCountsAssumption DEF Takes
    <2> QED BY <2>2, <2>6, SerialClose DEF Idle, SeatMove
<1>5. ASSUME NEW q \in Requests, CancelCommit(q) PROVE Goal
    <2> DEFINE b == request[q].booking
    <2>1. /\ request[q].at = "cancelSeen" /\ Closes(q) /\ UNCHANGED tick
          /\ SetStatus(b, "CANCELLED")
          /\ availableSeats' = [availableSeats EXCEPT
                                   ![booking[b].ride] = @ + booking[b].seats]
        BY <1>5 DEF CancelCommit, SeatsReturned
    <2>2. b \in DOMAIN booking /\ booking[b].status # "CANCELLED"
        BY <2>1 DEF SerialInv, Remembered, StillTrue
    <2> HIDE DEF b
    <2>3. \A r \in Rides :
              /\ HeldSeats(r)' \in Nat
              /\ HeldSeats(r)' = IF r = booking[b].ride THEN HeldSeats(r) - booking[b].seats
                                                        ELSE HeldSeats(r)
        BY <1>1, <2>1, <2>2, CancelFrees DEF SerialInv
    <2>4. booking[b].ride \in Rides /\ booking[b].seats \in 1..MaxSeats
        BY <2>2, SeatCountsAssumption DEF SerialInv, TypeOK, IsTable, BookingRow
    <2>5. booking[b].seats <= HeldSeats(booking[b].ride)
        <3>1. HeldSeats(booking[b].ride) \in Nat
            BY TakenFinite DEF SerialInv, TypeOK
        <3> QED BY <2>3, <2>4, <3>1 DEF MaxSeats
    <2>6. Gives(booking[b].ride, booking[b].seats)
        BY <2>1, <2>3, <2>5 DEF Gives
    <2> QED BY <2>1, <2>4, <2>6, SerialClose DEF Idle, SeatMove
<1>6. ASSUME NEW q \in Requests, JoinCommit(q) \/ StartCommit(q) \/ Fail(q) PROVE Goal
    <2>1. request[q] # Idle /\ Closes(q) /\ UNCHANGED <<availableSeats, booking, tick>>
        BY <1>6 DEF JoinCommit, StartCommit, Fail, Idle, database
    <2> QED BY <2>1, SerialClose, SeatsUntouched DEF SerialInv
<1>7. ASSUME NEW q \in Requests, PickupCommit(q) PROVE Goal
    <2> DEFINE b == request[q].booking
    <2>1. /\ request[q].at = "pickupSeen" /\ Closes(q) /\ UNCHANGED <<availableSeats, tick>>
          /\ booking' = [booking EXCEPT ![b].status = "PICKEDUP"]
        BY <1>7 DEF PickupCommit, SetStatus
    <2>2. b \in DOMAIN booking /\ booking[b].status # "CANCELLED"
        BY <2>1 DEF SerialInv, Remembered, StillTrue
    <2> HIDE DEF b
    <2>3. /\ DOMAIN booking' = DOMAIN booking
          /\ \A c \in DOMAIN booking :
                /\ booking'[c].ride = booking[c].ride
                /\ booking'[c].seats = booking[c].seats
                /\ booking[c].status = "CANCELLED" => booking'[c].status = "CANCELLED"
        BY <2>1, <2>2 DEF SerialInv, TypeOK, IsTable, BookingRow
    <2>4. SeatMove
        BY <1>1, <2>1, <2>3, StatusesKeepSeats
    <2> QED BY <2>1, <2>4, SerialClose DEF Idle
<1>8. ASSUME DriverUpdate PROVE Goal
    <2>1. PICK b \in DOMAIN booking, to \in BookingStatus :
              <<booking[b].status, to>> \in DriverMoves /\ SetStatus(b, to)
        BY <1>8 DEF DriverUpdate
    <2>2. booking[b].status # "CANCELLED"
        BY <2>1
    <2>3. /\ DOMAIN booking' = DOMAIN booking
          /\ \A c \in DOMAIN booking :
                /\ booking'[c].ride = booking[c].ride
                /\ booking'[c].seats = booking[c].seats
                /\ booking[c].status = "CANCELLED" => booking'[c].status = "CANCELLED"
        BY <2>1, <2>2 DEF SerialInv, TypeOK, IsTable, BookingRow, SetStatus
    <2>4. /\ tick.at = "idle" /\ \A o \in Requests : request[o] = Idle
          /\ UNCHANGED <<availableSeats, request, tick>>
        BY <1>8 DEF DriverUpdate, MayOpen, Quiet
    <2> QED BY <1>1, <2>3, <2>4, StatusesKeepSeats, SerialAlone
<1>9. ASSUME TickClean PROVE Goal
    <2>1. /\ \A o \in Requests : request[o] = Idle
          /\ tick'.at = "cleaned"
          /\ UNCHANGED <<availableSeats, booking, request>>
        BY <1>9 DEF TickClean, MayOpen, Quiet, SerialInv, TypeOK, TickState
    <2> QED BY <2>1, SerialAlone, SeatsUntouched DEF SerialInv
<1>10. ASSUME TickRead PROVE Goal
    <2>1. /\ \A o \in Requests : request[o] = Idle
          /\ tick'.left = availableSeats
          /\ UNCHANGED <<availableSeats, booking, request>>
        BY <1>10 DEF TickRead, database, SerialInv, OneAtATime
    <2> QED BY <2>1, SerialAlone, SeatsUntouched DEF SerialInv
<1>11. ASSUME NEW r \in Rides, TickPromote(r) PROVE Goal
    <2>1. PICK p \in tick.queue[r], b \in BookingIds : Promotion(r, p, b)
        BY <1>11, PromoteEffect DEF SerialInv
    <2> DEFINE n == waitlist[r][p].seats
               row == [ride |-> r, passenger |-> p, seats |-> n, status |-> "ACCEPTED"]
    <2>2. /\ tick.at = "promoting" /\ tick'.at = "promoting"
          /\ tick'.left = [tick.left EXCEPT ![r] = @ - n]
          /\ availableSeats' = [availableSeats EXCEPT ![r] = @ - n]
          /\ booking' = Put(booking, b, row) /\ b \notin DOMAIN booking
          /\ p \in DOMAIN waitlist[r] /\ n <= tick.left[r]
        BY <2>1 DEF Promotion, IsNext, Promotable, Waiting
    <2>3. /\ tick.left = availableSeats
          /\ \A o \in Requests : request[o] = Idle
          /\ UNCHANGED request
        BY <1>11, <2>2 DEF TickPromote, SerialInv, StillTrue, OneAtATime
    <2>4. waitlist[r][p] \in WaitingListRow
        BY <2>2, EntryType DEF SerialInv
    <2>5. n \in SeatCounts /\ n \in Nat
        <3>1. n \in SeatCounts
            BY <2>4 DEF WaitingListRow
        <3>2. SeatCounts \subseteq Nat
            BY SeatCountsAssumption DEF MaxSeats
        <3> QED BY <3>1, <3>2
    <2>6. row \in BookingRow /\ row.status # "CANCELLED" /\ row.ride = r /\ row.seats = n
        BY <2>2, <2>5 DEF BookingRow, BookingStatus, SerialInv, TypeOK, IsTable
    <2> HIDE DEF n, row
    <2>7. \A x \in Rides : HeldSeats(x)' = IF x = r THEN HeldSeats(x) + n ELSE HeldSeats(x)
        BY <1>1, <2>2, <2>6, InsertHolds DEF SerialInv
    <2>8. Takes(r, n) /\ n \in 1..MaxSeats
        BY <2>2, <2>3, <2>5, <2>7, SeatCountsAssumption DEF Takes
    <2> QED BY <2>2, <2>3, <2>8, SerialAlone DEF SeatMove
<1>12. ASSUME TickEnd \/ TickAbort PROVE Goal
    <2>1. /\ \A o \in Requests : request[o] = Idle
          /\ tick'.at = "idle"
          /\ UNCHANGED <<availableSeats, booking, request>>
        BY <1>12 DEF TickEnd, TickAbort, IdleTick, database, SerialInv, OneAtATime
    <2> QED BY <2>1, SerialAlone, SeatsUntouched DEF SerialInv
<1>13. ASSUME \/ TripCron \/ UNCHANGED vars \/ \E r \in Rides : TimePasses(r)
       PROVE Goal
    <2>1. UNCHANGED <<availableSeats, booking, request, tick>>
        BY <1>13 DEF TripCron, TimePasses, vars
    <2> QED BY <2>1, SeatsUntouched DEF SerialInv, OneAtATime, StillTrue
<1>14. ASSUME BookingCron PROVE Goal
    <2>1. /\ DOMAIN booking' = DOMAIN booking
          /\ \A c \in DOMAIN booking :
                booking'[c] \in {booking[c], [booking[c] EXCEPT !.status = "CANCELLED"]}
        BY <1>14 DEF BookingCron
    <2>2. \A c \in DOMAIN booking :
                /\ booking'[c].ride = booking[c].ride
                /\ booking'[c].seats = booking[c].seats
                /\ booking[c].status = "CANCELLED" => booking'[c].status = "CANCELLED"
        BY <2>1 DEF SerialInv, TypeOK, IsTable, BookingRow
    <2>3. /\ tick.at = "idle" /\ \A o \in Requests : request[o] = Idle
          /\ UNCHANGED <<availableSeats, request, tick>>
        BY <1>14 DEF BookingCron, MayOpen, Quiet
    <2> QED BY <1>1, <2>1, <2>2, <2>3, StatusesKeepSeats, SerialAlone
<1>15. OneAtATime' /\ StillTrue' /\ SeatMove
    BY <1>2, <1>3, <1>4, <1>5, <1>6, <1>7, <1>8, <1>9, <1>10, <1>11, <1>12, <1>13,
       <1>14 DEF Next
<1>16. NeverOversold'
    BY <1>1, <1>15, MoveKeepsSeats
<1> QED
    BY <1>1, <1>15, <1>16 DEF SerialInv

\* Every ride begins with all its seats free.
LEMMA InitSerial ==
    ASSUME Init
    PROVE  SerialInv /\ Account!Init
<1>1. TypeOK /\ Remembered
    BY InitType DEF Init, Remembered, Idle, IdleTick
<1>2. OneAtATime /\ StillTrue
    BY DEF Init, OneAtATime, StillTrue, Idle, IdleTick
<1>3. \A r \in Rides : HeldSeats(r) = 0
    <2> TAKE r \in Rides
    <2>1. TakenSeats(r) = {}
        BY DEF Init, TakenSeats
    <2> QED BY <2>1, FS_EmptySet, Zenon DEF HeldSeats
<1>4. NeverOversold
    BY <1>3, CapacityAssumption DEF Init, NeverOversold, MaxSeats
<1>5. Account!Init
    BY <1>3 DEF Init, Account!Init
<1> QED BY <1>1, <1>2, <1>4, <1>5 DEF SerialInv

\* Seat validation holds for handlers that do not overlap: for any rides,
\* passengers and seat counts, as long as no driver revives a cancelled booking.
THEOREM SerialNeverOversold ==
    ASSUME Serial = TRUE, \A s \in BookingStatus : <<"CANCELLED", s>> \notin DriverMoves
    PROVE  Spec => []NeverOversold
<1>1. Init => SerialInv
    BY InitSerial
<1>2. SerialInv /\ [Next]_vars => SerialInv'
    BY SerialStep
<1>3. SerialInv => NeverOversold
    BY DEF SerialInv
<1> QED
    BY <1>1, <1>2, <1>3, PTL DEF Spec

\* Under the same conditions the handlers, the driver and the crons together
\* keep the seat account: every step takes free seats, gives held ones back,
\* lets held ones lapse, or moves none.
THEOREM SerialKeepsAccount ==
    ASSUME Serial = TRUE, \A s \in BookingStatus : <<"CANCELLED", s>> \notin DriverMoves
    PROVE  Spec => ImplementsSeatAccount
<1>1. Init => SerialInv /\ Account!Init
    BY InitSerial
<1>2. SerialInv /\ [Next]_vars => SerialInv' /\ Account!Next
    BY SerialStep, MoveIsAccounted DEF SerialInv
<1> QED
    BY <1>1, <1>2, PTL DEF Spec, ImplementsSeatAccount, Account!Spec

\* A ride a request is about to start is still to be started.
StartsAreNew ==
    \A q \in Requests : request[q].at = "startSeen" => rideStatus[request[q].ride] = "SCHEDULED"

OnceInv == SerialInv /\ StartsAreNew

\* One handler at a time starts a ride once and cancels a booking once.
LEMMA OnceStep ==
    ASSUME OnceInv, Serial = TRUE,
           \A s \in BookingStatus : <<"CANCELLED", s>> \notin DriverMoves,
           [Next]_vars
    PROVE  /\ OnceInv'
           /\ \A r \in Rides : rideStatus'[r] # rideStatus[r] =>
                  <<rideStatus[r], rideStatus'[r]>> \in
                      {<<"SCHEDULED", "ONGOING">>, <<"ONGOING", "COMPLETED">>}
           /\ \A q \in Requests : CancelCommit(q) =>
                  booking[request[q].booking].status # "CANCELLED"
<1> DEFINE Once == \A r \in Rides : rideStatus'[r] # rideStatus[r] =>
                       <<rideStatus[r], rideStatus'[r]>> \in
                           {<<"SCHEDULED", "ONGOING">>, <<"ONGOING", "COMPLETED">>}
<1>1. SerialInv' /\ TypeOK /\ TypeOK'
    BY SerialStep DEF OnceInv, SerialInv
<1>2. \A q \in Requests : CancelCommit(q) => booking[request[q].booking].status # "CANCELLED"
    BY DEF CancelCommit, OnceInv, SerialInv, StillTrue
<1>3. \A q \in Requests :
          request'[q].at = "startSeen" => rideStatus[request'[q].ride] = "SCHEDULED"
    <2> SUFFICES ASSUME NEW q \in Requests, request'[q].at = "startSeen"
                 PROVE  rideStatus[request'[q].ride] = "SCHEDULED"
        OBVIOUS
    <2>1. CASE request'[q] = request[q]
        BY <2>1 DEF OnceInv, StartsAreNew
    <2>2. CASE \E r \in Rides : request'[q] = [at |-> "startSeen", ride |-> r] /\ MayStart(r)
        BY <2>2 DEF MayStart
    <2> QED BY <1>1, <2>1, <2>2, StartsSeen
<1>4. CASE UNCHANGED rideStatus
    BY <1>1, <1>2, <1>3, <1>4 DEF OnceInv, StartsAreNew
<1>5. CASE TripCron
    <2>1. /\ UNCHANGED request
          /\ \A r \in Rides :
                \/ rideStatus'[r] = rideStatus[r]
                \/ rideStatus[r] = "ONGOING" /\ rideStatus'[r] = "COMPLETED"
        BY <1>5 DEF TripCron, Over
    <2>2. \A q \in Requests : request'[q].at = "startSeen" => request'[q].ride \in Rides
        BY <1>1 DEF TypeOK, RequestState, Idle
    <2>3. StartsAreNew'
        BY <1>3, <2>1, <2>2 DEF StartsAreNew
    <2> QED BY <1>1, <1>2, <2>1, <2>3 DEF OnceInv
<1>6. ASSUME NEW q \in Requests, StartCommit(q) PROVE Once /\ StartsAreNew'
    <2>1. /\ request[q].at = "startSeen" /\ Closes(q) /\ UNCHANGED tick
          /\ rideStatus[request[q].ride] = "SCHEDULED"
          /\ rideStatus' = [rideStatus EXCEPT ![request[q].ride] = "ONGOING"]
        BY <1>6 DEF StartCommit, OnceInv, StartsAreNew
    <2>2. \A o \in Requests : request'[o] = Idle
        BY <1>1, <2>1 DEF OnceInv, SerialInv, OneAtATime, Closes, TypeOK, Idle
    <2>3. Once
        BY <1>1, <2>1 DEF TypeOK
    <2> QED BY <2>2, <2>3 DEF StartsAreNew, Idle
<1> QED
    BY <1>1, <1>2, <1>4, <1>5, <1>6, RideStatusKept DEF OnceInv

\* Under the same conditions a ride is started once and stays over once it is,
\* and a passenger's cancellation takes effect on a booking that holds seats.
THEOREM SerialHandlesOnce ==
    ASSUME Serial = TRUE, \A s \in BookingStatus : <<"CANCELLED", s>> \notin DriverMoves
    PROVE  Spec => HandledOnce
<1>1. Init => OnceInv
    BY InitSerial DEF OnceInv, StartsAreNew, Init, Idle
<1>2. OnceInv /\ [Next]_vars => OnceInv'
    BY OnceStep
<1>3. OnceInv /\ [Next]_vars =>
          [\A r \in Rides : rideStatus'[r] # rideStatus[r] =>
              <<rideStatus[r], rideStatus'[r]>> \in
                  {<<"SCHEDULED", "ONGOING">>, <<"ONGOING", "COMPLETED">>}]_vars
    BY OnceStep
<1>4. OnceInv /\ [Next]_vars =>
          [\A q \in Requests : CancelCommit(q) =>
              booking[request[q].booking].status # "CANCELLED"]_vars
    BY OnceStep
<1> QED
    BY <1>1, <1>2, <1>3, <1>4, PTL DEF Spec, HandledOnce, StartsOnce, CancelsOnce

\* Seats change hands only with a booking that is made or cancelled.
LEMMA SeatsOfKeptBookings ==
    ASSUME NEW r \in Rides, DOMAIN booking' = DOMAIN booking,
           \A b \in DOMAIN booking :
               /\ booking'[b].ride = booking[b].ride
               /\ booking'[b].seats = booking[b].seats
               /\ booking[b].ride = r =>
                      (booking'[b].status = "CANCELLED") = (booking[b].status = "CANCELLED")
    PROVE  HeldSeats(r)' = HeldSeats(r)
<1>1. TakenSeats(r)' = TakenSeats(r)
    BY DEF TakenSeats
<1> QED BY <1>1 DEF HeldSeats

\* SeatsConserved is kept too, when drivers cancel nothing: of the rides that
\* are not over no booking is cancelled but by its passenger.
ConservedInv == OnceInv /\ SeatsConserved /\ \A r \in Rides : rideStatus[r] # "CANCELLED"

LEMMA ConservedStep ==
    ASSUME ConservedInv, Serial = TRUE,
           \A s \in BookingStatus : /\ <<"CANCELLED", s>> \notin DriverMoves
                                    /\ <<s, "CANCELLED">> \notin DriverMoves,
           [Next]_vars
    PROVE  ConservedInv'
<1>1. OnceInv' /\ SerialInv /\ TypeOK /\ TypeOK' /\ SeatMove
    BY OnceStep, SerialStep DEF ConservedInv, OnceInv, SerialInv
<1>2. \A r \in Rides :
          /\ rideStatus[r] \in RideStatus
          /\ \/ rideStatus'[r] = rideStatus[r]
             \/ rideStatus[r] = "SCHEDULED" /\ rideStatus'[r] = "ONGOING"
             \/ rideStatus[r] = "ONGOING" /\ rideStatus'[r] = "COMPLETED"
    BY <1>1, OnceStep DEF ConservedInv, TypeOK
<1> DEFINE Kept(x) == availableSeats'[x] = availableSeats[x] /\ HeldSeats(x)' = HeldSeats(x)
           Total(x) == availableSeats[x] + HeldSeats(x)
           Moved == \E r \in Rides, n \in 1..MaxSeats : Takes(r, n) \/ Gives(r, n)
<1>3. ASSUME NEW q \in Requests, BookCommit(q) PROVE Moved
    <2>1. /\ request[q].at = "bookChecked"
          /\ availableSeats' = [availableSeats EXCEPT
                 ![request[q].ride] = request[q].seen - request[q].seats]
        BY <1>3 DEF BookCommit, SeatsAfterBooking
    <2>2. /\ request[q].ride \in Rides /\ request[q].seats \in 1..MaxSeats
          /\ request[q].seen = availableSeats[request[q].ride]
          /\ availableSeats[request[q].ride] \in Int
        BY <1>1, <2>1, SeatCountsAssumption
           DEF SerialInv, TypeOK, RequestState, Idle, StillTrue
    <2>3. availableSeats'[request[q].ride] # availableSeats[request[q].ride]
        BY <1>1, <2>1, <2>2 DEF TypeOK, MaxSeats
    <2> QED BY <1>1, <2>2, <2>3 DEF SeatMove, Lapses
<1>4. ASSUME NEW q \in Requests, CancelCommit(q) PROVE Moved
    <2> DEFINE b == request[q].booking
    <2>1. /\ request[q].at = "cancelSeen"
          /\ availableSeats' = [availableSeats EXCEPT
                                   ![booking[b].ride] = @ + booking[b].seats]
        BY <1>4 DEF CancelCommit, SeatsReturned
    <2>2. b \in DOMAIN booking
        BY <1>1, <2>1 DEF SerialInv, Remembered
    <2>3. booking[b].ride \in Rides /\ booking[b].seats \in 1..MaxSeats
        BY <1>1, <2>2, SeatCountsAssumption DEF TypeOK, IsTable, BookingRow
    <2>4. availableSeats'[booking[b].ride] # availableSeats[booking[b].ride]
        BY <1>1, <2>1, <2>3 DEF TypeOK, MaxSeats
    <2> QED BY <1>1, <2>3, <2>4 DEF SeatMove, Lapses
<1>5. ASSUME NEW r \in Rides, TickPromote(r) PROVE Moved
    <2>1. PICK p \in tick.queue[r], b \in BookingIds : Promotion(r, p, b)
        BY <1>1, <1>5, PromoteEffect DEF SerialInv
    <2>2. /\ availableSeats' = [availableSeats EXCEPT ![r] = @ - waitlist[r][p].seats]
          /\ p \in DOMAIN waitlist[r]
        BY <2>1 DEF Promotion, Waiting
    <2>3. waitlist[r][p] \in WaitingListRow
        BY <1>1, <2>2, EntryType
    <2>4. waitlist[r][p].seats \in 1..MaxSeats
        BY <2>3, SeatCountsAssumption DEF WaitingListRow
    <2>5. availableSeats'[r] # availableSeats[r]
        BY <1>1, <2>2, <2>4 DEF TypeOK, MaxSeats
    <2> QED BY <1>1, <2>5 DEF SeatMove, Lapses
<1>6. ASSUME DriverUpdate \/ \E q \in Requests : PickupCommit(q)
      PROVE  \A x \in Rides : Kept(x)
    <2>1. PICK b \in DOMAIN booking, to \in BookingStatus \ {"CANCELLED"} :
              /\ booking[b].status # "CANCELLED"
              /\ booking' = [booking EXCEPT ![b].status = to]
              /\ UNCHANGED availableSeats
        <3>1. CASE DriverUpdate
            <4>1. PICK b \in DOMAIN booking, to \in BookingStatus \ {"PICKEDUP"} :
                      /\ <<booking[b].status, to>> \in DriverMoves
                      /\ SetStatus(b, to)
                BY <3>1 DEF DriverUpdate
            <4>2. booking[b].status \in BookingStatus
                BY <1>1 DEF TypeOK, IsTable, BookingRow
            <4>3. booking[b].status # "CANCELLED" /\ to # "CANCELLED"
                BY <4>1, <4>2
            <4>4. UNCHANGED availableSeats
                BY <3>1 DEF DriverUpdate
            <4> QED BY <4>1, <4>3, <4>4 DEF SetStatus
        <3>2. ASSUME NEW q \in Requests, PickupCommit(q)
              PROVE  /\ request[q].booking \in DOMAIN booking
                     /\ booking[request[q].booking].status # "CANCELLED"
                     /\ booking' = [booking EXCEPT ![request[q].booking].status = "PICKEDUP"]
                     /\ UNCHANGED availableSeats
            BY <1>1, <3>2 DEF PickupCommit, SetStatus, SerialInv, Remembered, StillTrue
        <3>3. "PICKEDUP" \in BookingStatus \ {"CANCELLED"}
            BY DEF BookingStatus
        <3>4. CASE \E q \in Requests : PickupCommit(q)
            BY <3>2, <3>3, <3>4
        <3> QED BY <1>6, <3>1, <3>4
    <2>2. /\ DOMAIN booking' = DOMAIN booking
          /\ \A c \in DOMAIN booking :
                /\ booking'[c].ride = booking[c].ride
                /\ booking'[c].seats = booking[c].seats
                /\ (booking'[c].status = "CANCELLED") = (booking[c].status = "CANCELLED")
        BY <1>1, <2>1 DEF TypeOK, IsTable, BookingRow
    <2> QED BY <2>1, <2>2, SeatsOfKeptBookings
<1>7. ASSUME BookingCron, NEW x \in Rides, rideStatus[x] # "COMPLETED" PROVE Kept(x)
    <2>1. /\ UNCHANGED availableSeats /\ DOMAIN booking' = DOMAIN booking
          /\ \A c \in DOMAIN booking :
                booking'[c] = IF Unanswered(c) THEN [booking[c] EXCEPT !.status = "CANCELLED"]
                                               ELSE booking[c]
        BY <1>7 DEF BookingCron
    <2>2. \A c \in DOMAIN booking : booking[c].ride = x => ~Unanswered(c)
        BY <1>7 DEF Unanswered, ConservedInv
    <2>3. \A c \in DOMAIN booking :
                /\ booking'[c].ride = booking[c].ride
                /\ booking'[c].seats = booking[c].seats
                /\ booking[c].ride = x => booking'[c] = booking[c]
        BY <1>1, <2>1, <2>2 DEF TypeOK, IsTable, BookingRow
    <2> QED BY <2>1, <2>3, SeatsOfKeptBookings
<1>9. \/ \E q \in Requests : BookCommit(q) \/ CancelCommit(q)
      \/ \E r \in Rides : TickPromote(r)
      \/ DriverUpdate \/ \E q \in Requests : PickupCommit(q)
      \/ BookingCron
      \/ UNCHANGED <<availableSeats, booking>>
    BY DEF Next, vars, database, BookRead, BookCheck, CancelRead, JoinRead, JoinCommit,
           StartRead, StartCommit, PickupRead, Opens, Fail, TickClean, TickRead, TickEnd,
           TickAbort, TimePasses, TripCron
<1>10. Moved => \A x \in Rides : Total(x)' = Total(x)
    <2> SUFFICES ASSUME NEW r \in Rides, NEW n \in 1..MaxSeats, Takes(r, n) \/ Gives(r, n),
                        NEW x \in Rides
                 PROVE  Total(x)' = Total(x)
        OBVIOUS
    <2>1. HeldSeats(x) \in Nat /\ availableSeats[x] \in Int
        BY <1>1, TakenFinite DEF TypeOK
    <2> QED BY <1>1, <2>1 DEF Takes, Gives, TypeOK, MaxSeats
<1>11. \A x \in Rides : rideStatus[x] # "COMPLETED" => Total(x)' = Total(x)
    <2>1. CASE Moved
        BY <1>10, <2>1
    <2>2. CASE UNCHANGED <<availableSeats, booking>>
        BY <2>2 DEF HeldSeats, TakenSeats
    <2>3. CASE BookingCron
        BY <1>7, <2>3
    <2>4. CASE DriverUpdate \/ \E q \in Requests : PickupCommit(q)
        BY <1>6, <2>4
    <2> QED BY <1>3, <1>4, <1>5, <1>9, <2>1, <2>2, <2>3, <2>4
<1>12. SeatsConserved'
    BY <1>2, <1>11 DEF ConservedInv, SeatsConserved
<1> QED BY <1>1, <1>2, <1>12 DEF ConservedInv

\* No seat leaks: while handlers do not overlap and no driver cancels or revives
\* a booking, every seat of a ride that is not over is free or held.
THEOREM SerialConservesSeats ==
    ASSUME Serial = TRUE,
           \A s \in BookingStatus : /\ <<"CANCELLED", s>> \notin DriverMoves
                                    /\ <<s, "CANCELLED">> \notin DriverMoves
    PROVE  Spec => []SeatsConserved
<1>1. Init => ConservedInv
    <2> SUFFICES ASSUME Init PROVE ConservedInv
        OBVIOUS
    <2>1. OnceInv
        BY InitSerial DEF OnceInv, StartsAreNew, Init, Idle
    <2>2. \A r \in Rides : HeldSeats(r) = 0 /\ availableSeats[r] = Capacity
        BY InitSerial DEF Account!Init, Init
    <2> QED BY <2>1, <2>2, CapacityAssumption
            DEF ConservedInv, SeatsConserved, Init, MaxSeats
<1>2. ConservedInv /\ [Next]_vars => ConservedInv'
    BY ConservedStep
<1>3. ConservedInv => SeatsConserved
    BY DEF ConservedInv
<1> QED
    BY <1>1, <1>2, <1>3, PTL DEF Spec

\* What the open handler has found out of the bookings and of the queue.
FreshReads ==
    \A q \in Requests :
        /\ request[q].at = "bookChecked" =>
               ~AlreadyBooked(request[q].ride, request[q].passenger)
        /\ request[q].at = "joinSeen" => request[q].count = EntryCount(request[q].ride)

QueueInv == OnceInv /\ FreshReads /\ SecondBookingFromWaitlist /\ PositionIsRank

\* Handlers one at a time never act on an old read.
LEMMA FreshStep ==
    ASSUME SerialInv, FreshReads, Serial = TRUE, [Next]_vars
    PROVE  FreshReads'
<1>1. ASSUME NEW q \in Requests,
             \/ BookRead(q) \/ CancelRead(q) \/ JoinRead(q) \/ StartRead(q) \/ PickupRead(q)
      PROVE  FreshReads'
    <2>1. PICK state : /\ Opens(q, state)
                       /\ state.at # "bookChecked"
                       /\ state.at = "joinSeen" => state.count = EntryCount(state.ride)
        <3>1. CASE BookRead(q)
            BY <3>1 DEF BookRead
        <3>2. CASE CancelRead(q)
            BY <3>2 DEF CancelRead
        <3>3. CASE JoinRead(q)
            BY <3>3 DEF JoinRead
        <3>4. CASE StartRead(q)
            BY <3>4 DEF StartRead
        <3>5. CASE PickupRead(q)
            BY <3>5 DEF PickupRead
        <3> QED BY <1>1, <3>1, <3>2, <3>3, <3>4, <3>5
    <2>2. /\ \A o \in Requests \ {q} : request'[o] = Idle
          /\ request'[q] = state /\ UNCHANGED waitlist
        BY <2>1 DEF Opens, MayOpen, Quiet, database, SerialInv, TypeOK
    <2> QED BY <2>1, <2>2 DEF FreshReads, EntryCount, Idle
<1>2. ASSUME NEW q \in Requests, BookCheck(q) PROVE FreshReads'
    <2>1. \A o \in Requests \ {q} : request[o] = Idle
        BY <1>2 DEF BookCheck, SerialInv, OneAtATime, Idle
    <2>2. /\ \A o \in Requests \ {q} : request'[o] = Idle
          /\ request'[q].at = "bookChecked"
          /\ request'[q].ride = request[q].ride
          /\ request'[q].passenger = request[q].passenger
          /\ ~AlreadyBooked(request[q].ride, request[q].passenger)
          /\ UNCHANGED <<booking, waitlist>>
        BY <1>2, <2>1 DEF BookCheck, SerialInv, TypeOK, RequestState, Idle, database
    <2> QED BY <2>2 DEF FreshReads, AlreadyBooked, Idle
<1>3. ASSUME NEW q \in Requests,
             \/ BookCommit(q) \/ CancelCommit(q) \/ JoinCommit(q)
             \/ StartCommit(q) \/ PickupCommit(q) \/ Fail(q)
      PROVE  FreshReads'
    <2>1. request[q] # Idle /\ Closes(q)
        BY <1>3 DEF BookCommit, CancelCommit, JoinCommit, StartCommit, PickupCommit, Fail, Idle
    <2>2. \A o \in Requests : request'[o] = Idle
        BY <2>1 DEF Closes, SerialInv, OneAtATime, TypeOK
    <2> QED BY <2>2 DEF FreshReads, Idle
<1>4. ASSUME \/ DriverUpdate \/ TickClean \/ TickRead \/ TickEnd \/ TickAbort
             \/ TripCron \/ BookingCron \/ \E r \in Rides : TickPromote(r)
      PROVE  FreshReads'
    <2>1. UNCHANGED request /\ \A o \in Requests : request[o] = Idle
        BY <1>4 DEF DriverUpdate, TickClean, TickRead, TickEnd, TickAbort, TickPromote,
                    TripCron, BookingCron, MayOpen, Quiet, SerialInv, OneAtATime
    <2> QED BY <2>1 DEF FreshReads, Idle
<1>5. ASSUME UNCHANGED vars \/ \E r \in Rides : TimePasses(r) PROVE FreshReads'
    <2>1. UNCHANGED <<request, booking, waitlist>>
        BY <1>5 DEF vars, TimePasses
    <2> QED BY <2>1 DEF FreshReads, AlreadyBooked, EntryCount
<1> QED
    BY <1>1, <1>2, <1>3, <1>4, <1>5 DEF Next

\* Who has left the queue of a ride has left it for ever.
LEMMA LeftForEver ==
    ASSUME TypeOK, Remembered, [Next]_vars, NEW r \in Rides
    PROVE  (DOMAIN waitlist[r] \ Waiting(r)) \subseteq (DOMAIN waitlist[r] \ Waiting(r))'
<1>1. CASE UNCHANGED waitlist
    BY <1>1 DEF Waiting
<1>2. ASSUME NEW q \in Requests, JoinCommit(q)
      PROVE  (DOMAIN waitlist[r] \ Waiting(r)) \subseteq (DOMAIN waitlist[r] \ Waiting(r))'
    BY <1>2, JoinEffect DEF Waiting
<1>3. CASE TickClean
    <2>1. waitlist'[r] = waitlist[r]
              \/ waitlist'[r] = Restrict(waitlist[r], DOMAIN waitlist[r] \ Waiting(r))
        BY <1>3 DEF TickClean
    <2> QED BY <2>1 DEF Restrict, Waiting
<1>4. ASSUME NEW x \in Rides, TickPromote(x)
      PROVE  (DOMAIN waitlist[r] \ Waiting(r)) \subseteq (DOMAIN waitlist[r] \ Waiting(r))'
    <2>1. PICK p \in tick.queue[x], b \in BookingIds : Promotion(x, p, b)
        BY <1>4, PromoteEffect
    <2>2. /\ DOMAIN waitlist'[r] = DOMAIN waitlist[r]
          /\ \A o \in DOMAIN waitlist[r] : waitlist[r][o].status # "WAITING" =>
                 waitlist'[r][o] = waitlist[r][o]
        BY <2>1 DEF Promotion, Waiting
    <2> QED BY <2>2 DEF Waiting
<1>5. TickRead \/ TickEnd \/ TickAbort => UNCHANGED waitlist
    BY DEF TickRead, TickEnd, TickAbort, database
<1> QED BY <1>1, <1>2, <1>3, <1>4, <1>5, WaitlistSteps

\* Only a booking request and a promotion create bookings.
LEMMA BookingsMade ==
    ASSUME TypeOK, [Next]_vars
    PROVE  \/ DOMAIN booking' = DOMAIN booking
           \/ \E q \in Requests : BookCommit(q)
           \/ \E r \in Rides : TickPromote(r)
<1>1. ASSUME NEW q \in Requests, CancelCommit(q) \/ PickupCommit(q)
      PROVE  DOMAIN booking' = DOMAIN booking
    BY <1>1 DEF CancelCommit, PickupCommit, SetStatus
<1>2. DriverUpdate \/ BookingCron => DOMAIN booking' = DOMAIN booking
    BY DEF DriverUpdate, SetStatus, BookingCron
<1>3. \/ UNCHANGED booking
      \/ \E q \in Requests : BookCommit(q) \/ CancelCommit(q) \/ PickupCommit(q)
      \/ \E r \in Rides : TickPromote(r)
      \/ DriverUpdate \/ BookingCron
    BY DEF Next, vars, database, BookRead, BookCheck, CancelRead, JoinRead, JoinCommit,
           StartRead, StartCommit, PickupRead, Opens, Fail, TickClean, TickRead, TickEnd,
           TickAbort, TimePasses, TripCron
<1> QED BY <1>1, <1>2, <1>3

\* A second booking of the same ride comes from the queue.
LEMMA SecondStep ==
    ASSUME QueueInv, [Next]_vars
    PROVE  SecondBookingFromWaitlist'
<1>1. TypeOK /\ Remembered /\ FreshReads /\ SecondBookingFromWaitlist
    BY DEF QueueInv, OnceInv, SerialInv
<1>2. \A b \in DOMAIN booking :
          /\ b \in DOMAIN booking' /\ booking[b].ride \in Rides
          /\ booking'[b].ride = booking[b].ride
          /\ booking'[b].passenger = booking[b].passenger
    BY <1>1, RowsKept DEF TypeOK, IsTable, BookingRow
<1> DEFINE Left(r) == DOMAIN waitlist[r] \ Waiting(r)
           LeftNow(r) == {p \in DOMAIN waitlist'[r] : waitlist'[r][p].status # "WAITING"}
<1>3. \A r \in Rides : Left(r) \subseteq LeftNow(r)
    BY <1>1, LeftForEver DEF Waiting
<1> SUFFICES ASSUME NEW b \in DOMAIN booking', NEW c \in DOMAIN booking', b # c,
                    booking'[c].ride = booking'[b].ride,
                    booking'[c].passenger = booking'[b].passenger
             PROVE  booking'[b].passenger \in LeftNow(booking'[b].ride)
    BY DEF SecondBookingFromWaitlist, Waiting
<1>4. CASE b \in DOMAIN booking /\ c \in DOMAIN booking
    <2>1. booking[b].passenger \in Left(booking[b].ride)
        BY <1>1, <1>2, <1>4 DEF SecondBookingFromWaitlist
    <2> QED BY <1>2, <1>3, <1>4, <2>1
<1>5. ASSUME NEW q \in Requests, BookCommit(q), ~(b \in DOMAIN booking /\ c \in DOMAIN booking)
      PROVE  FALSE
    <2>1. PICK n \in BookingIds : booking' = Put(booking, n,
              [ride |-> request[q].ride, passenger |-> request[q].passenger,
               seats |-> request[q].seats, status |-> "PENDING"])
        BY <1>5 DEF BookCommit
    <2>2. /\ DOMAIN booking' = DOMAIN booking \cup {n}
          /\ booking'[n].ride = request[q].ride
          /\ booking'[n].passenger = request[q].passenger
        BY <2>1 DEF Put
    <2>3. \A d \in DOMAIN booking : ~(booking[d].ride = request[q].ride
                                        /\ booking[d].passenger = request[q].passenger)
        BY <1>1, <1>5 DEF BookCommit, FreshReads, AlreadyBooked
    <2> QED BY <1>2, <1>5, <2>2, <2>3
<1>6. ASSUME NEW r \in Rides, TickPromote(r), ~(b \in DOMAIN booking /\ c \in DOMAIN booking)
      PROVE  booking'[b].passenger \in LeftNow(booking'[b].ride)
    <2>1. PICK p \in tick.queue[r], n \in BookingIds : Promotion(r, p, n)
        BY <1>1, <1>6, PromoteEffect
    <2>2. /\ DOMAIN booking' = DOMAIN booking \cup {n}
          /\ booking'[n].ride = r /\ booking'[n].passenger = p
        BY <2>1 DEF Promotion, Put
    <2>3. p \in DOMAIN waitlist[r] /\ waitlist[r][p] \in WaitingListRow
        BY <1>1, <2>1, EntryType DEF Promotion, Waiting
    <2>4. p \in DOMAIN waitlist'[r] /\ waitlist'[r][p].status = "ACCEPTED"
        BY <2>1, <2>3 DEF Promotion, WaitingListRow
    <2>5. p \in LeftNow(r)
        BY <2>4 DEF Waiting
    <2>6. booking'[b].ride = r /\ booking'[b].passenger = p
        BY <1>6, <2>2
    <2> QED BY <2>5, <2>6
<1> QED BY <1>1, <1>4, <1>5, <1>6, BookingsMade

\* The entries of r that p has no rank before.
Rank(r, p) == {o \in DOMAIN waitlist[r] : waitlist[r][o].createdAt <= waitlist[r][p].createdAt}

\* A join goes to the end of the queue, and nothing else changes a rank.
LEMMA RankStep ==
    ASSUME QueueInv, [Next]_vars,
           \A r \in Rides : rideStatus'[r] = "SCHEDULED" => rideStatus[r] = "SCHEDULED"
    PROVE  PositionIsRank'
<1>1. TypeOK /\ Remembered /\ FreshReads
    BY DEF QueueInv, OnceInv, SerialInv
<1>2. \A r \in Rides : rideStatus[r] = "SCHEDULED" =>
          \A p \in DOMAIN waitlist[r] : waitlist[r][p].position = Cardinality(Rank(r, p))
    BY DEF QueueInv, PositionIsRank, Rank
<1> SUFFICES ASSUME NEW r \in Rides, rideStatus[r] = "SCHEDULED", NEW p \in DOMAIN waitlist'[r]
             PROVE  waitlist'[r][p].position = Cardinality(Rank(r, p)')
    BY DEF PositionIsRank, Rank
<1> DEFINE Kept == /\ DOMAIN waitlist'[r] = DOMAIN waitlist[r]
                   /\ \A o \in DOMAIN waitlist[r] :
                         /\ waitlist'[r][o].createdAt = waitlist[r][o].createdAt
                         /\ waitlist'[r][o].position = waitlist[r][o].position
<1>3. CASE Kept
    <2>1. Rank(r, p)' = Rank(r, p)
        BY <1>3 DEF Rank
    <2> QED BY <1>2, <1>3, <2>1
<1>4. ASSUME UNCHANGED waitlist \/ TickRead \/ TickEnd \/ TickAbort PROVE Kept
    BY <1>4 DEF TickRead, TickEnd, TickAbort, database
<1>5. ASSUME TickClean PROVE Kept
    BY <1>5 DEF TickClean, Departed
<1>6. ASSUME NEW x \in Rides, TickPromote(x) PROVE Kept
    <2>1. PICK o \in tick.queue[x], b \in BookingIds : Promotion(x, o, b)
        BY <1>1, <1>6, PromoteEffect
    <2>2. o \in DOMAIN waitlist[x] /\ waitlist[x][o] \in WaitingListRow
        BY <1>1, <2>1, EntryType DEF Promotion, Waiting
    <2>3. /\ waitlist'[x][o].createdAt = waitlist[x][o].createdAt
          /\ waitlist'[x][o].position = waitlist[x][o].position
        BY <2>1, <2>2 DEF Promotion, WaitingListRow
    <2>4. /\ DOMAIN waitlist'[r] = DOMAIN waitlist[r]
          /\ \A y \in DOMAIN waitlist[r] : x # r \/ y # o => waitlist'[r][y] = waitlist[r][y]
        BY <2>1 DEF Promotion
    <2> QED BY <2>3, <2>4
<1>7. ASSUME NEW q \in Requests, JoinCommit(q)
      PROVE  waitlist'[r][p].position = Cardinality(Rank(r, p)')
    <2>1. PICK x \in Rides, n \in Passengers, t \in JoinTimes :
              /\ n \notin DOMAIN waitlist[x]
              /\ \A o \in DOMAIN waitlist[x] : waitlist[x][o].createdAt < t
              /\ DOMAIN waitlist'[x] = DOMAIN waitlist[x] \cup {n}
              /\ waitlist'[x][n].createdAt = t
              /\ waitlist'[x][n].position = request[q].count + 1 /\ request[q].ride = x
              /\ \A o \in DOMAIN waitlist[x] : waitlist'[x][o] = waitlist[x][o]
              /\ \A y \in Rides \ {x} : waitlist'[y] = waitlist[y]
        BY <1>1, <1>7, JoinEffect
    <2>2. request[q].count = EntryCount(x)
        BY <1>1, <1>7, <2>1 DEF JoinCommit, FreshReads
    <2>3. \A o \in DOMAIN waitlist[r] : waitlist[r][o].createdAt \in Int
        BY <1>1, EntryType
    <2>4. t \in Int
        BY JoinTimesAssumption
    <2>5. CASE x # r
        <3>1. Kept
            BY <2>1, <2>5
        <3> QED BY <1>3, <3>1
    <2>6. CASE x = r /\ p = n
        <3>1. Rank(r, p)' = DOMAIN waitlist[r] \cup {n}
            BY <2>1, <2>3, <2>4, <2>6 DEF Rank
        <3>2. IsFiniteSet(DOMAIN waitlist[r])
            BY <1>1, PassengersAssumption, FS_Subset DEF TypeOK, IsTable
        <3>3. Cardinality(DOMAIN waitlist[r] \cup {n}) = Cardinality(DOMAIN waitlist[r]) + 1
            BY <2>1, <2>6, <3>2, FS_AddElement
        <3>4. waitlist'[r][p].position = Cardinality(DOMAIN waitlist[r]) + 1
            BY <2>1, <2>2, <2>6 DEF EntryCount
        <3> QED BY <3>1, <3>3, <3>4
    <2>7. CASE x = r /\ p # n
        <3>1. p \in DOMAIN waitlist[r]
            BY <2>1, <2>7
        <3>2. Rank(r, p)' = Rank(r, p)
            BY <2>1, <2>3, <2>4, <2>7, <3>1 DEF Rank
        <3>3. waitlist'[r][p].position = waitlist[r][p].position
            BY <2>1, <2>7, <3>1
        <3> QED BY <1>2, <3>1, <3>2, <3>3
    <2> QED BY <2>5, <2>6, <2>7
<1> QED BY <1>3, <1>4, <1>5, <1>6, <1>7, WaitlistSteps

\* QueueInv holds of a fresh database.
LEMMA QueueInit ==
    ASSUME Init
    PROVE  QueueInv
<1>1. OnceInv
    BY InitSerial DEF OnceInv, StartsAreNew, Init, Idle
<1>2. FreshReads /\ SecondBookingFromWaitlist /\ PositionIsRank
    BY DEF Init, FreshReads, SecondBookingFromWaitlist, PositionIsRank, Idle
<1> QED BY <1>1, <1>2 DEF QueueInv

\* QueueInv is inductive for handlers one at a time.
LEMMA QueueStep ==
    ASSUME QueueInv, Serial = TRUE,
           \A s \in BookingStatus : <<"CANCELLED", s>> \notin DriverMoves,
           [Next]_vars
    PROVE  QueueInv'
<1>1. OnceInv' /\ \A r \in Rides : rideStatus'[r] = "SCHEDULED" => rideStatus[r] = "SCHEDULED"
    BY OnceStep DEF QueueInv
<1>2. FreshReads'
    BY FreshStep DEF QueueInv, OnceInv
<1> QED BY <1>1, <1>2, SecondStep, RankStep DEF QueueInv

\* While handlers do not overlap and no driver revives a booking, nobody has two
\* bookings of a ride but through its queue.
THEOREM SerialSecondBookings ==
    ASSUME Serial = TRUE, \A s \in BookingStatus : <<"CANCELLED", s>> \notin DriverMoves
    PROVE  Spec => []SecondBookingFromWaitlist
<1>1. Init => QueueInv
    BY QueueInit
<1>2. QueueInv /\ [Next]_vars => QueueInv'
    BY QueueStep
<1>3. QueueInv => SecondBookingFromWaitlist
    BY DEF QueueInv
<1> QED
    BY <1>1, <1>2, <1>3, PTL DEF Spec

\* Under the same conditions the position written at a join is the rank of the
\* entry by age for as long as the ride has not left.
THEOREM SerialPositions ==
    ASSUME Serial = TRUE, \A s \in BookingStatus : <<"CANCELLED", s>> \notin DriverMoves
    PROVE  Spec => []PositionIsRank
<1>1. Init => QueueInv
    BY QueueInit
<1>2. QueueInv /\ [Next]_vars => QueueInv'
    BY QueueStep
<1>3. QueueInv => PositionIsRank
    BY DEF QueueInv
<1> QED
    BY <1>1, <1>2, <1>3, PTL DEF Spec
==============================================================================
