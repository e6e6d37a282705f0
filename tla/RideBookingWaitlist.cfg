SPECIFICATION Spec
CONSTANTS
    Rides = {r1}
    Passengers = {p1, p2}
    BookingIds <- UpTo4
    Requests = {q1}
    Capacity = 2
    SeatCounts <- OneOrTwoSeats
    JoinTimes <- UpTo2
    SeatBound = 2
    DriverMoves <- NoMoves
    Serial = FALSE
SYMMETRY Symmetry
INVARIANTS OvertakenAskedMore
PROPERTIES EachEntryPromotedOnce
