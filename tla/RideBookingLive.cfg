SPECIFICATION FairSpec
CONSTANTS
    Rides = {r1}
    Passengers = {p1, p2}
    BookingIds <- UpTo4
    Requests = {q1}
    Capacity = 1
    SeatCounts <- OneSeat
    JoinTimes <- UpTo2
    SeatBound = 1
    DriverMoves <- NoMoves
    Serial = FALSE
PROPERTIES CronsCloseRides LeftoversDeleted FittingEntryServed
