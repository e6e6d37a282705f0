SPECIFICATION Spec
CONSTANTS
    Rides = {r1}
    Passengers = {p1, p2}
    BookingIds <- UpTo2
    Requests = {q1, q2}
    Capacity = 1
    SeatCounts <- OneSeat
    JoinTimes <- UpTo1
    SeatBound = 1
    DriverMoves <- NoMoves
    Serial = FALSE
SYMMETRY Symmetry
INVARIANTS NeverOversold
