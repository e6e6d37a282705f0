SPECIFICATION Spec
CONSTANTS
    Rides = {r1}
    Passengers = {p1, p2}
    BookingIds <- UpTo3
    Requests = {q1}
    Capacity = 2
    SeatCounts <- OneOrTwoSeats
    JoinTimes <- UpTo2
    SeatBound = 4
    DriverMoves <- UsualMovesAndCancel
    Serial = TRUE
SYMMETRY Symmetry
INVARIANTS TypeOK NeverOversold
PROPERTIES ImplementsSeatAccount HandledOnce
