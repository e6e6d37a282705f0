SPECIFICATION Spec
INVARIANTS TypeOK NoOverlap ApprovedTogether FetchedRoute PagesCoverTheList FareOfTheWay SamePriceFromWaitlist
\* A list that was paged to its end, and a request both have answered, have no step left.
CHECK_DEADLOCK FALSE
CONSTANTS
    None = None
    \* Two rides anywhere in three instants.
    Drivers = {"d1"}
    Rides = {1, 2}
    MaxTime = 2
    Requests = {"q1"}
    \* Two administrators and the driver at the documents.
    FewerRides = {1}
    Reviewers = {"q1", "q2", "q3"}
    Retries = 3
    MaxSteps = 3
    MaxPoints = 2
    Names = {"n1", "n2", "n3"}
    Blocked = "blocked"
    Rows = {1, 2, 3}
    Kinds = {"feed", "search", "table", "chats", "admin"}
    AnyKinds = {"feed", "search", "ofType", "admin"}
    \* The order of creation; a sort on a field that changes may lose or repeat a ride.
    Sorts = {"newest", "oldest"}
    Radius = 1
    MaxDistance = 2
    DefaultLimit = 1
    MaxLimit = 2
    Limits = {0, 2}
    ShorterDistance = 1
    AnyLimits = {0, 3}
    \* Every route of up to four points in a street of five places.
    Places = {0, 1, 2, 3, 4}
    ZeroPlace = 0
    Distance <- AlongStreet
    MaxStops = 2
    MaxSeats = 2
    PricePerKm = 3
    BOOKING_THRESHOLD_KM = 1
    SAME_LOCATION_THRESHOLD_KM = 1
