SPECIFICATION Spec
INVARIANTS TypeOK RowsAgree PaidByItsOwnPayment EmailsNeitherTwiceNorLost NothingMissed NoSecondRow
PROPERTIES PaidUntilMoneyBack
\* A refunded booking, and a ride everybody has reviewed, have no step left.
CHECK_DEADLOCK FALSE
CONSTANTS
    None = None
    \* Two bookings of either mode, refunds at every tier; one booking paid twice.
    Bookings = {"b1", "b2"}
    Orders = {1, 2}
    PaymentAttempts = {1, 2}
    Modes = {"ADVANCE", "COD"}
    Notice = {24, 12, 6, 5}
    FewerBookings = {"b1"}
    FewerAttempts = {1}
    FewerModes = {"ADVANCE"}
    FewerNotice = {12}
    \* Emails with a code and without, two outages of Redis and a restart.
    Emails = {"e1", "e2", "e3"}
    FewerEmails = {"e1", "e2"}
    Codes = {"e1"}
    Cooldown = 1
    Outages = 2
    Restarts = 1
    \* The rows of two chats, and the sockets of one whose history is cut.
    Rides = {"r1", "r2"}
    FewerRides = {"r1"}
    Driver = "driver"
    Passengers = {"p1"}
    Chats = {1, 2}
    FewerChats = {1}
    MaxMessages = 3
    FewerMessages = 1
    Recent = 1
    Raters = {"u1", "u2", "u3"}
    MaxReviews = 2
    MaxBookings = 2
    Requests = {"q1", "q2"}
    FewerRequests = {"q1"}
