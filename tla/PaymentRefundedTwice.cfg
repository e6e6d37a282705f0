SPECIFICATION Spec
PROPERTY RefundsPaidBooking
CONSTANTS
    Bookings = {b1}
    Orders = {1}
    Attempts = {1}
    Requests = {q1, q2}
    Modes = {"ADVANCE"}
    Notice = {6}
    Failures = FALSE
    Redelivery = FALSE
    Serial = FALSE
    None = None
CHECK_DEADLOCK FALSE
