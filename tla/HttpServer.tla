------------------------------ MODULE HttpServer ------------------------------
(***************************************************************************)
(* What every request goes through (index.ts): the health check, the two   *)
(* rate limiters, a handler, and the status errorResponseStandard (utils/  *)
(* response.utils) gives to what the handler threw; and the start of the   *)
(* crons and the worker.  A handler is an outcome here: the other modules  *)
(* are about what it does.  express-rate-limit counts the requests of a    *)
(* client in windows of 15 minutes.                                        *)
(***************************************************************************)
EXTENDS Naturals, FiniteSets

CONSTANTS
    Clients,      \* IP addresses
    GeneralMax, AuthMax,   \* 100 and 10 in the code
    None

Assumptions == {GeneralMax, AuthMax} \subseteq Nat

VARIABLES
    database,  \* "connecting", "connected" or "failed": prisma.$connect()
    jobs,      \* whether the crons and the email worker run
    hits,      \* per limiter and client the requests of its window
    handled,   \* history: per kind and client the handlers of its window
    answer     \* the last answer: client, kind, outcome and status

vars == <<database, jobs, hits, handled, answer>>

Kinds == {"health", "webhook", "auth", "other"}
Limiters == {"general", "auth"}

(* What a handler throws: an error of its validation or of Prisma, or one  *)
(* with a message.                                                         *)
Conflicts == {"ALREADY_EXISTS", "ALREADY_IN_WAITLIST", "BOOKING_ALREADY_CANCELLED",
    "CAR_ALREADY_EXISTS", "COD_PAYMENT_MODE", "COD_REFUND_NOT_ALLOWED",
    "EMAIL_ALREADY_EXISTS", "PAYMENT_ALREADY_MADE", "SEATS_AVAILABLE",
    "TRIP_ALREADY_BOOKED", "TRIP_COMPLETED", "TRIP_NOT_SCHEDULED",
    "TRIP_START_TIME_NOT_REACHED", "P2002"}
Missing == {"BOOKING_NOT_FOUND", "BOOKINGS_NOT_FOUND", "DRIVER_CAR_NOT_FOUND",
    "PAYMENT_ID_NOT_FOUND", "RECORD_NOT_FOUND", "TRIP_NOT_FOUND", "USER_NOT_FOUND",
    "USERS_NOT_FOUND", "P2025"}
Unauthenticated == {"INVALID_LOGIN_CREDENTIALS", "INVALID_REFRESH_TOKEN", "UNAUTHORIZED"}
Denied == {"BOOKING_ACCESS_DENIED", "CHAT_ACCESS_DENIED", "DOCUMENTS_NOT_APPROVED",
    "UNAUTHORIZED_ACCESS", "UNAUTHORIZED_CANCEL", "FORBIDDEN"}
Unprocessable == {"NOT_ENOUGH_SEATS", "PAYMENT_NOT_MADE"}
Invalid == {"ZodError", "PrismaClientValidationError", "P2003", "P2022",
    "INVALID_SIGNATURE", "INVALID_OTP", "INVALID_WEBHOOK_SIGNATURE",
    "PICKUP_DROPOFF_ROUTE_SEQUENCE_INVALID", "REGISTRATION_OTP_INVALID"}
Unmapped == {"OVERLAP_TRIP", "RATING_ALREADY_SUBMITTED", "PrismaError"}
Errors == Conflicts \cup Missing \cup Unauthenticated \cup Denied
          \cup Unprocessable \cup Invalid \cup Unmapped

(* errorResponseStandard: a status of its own for what the tables name, the*)
(* controller's for the rest.                                              *)
Status(error, default) ==
    CASE error \in Conflicts -> 409
      [] error \in Missing -> 404
      [] error \in Unauthenticated -> 401
      [] error \in Denied -> 403
      [] error \in Unprocessable -> 422
      [] error \in Invalid -> 400
      [] OTHER -> default

Answer == [client: Clients, kind: Kinds, outcome: Errors \cup {"ok", "limited"},
           status: {200, 201, 400, 401, 403, 404, 409, 422, 429, 500}]

\* One type invariant: counts stay within their limiter, answers have a status.
TypeOK ==
    /\ database \in {"connecting", "connected", "failed"}
    /\ jobs \in BOOLEAN
    /\ hits["general"] \in [Clients -> 0 .. GeneralMax + 1]
    /\ hits["auth"] \in [Clients -> 0 .. AuthMax + 1]
    /\ handled \in [Kinds -> [Clients -> Nat]]
    /\ answer \in Answer \cup {None}

Init ==
    /\ database = "connecting"
    /\ jobs = FALSE
    /\ hits = [l \in Limiters |-> [c \in Clients |-> 0]]
    /\ handled = [k \in Kinds |-> [c \in Clients |-> 0]]
    /\ answer = None

------------------------------------------------------------------------------
(* listen serves at once; the jobs start when the database has been        *)
(* reached, and a failure to reach it is only logged.                      *)
Connect ==
    /\ database = "connecting"
    /\ \/ database' = "connected" /\ jobs' = TRUE
       \/ database' = "failed" /\ UNCHANGED jobs
    /\ UNCHANGED <<hits, handled, answer>>

\* The limiters a request meets, in the order of app.use.
LimitersOf_AuthAlone(kind) ==
    CASE kind = "health" -> {}
      [] kind = "auth" -> {"general"}
      [] OTHER -> {"general"}
LimitersOf(kind) ==
    CASE kind = "health" -> {}
      [] kind = "auth" -> {"general", "auth"}
      [] OTHER -> {"general"}
Limit(l) == IF l = "general" THEN GeneralMax ELSE AuthMax
Exceeded(l, c) == hits[l][c] >= Limit(l)

\* A request over the limit counts for it, and for no limiter after it.
Counted(was, l) == IF was <= Limit(l) THEN was + 1 ELSE was
Counts(limiters, c) ==
    hits' = [l \in Limiters |-> [hits[l] EXCEPT ![c] =
                IF l \in limiters THEN Counted(@, l) ELSE @]]

Limited(c, kind) ==
    \E l \in LimitersOf(kind) :
        /\ Exceeded(l, c)
        /\ l = "auth" => ~Exceeded("general", c)
        /\ Counts(IF l = "general" THEN {"general"} ELSE Limiters, c)
        /\ answer' = [client |-> c, kind |-> kind, outcome |-> "limited", status |-> 429]
        /\ UNCHANGED <<database, jobs, handled>>

\* The handler answers; one that succeeds says 200 or 201.
Handled(c, kind, outcome, status) ==
    /\ \A l \in LimitersOf(kind) : ~Exceeded(l, c)
    /\ Counts(LimitersOf(kind), c)
    /\ handled' = [handled EXCEPT ![kind][c] = IF kind = "health" THEN @ ELSE @ + 1]
    /\ answer' = [client |-> c, kind |-> kind, outcome |-> outcome, status |-> status]
    /\ UNCHANGED <<database, jobs>>
Succeeds(c, kind) == \E status \in {200, 201} : Handled(c, kind, "ok", status)

\* The webhook says 200 even then, so that Razorpay does not try again.
ErrorStatuses(kind, error) ==
    IF kind = "webhook" THEN {200}
    ELSE {Status(error, default) : default \in {400, 401, 403, 404, 500}}
Throws(c, kind) ==
    /\ kind # "health"    \* its query is in a try of its own
    /\ \E error \in Errors : \E status \in ErrorStatuses(kind, error) :
           Handled(c, kind, error, status)

\* The window of a client ends, for one limiter.
WindowEnds(l, c) ==
    /\ hits[l][c] > 0
    /\ hits' = [hits EXCEPT ![l][c] = 0]
    /\ handled' = [k \in Kinds |-> [handled[k] EXCEPT ![c] =
                      IF (k = "auth") = (l = "auth") THEN 0 ELSE @]]
    /\ UNCHANGED <<database, jobs, answer>>

Next ==
    \/ Connect
    \/ \E c \in Clients, kind \in Kinds :
           Limited(c, kind) \/ Succeeds(c, kind) \/ Throws(c, kind)
    \/ \E l \in Limiters, c \in Clients : WindowEnds(l, c)

Spec == Init /\ [][Next]_vars

------------------------------------------------------------------------------
(* "Auth routes have stricter rate limits than general API routes": within *)
(* a window a client tries no more logins and registrations than the auth  *)
(* limiter allows, and nothing more than the general one allows.           *)
AuthIsLimited == \A c \in Clients :
    /\ handled["auth"][c] <= AuthMax
    /\ handled["webhook"][c] + handled["other"][c] <= GeneralMax

(* "Open 24/7 Keep-Alive Health Check": the health check is always         *)
(* answered, whatever the client used up and whatever the database does.   *)
HealthIsAnswered ==
    answer # None /\ answer.kind = "health" => answer.status \in {200, 201}

(* "should fail with duplicate email" and "should fail with wrong password"*)
(* expect 400.                                                             *)
AuthFailsWith400 ==
    /\ answer # None /\ answer.kind = "auth"
    /\ answer.outcome \in {"EMAIL_ALREADY_EXISTS", "INVALID_LOGIN_CREDENTIALS"}
    => answer.status = 400
==============================================================================
