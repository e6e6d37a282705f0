------------------------------ MODULE MCLiveness ------------------------------
(***************************************************************************)
(* What must happen in the end to codes (OtpStore), payments (Payment),    *)
(* emails (EmailDelivery) and fetches (LocationFetch), for TLC.  A         *)
(* behaviour plays one scenario, a component under one choice of its       *)
(* constants, and the variables of the others are None.  It keeps to its   *)
(* scenario, so one fairness condition may serve a step of each of them.   *)
(***************************************************************************)
EXTENDS Naturals, Sequences, FiniteSets

CONSTANT None

VARIABLES
    scenario,
    request,                                                \* Otp, Payment
    redis, memory, owner, mailed, stored, uses,
    attempt,                                                \* Payment, Location
    booking, payment, orderOf, offered, events, hours,
    forced, email, tries, stalls, copies, failed, trippedAt, paused, isWorkerPaused,
    timer, overQuota, outages, restarts,
    at, timers, route, points

otpVars == <<redis, memory, owner, mailed, stored, uses>>
paymentVars == <<booking, payment, orderOf, offered, events, hours>>
emailVars == <<forced, email, tries, stalls, copies, failed, trippedAt, paused,
               isWorkerPaused, timer, overQuota, outages, restarts>>
locationVars == <<at, timers, route, points>>
vars == <<scenario, request, attempt, otpVars, paymentVars, emailVars, locationVars>>

PayingOrders == 1..2
PayingAttempts == 1..1

\* Codes of a pickup, mailed before they are stored; Redis may refuse them, or
\* store them without an answer.
Pickup == INSTANCE OtpStore WITH
    Keys <- {"k1"}, Codes <- 1..2, Requests <- {"q1", "q2"}, TTL <- 1,
    AwaitsStore <- FALSE, Failing <- {"set"}, Unanswered <- {"set", "expire"},
    Restarts <- FALSE, Serial <- FALSE,
    NoCode <- None, NoKey <- None
\* A booking ordered twice and paid once; no handler stops, no event is lost.
Paying == INSTANCE Payment WITH
    Bookings <- {"b1"}, Orders <- PayingOrders, Attempts <- PayingAttempts,
    Requests <- {"q1", "q2"}, Modes <- {"ADVANCE"}, Notice <- {24},
    Failures <- FALSE, Redelivery <- FALSE, Serial <- FALSE
\* Three emails, one with a code, and a mail server that may refuse them.
Mailing == INSTANCE EmailDelivery WITH
    Emails <- 1..3, Codes <- {1}, Cooldown <- 1, Outages <- 0,
    Answers <- {"sent", "refused", "unsure"}, Restarts <- 0
\* Two emails and two outages of Redis.
Refusing == INSTANCE EmailDelivery WITH
    Emails <- 1..2, Codes <- {}, Cooldown <- 2, Outages <- 2,
    Answers <- {"sent", "refused"}, Restarts <- 0
\* A service that fails in every way, but ends the bodies it begins.
Fetching == INSTANCE LocationFetch WITH
    Retries <- 3, MaxSteps <- 3, MaxPoints <- 2, Names <- {"n1"},
    Blocked <- "blocked", BodyFails <- TRUE, BodyStalls <- FALSE

ASSUME Assumptions ==
    /\ Pickup!Assumptions /\ Paying!Assumptions
    /\ Mailing!Assumptions /\ Refusing!Assumptions /\ Fetching!Assumptions

------------------------------------------------------------------------------
Plays(name) == scenario = name

NoOtp == /\ redis = None /\ memory = None /\ owner = None
         /\ mailed = None /\ stored = None /\ uses = None
NoPayment == /\ booking = None /\ payment = None /\ orderOf = None /\ offered = None
             /\ events = None /\ hours = None
NoEmail == /\ forced = None /\ email = None /\ tries = None /\ stalls = None
           /\ copies = None /\ failed = None /\ trippedAt = None /\ paused = None
           /\ isWorkerPaused = None /\ timer = None /\ overQuota = None
           /\ outages = None /\ restarts = None
NoLocation == at = None /\ timers = None /\ route = None /\ points = None
NoRequest == request = None
NoAttempt == attempt = None

Init ==
    \/ Plays("pickup") /\ Pickup!Init /\ NoAttempt /\ NoPayment /\ NoEmail /\ NoLocation
    \/ Plays("paying") /\ Paying!Init /\ NoOtp /\ NoEmail /\ NoLocation
    \/ Plays("mailing") /\ Mailing!Init /\ NoRequest /\ NoAttempt /\ NoOtp /\ NoPayment
       /\ NoLocation
    \/ Plays("refusing") /\ Refusing!Init /\ NoRequest /\ NoAttempt /\ NoOtp /\ NoPayment
       /\ NoLocation
    \/ Plays("fetching") /\ Fetching!Init /\ NoRequest /\ NoOtp /\ NoPayment /\ NoEmail

PickupStep ==
    /\ Plays("pickup") /\ Pickup!Next
    /\ UNCHANGED <<attempt, paymentVars, emailVars, locationVars>>
PayingStep ==
    /\ Plays("paying") /\ Paying!Next
    /\ UNCHANGED <<otpVars, emailVars, locationVars>>
EmailStep ==
    /\ \/ Plays("mailing") /\ Mailing!Next
       \/ Plays("refusing") /\ Refusing!Next
    /\ UNCHANGED <<request, attempt, otpVars, paymentVars, locationVars>>
FetchingStep ==
    /\ Plays("fetching") /\ Fetching!Next
    /\ UNCHANGED <<request, otpVars, paymentVars, emailVars>>

Next == UNCHANGED scenario /\ (PickupStep \/ PayingStep \/ EmailStep \/ FetchingStep)

\* What a step of one component leaves alone.
KeepBut(name) ==
    /\ UNCHANGED scenario
    /\ name # "pickup" => UNCHANGED otpVars
    /\ name # "paying" => UNCHANGED paymentVars
    /\ name # "email" => UNCHANGED emailVars
    /\ name # "fetching" => UNCHANGED locationVars
    /\ name \notin {"pickup", "paying"} => UNCHANGED request
    /\ name \notin {"paying", "fetching"} => UNCHANGED attempt

\* Awaits return: every handler that is open goes on.
HandlerGoesOn(q) ==
    \/ /\ Plays("pickup") /\ KeepBut("pickup")
       /\ Pickup!Store(q) \/ Pickup!RedisGet(q) \/ Pickup!RedisDel(q)
    \/ /\ Plays("paying") /\ KeepBut("paying")
       /\ Paying!Continue(q) \/ \E o \in PayingOrders : Paying!OrderCreate(q, o)
ProducerGoesOn(e) ==
    /\ \/ Plays("mailing") /\ Mailing!Producer(e)
       \/ Plays("refusing") /\ e \in 1..2 /\ Refusing!Producer(e)
    /\ KeepBut("email")
\* The worker takes its jobs in turn, and Razorpay keeps trying to deliver an
\* event: strong, because another job or another request may be in the way
\* again and again.
GetsItsTurn(n) ==
    \/ /\ \/ Plays("mailing") /\ Mailing!Worker(n)
          \/ Plays("refusing") /\ n \in 1..2 /\ Refusing!Worker(n)
       /\ KeepBut("email")
    \/ /\ Plays("paying") /\ n \in PayingAttempts
       /\ Paying!Webhook(n)
       /\ KeepBut("paying")
\* Time goes on, and timers fire.
TimeGoesOn ==
    \/ Plays("pickup") /\ Pickup!TimePasses /\ KeepBut("pickup")
    \/ Plays("mailing") /\ Mailing!TimePasses /\ KeepBut("email")
    \/ Plays("refusing") /\ Refusing!TimePasses /\ KeepBut("email")
TimerFires ==
    \/ Plays("mailing") /\ Mailing!TimerFires /\ KeepBut("email")
    \/ Plays("refusing") /\ Refusing!TimerFires /\ KeepBut("email")
    \/ Plays("fetching") /\ Fetching!SomeTimer /\ KeepBut("fetching")
\* What another process answers in the end: the body of an answer ends, and
\* the error of a refused command reaches the worker.
OtherSideAnswers ==
    \/ Plays("fetching") /\ Fetching!BodyEnds /\ KeepBut("fetching")
    \/ Plays("mailing") /\ Mailing!WorkerError /\ KeepBut("email")
    \/ Plays("refusing") /\ Refusing!WorkerError /\ KeepBut("email")

Fairness ==
    /\ \A q \in {"q1", "q2"} : WF_vars(HandlerGoesOn(q))
    /\ \A e \in 1..3 : WF_vars(ProducerGoesOn(e))
    /\ \A n \in 1..3 : SF_vars(GetsItsTurn(n))
    /\ WF_vars(TimeGoesOn) /\ WF_vars(TimerFires) /\ WF_vars(OtherSideAnswers)

Spec == Init /\ [][Next]_vars /\ Fairness

------------------------------------------------------------------------------
(* A pickup code that was mailed in time can be used, although             *)
(* sendPickupOtp does not wait for it to be stored.                        *)
MailedCodeBecomesUsable ==
    \A c \in 1..2 : Plays("pickup") /\ Pickup!MailedInTime(c)
                        ~> Plays("pickup") /\ Pickup!Usable(c)

(* A payment Razorpay captured is recorded, by verifyPayment or by its     *)
(* webhook, unless a later order has taken its row.                        *)
CapturedIsRecorded ==
    \A p \in PayingAttempts : Plays("paying") /\ Paying!Captured(p)
                        ~> Plays("paying") /\ Paying!Recorded(p)

(* A queued email arrives or is given up: its retries end.                 *)
EveryEmailEnds ==
    \A e \in 1..3 : Plays("mailing") /\ Mailing!At(e, "queued")
                        ~> Plays("mailing") /\ email[e] \in Mailing!Ended

(* The error handler of the worker stops it in every outage of Redis.      *)
WorkerStopsAsking ==
    Plays("refusing") /\ Refusing!Refused ~> Plays("refusing") /\ Refusing!StopsAsking

(* fetchWithRetry ends, whatever the service does: three silent attempts   *)
(* end by their timers, and the timer of a broken one stays out of the way.*)
EveryFetchEnds ==
    Plays("fetching") /\ Fetching!IsOpen ~> Plays("fetching") /\ Fetching!HasEnded
==============================================================================
