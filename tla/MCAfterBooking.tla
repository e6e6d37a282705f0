---------------------------- MODULE MCAfterBooking ----------------------------
(***************************************************************************)
(* What follows a booking: its payment (Payment), the emails about it      *)
(* (EmailDelivery), the chat of driver and passenger (Conversation) and    *)
(* the review at the end (Rating), for TLC.  The four share no state here, *)
(* so a behaviour is about one of them: it plays one scenario, a component *)
(* under one choice of its constants, and the variables of the others are  *)
(* None.  The components come with their theorems, so that                 *)
(* AfterBookingProofs can conclude from them.                              *)
(***************************************************************************)
EXTENDS Naturals, FiniteSets

CONSTANTS
    Bookings, Orders, PaymentAttempts, Modes, Notice,            \* of Payment
    Emails, Codes, Cooldown, Outages, Restarts,                  \* of EmailDelivery
    Rides, Driver, Passengers, Chats, MaxMessages, Recent,       \* of Conversation
    Raters, MaxReviews, MaxBookings,                             \* of Rating
    Requests,
    \* What handlers that overlap and fail are given less of.
    FewerBookings, FewerAttempts, FewerModes, FewerNotice,
    FewerEmails, FewerRides, FewerChats,
    \* What handlers that take turns are given less of.
    FewerRequests, FewerMessages,
    None

VARIABLES
    scenario,
    request,
    booking, payment, orderOf, offered, attempt, events, hours,
    forced, email, tries, stalls, copies, failed, trippedAt, paused, isWorkerPaused,
    timer, overQuota, outages, restarts,
    chat, message, room, seen, owed,
    status, bookings, reviews

paymentVars == <<booking, payment, orderOf, offered, attempt, events, hours>>
emailVars == <<forced, email, tries, stalls, copies, failed, trippedAt, paused,
               isWorkerPaused, timer, overQuota, outages, restarts>>
chatVars == <<chat, message, room, seen, owed>>
ratingVars == <<status, bookings, reviews>>
vars == <<scenario, request, paymentVars, emailVars, chatVars, ratingVars>>

\* Handlers take turns and finish, and events are delivered twice; the mail
\* server means what it says, and nothing goes out or down.
InTurn == INSTANCE FollowUpProofs WITH
    Serial <- TRUE, Failures <- FALSE, Redelivery <- TRUE, Requests <- FewerRequests,
    Answers <- {"sent", "refused", "limit"}, Outages <- 0, Restarts <- 0,
    Attempts <- PaymentAttempts, MaxMessages <- FewerMessages,
    Users <- Raters
\* Handlers overlap and stop at an await; the mail server may answer anything,
\* the quota of Redis is used up and the process restarted.
AtOnce == INSTANCE FollowUpProofs WITH
    Serial <- FALSE, Failures <- TRUE, Redelivery <- FALSE,
    Attempts <- FewerAttempts, Modes <- FewerModes, Notice <- FewerNotice,
    Answers <- {"sent", "refused", "unsure", "limit"}, Emails <- FewerEmails,
    Rides <- FewerRides, Chats <- FewerChats, Users <- Raters
\* The same of fewer bookings, each paid in several attempts, whose reports and
\* events come late and again.
Late == INSTANCE FollowUpProofs WITH
    Serial <- FALSE, Failures <- TRUE, Redelivery <- TRUE,
    Bookings <- FewerBookings, Attempts <- PaymentAttempts, Modes <- FewerModes,
    Notice <- FewerNotice,
    Answers <- {"sent", "refused", "unsure", "limit"}, Emails <- FewerEmails,
    Rides <- FewerRides, Chats <- FewerChats, Users <- Raters

ASSUME Assumptions ==
    /\ InTurn!Assumptions /\ AtOnce!Assumptions /\ Late!Assumptions
    /\ InTurn!Post!Assumptions /\ AtOnce!Post!Assumptions
    /\ InTurn!Talk!Assumptions /\ AtOnce!Talk!Assumptions
    /\ InTurn!Rate!Assumptions

------------------------------------------------------------------------------
Plays(name) == scenario = name

NoPayment == /\ booking = None /\ payment = None /\ orderOf = None /\ offered = None
             /\ attempt = None /\ events = None /\ hours = None
NoEmail == /\ forced = None /\ email = None /\ tries = None /\ stalls = None
           /\ copies = None /\ failed = None /\ trippedAt = None /\ paused = None
           /\ isWorkerPaused = None /\ timer = None /\ overQuota = None
           /\ outages = None /\ restarts = None
NoChat == chat = None /\ message = None /\ room = None /\ seen = None /\ owed = None
NoRating == status = None /\ bookings = None /\ reviews = None

Init ==
    \/ Plays("paidInTurn") /\ InTurn!Init /\ NoEmail /\ NoChat /\ NoRating
    \/ Plays("twoAtOnce") /\ AtOnce!Init /\ NoEmail /\ NoChat /\ NoRating
    \/ Plays("lateEvents") /\ Late!Init /\ NoEmail /\ NoChat /\ NoRating
    \/ Plays("anyAnswer") /\ AtOnce!Post!Init /\ NoPayment /\ NoChat /\ NoRating /\ request = None
    \/ Plays("plainAnswer") /\ InTurn!Post!Init /\ NoPayment /\ NoChat /\ NoRating
       /\ request = None
    \/ Plays("chatRows") /\ InTurn!Talk!Init /\ NoPayment /\ NoEmail /\ NoRating
    \/ Plays("chatRoom") /\ AtOnce!Talk!Init /\ NoPayment /\ NoEmail /\ NoRating
    \/ Plays("reviews") /\ InTurn!Rate!Init /\ NoPayment /\ NoEmail /\ NoChat

PaymentStep ==
    /\ \/ Plays("paidInTurn") /\ InTurn!Next
       \/ Plays("twoAtOnce") /\ AtOnce!Next
       \/ Plays("lateEvents") /\ Late!Next
    /\ UNCHANGED <<emailVars, chatVars, ratingVars>>
EmailStep ==
    /\ \/ Plays("anyAnswer") /\ AtOnce!Post!Next
       \/ Plays("plainAnswer") /\ InTurn!Post!Next
    /\ UNCHANGED <<request, paymentVars, chatVars, ratingVars>>
ChatStep ==
    /\ \/ Plays("chatRows") /\ InTurn!Talk!Next
       \/ Plays("chatRoom") /\ AtOnce!Talk!Next
    /\ UNCHANGED <<paymentVars, emailVars, ratingVars>>
RatingStep ==
    /\ Plays("reviews") /\ InTurn!Rate!Next
    /\ UNCHANGED <<paymentVars, emailVars, chatVars>>

Next == UNCHANGED scenario /\ (PaymentStep \/ EmailStep \/ ChatStep \/ RatingStep)

Spec == Init /\ [][Next]_vars

------------------------------------------------------------------------------
(* The type invariants of the four components.                             *)
TypeOK ==
    /\ Plays("paidInTurn") => InTurn!TypeOK
    /\ Plays("twoAtOnce") => AtOnce!TypeOK
    /\ Plays("lateEvents") => Late!TypeOK
    /\ Plays("anyAnswer") => AtOnce!Post!TypeOK
    /\ Plays("plainAnswer") => InTurn!Post!TypeOK
    /\ Plays("chatRows") => InTurn!Talk!TypeOK
    /\ Plays("chatRoom") => AtOnce!Talk!TypeOK
    /\ Plays("reviews") => InTurn!Rate!TypeOK

(* The rows of booking and payment agree once every handler has finished.  *)
RowsAgree == Plays("paidInTurn") => InTurn!RowsAgree

(* Only money captured for a booking makes that booking paid, with two of  *)
(* them ordered, verified and reported by webhook at the same time.        *)
PaidByItsOwnPayment == Plays("twoAtOnce") => AtOnce!PaidByItsOwnPayment

(* No late or repeated event unpays a booking.                             *)
PaidUntilMoneyBack ==
    [][Plays("lateEvents") => Late!UnpaidAfterMoneyBack]_vars

(* Neither fallbacks nor retries of the email producer and worker repeat a *)
(* mail that was taken, and the first outage of Redis alone loses none.    *)
EmailsNeitherTwiceNorLost ==
    /\ Plays("plainAnswer") => InTurn!Post!AtMostOneCopy
    /\ Plays("anyAnswer") => AtOnce!Post!LostOnlyIfRefused

(* A socket in a room is sent every message of its chat.                   *)
NothingMissed == Plays("chatRoom") => AtOnce!Talk!NothingMissed

(* createChat and submitRating look for a row before they insert one: one  *)
(* at a time, they make no second chat of a ride and a passenger, and no   *)
(* second review of a user.                                                *)
NoSecondRow ==
    /\ Plays("chatRows") => InTurn!Talk!OneChat
    /\ Plays("reviews") => InTurn!Rate!OneReview
==============================================================================
