# Verification of CarPooling-Backend

TLA+ models of the car-pooling backend (`src/`, an Express and Prisma server in
TypeScript), the TLC runs that check them on small instances, and TLAPS proofs
of what holds for every instance. Paths below are relative to `src/src/` unless
they start with `prisma/`.

## 1. Inventory

The server is one Node process: an HTTP request, a cron tick, a queue job or a
socket event runs until its next `await`, and another one may run there. All
durable state is in PostgreSQL (through Prisma), Redis (restrictions, OTPs, the
BullMQ queue) and Razorpay. No handler takes a lock, no statement compares
before it writes, and the only multi-statement units are the four
`prisma.$transaction([...])`. So nearly every handler is a read, a check in
JavaScript and a later write of what was read.

| Component | State | Operations | What makes it correct |
|---|---|---|---|
| Booking (`modules/passenger/trip`) | `Ride.availableSeats`, `Booking` | `bookTrip` | seats are neither oversold nor lost; one booking per passenger and ride |
| Cancellation, waitlist (`modules/passenger/booking`) | `Booking`, `WaitingList` | `cancelBooking`, `joinWaitlist` | seats return once; positions are ranks |
| Driver's answers (`modules/driver/bookings`) | `Booking.status` | `updateBookingStatus` | an answer does not unbalance the seats |
| Ride start and pickup (`modules/driver/trip`) | `Ride.status`, `Booking.status` | `startTrip`, `sendPickupOtp`, `verifyPickupOtp` | a ride starts once, after its departure time; a pickup needs the last code |
| Crons (`cron/`) | the same rows | complete rides, cancel unanswered bookings, clean and promote the waitlist | promotions are once, in order, and eventually made |
| Trip publishing (`modules/driver/trip`, `modules/driver/car`, `modules/admin/documents`) | `Ride`, `Car`, `Document` | `createTrip`, `createCar`, `uploadDocument`, `updateDocumentStatus` | a driver's rides do not overlap; only approved documents count |
| OTPs (`utils/otp.utils.ts`, `utils/registrationOtp.utils.ts`) | Redis keys, a map in memory | store, verify, delete | a code works once, for ten minutes, and replaces the one before |
| Payments (`modules/payment`) | `Payment`, `Booking.paymentStatus`, Razorpay | `createOrder`, `verifyPayment`, `processRefund`, webhooks | money and rows agree; nobody is paid by another's money |
| Email (`utils/emailProducer.utils.ts`, `utils/redisCircuitBreaker.utils.ts`, `workers/email.worker.ts`) | queue, circuit breaker, worker | enqueue, direct send, pause and resume | no email is lost, doubled or stuck |
| Accounts (`modules/auth`, `modules/admin/users`) | `User`, tokens, the Redis set of restricted users | register, login, refresh, restrict | a restricted user is kept out |
| Chat, ratings (`modules/chat`, `socket`, `modules/rating`) | `Chat`, `Message`, rooms, `Review` | find-or-create, join, send, rate | one chat, one rating, no message missed |
| Routes and fares (`utils/location.utils.ts`) | none | nearest point, segment distance | the fare is of the way; same fare for both ways to book |
| Search and lists (`utils/buildquery.utils.ts`, feed, search) | none | filter, order, page | pages cover the list |
| Location service (`modules/location`) | timers | `fetchWithRetry`, `getRoutePoints` | every attempt is made, and it ends |
| HTTP server (`index.ts`, `utils/response.utils.ts`) | limiter windows, jobs | limits, error statuses, start of the jobs | the limits hold; errors get their status |
| Dashboards, uploads, templates, configuration | none | reads, I/O | (not modelled) |

How they interact: everything meets in the rows of `Ride`, `Booking` and
`WaitingList`. The passenger's handlers, the driver's handlers, the refunds and
the three crons write them independently; the status of a ride decides what
each cron does, and emails are sent after the writes. What is hard here is
interleaving (a row read before an `await` and used after it), statuses written
without looking at the current one, partial failure between two systems
(Razorpay or Redis, then the database), and what a failing tick leaves to the
next one. `PROJECT.json` lists each such hazard at its line with the properties
about it; section 7 says which have none.

## 2. Plan and status

1. `RideBooking` with its abstract specification `SeatAccount`: all writers of
   seats, bookings and waitlist entries, and the crons. Done.
2. `OtpStore` with its abstract specification `CodeStore`. Done.
3. `Payment`. Done by itself. What is left of the plan is its composition with
   `RideBooking`: a refund cancels a booking without returning its seats. The
   product of the two state spaces is beyond a check of minutes, and the effect
   on the seats is that of the `CANCELLED` a driver writes, which `RideBooking`
   and `SeatAccount` (`Lapse`) have.
4. `EmailDelivery`: producer, circuit breaker, worker. Done.
5. `Account` and `TripPublishing`. Done.
6. `Conversation`, `Rating`, `RouteFare`, `TripSearch`, `LocationFetch`,
   `HttpServer`. Done.

Proofs: every component has theorems, and every invariant and action property
that a run checks is one (section 6). What is left to TLC is liveness.

## 3. Modules

| Module | What it is |
|---|---|
| `RideBooking` | the seats of published rides: rows, open requests, cron ticks |
| `SeatAccount` | the promise: a counter of free and one of held seats per ride |
| `OtpStore` | one-time codes: Redis with its memory fallback, senders and verifiers |
| `CodeStore` | the promise: one live code per key, used at most once |
| `Account` | accounts, sessions, restriction in database and Redis |
| `HttpServer` | limiters, statuses of errors, health check, start of the jobs |
| `Payment` | orders, reports, webhooks, disputes, refunds, against Razorpay's own books |
| `EmailDelivery` | producer, circuit breaker, queue, worker |
| `Conversation` | making a chat, its room on the sockets |
| `Rating` | the review at the end of a ride |
| `TripPublishing` | car, documents and their review, publication |
| `LocationFetch` | attempts and timers of a fetch, and the points made of a route |
| `TripSearch` | lists paged through while they change |
| `RouteFare` | nearest points, distance and fare of a booking and of a promotion |
| `MCRideBooking`, `MCAccess`, `MCAfterBooking`, `MCTrips`, `MCLiveness` | what TLC checks |
| `RideBookingProofs`, `TripPublishingProofs`, `TripSearchProofs` | theorems about the component of the name |
| `CredentialProofs` | theorems about `OtpStore` and `Account` |
| `FollowUpProofs` | theorems about `Payment`, `EmailDelivery`, `Conversation` and `Rating` |
| `AccessProofs`, `AfterBookingProofs`, `TripsProofs` | theorems about what `MCAccess`, `MCAfterBooking` and `MCTrips` check; also those about `CodeStore` and `HttpServer`, and about `LocationFetch` and `RouteFare` |

All component modules have the same shape. Rows are functions from ids to
records, or to `None`. `request[q]` is what open request `q` holds in its local
variables at its current `await`; `Opens`, `Goes` and `Closes` start it, take it
to its next `await`, and end it. What runs between two awaits is one action, in
the order of the code. `Fail` is an error, a refusal or a crash at an `await`.
`Serial = TRUE` restricts a model to handlers that do not overlap: it separates
what goes wrong through interleaving from what goes wrong by itself. It is a
parameter of the checks and proofs, not a claim about the server. Variables
marked "history" are not in the code: they remember what a property is about.
An action marked "External" is somebody else's: Razorpay, a bank, a mail server.

### RideBooking

`rideStatus`, `availableSeats`, `booking` and `waitlist` are the columns of
`prisma/schema.prisma` that the handlers branch on. `passed` says which of a
ride's two times are past, and `tick` what the waitlist cron holds.

| Action | Code |
|---|---|
| `BookRead`, `BookCheck`, `BookCommit` | the three awaits of `bookTrip` |
| `CancelRead`, `CancelCommit` | `cancelBooking` |
| `JoinRead`, `JoinCommit` | `joinWaitlist` |
| `DriverUpdate` | `updateBookingStatus`: its read decides only ownership, so it is one step |
| `StartRead`, `StartCommit` | `startTrip` |
| `PickupRead`, `PickupCommit` | `verifyPickupOtp` |
| `Fail` | any refusal, error or crash of an open request |
| `TickClean`, `TickRead`, `TickPromote`, `TickEnd`, `TickAbort` | one tick of `cron/waitlist.cron.ts` |
| `TripCron`, `BookingCron` | `cron/trip.cron.ts`, `cron/booking.cron.ts` |
| `TimePasses` | a departure time or an end time passes |

What is abstracted: locations, prices and names (whether a booking's route is
acceptable is a possible `Fail`, whether an entry's matches is the field
`onRoute`; both are computed in `RouteFare`); a `findUnique` or `findMany` with
`include` is one step, since what it returns is stale by the next `await`
anyway; one tick of the waitlist cron at a time; joins ask for the seat counts
the other request schemas accept (1 to 6); two entries of a ride do not share a
`createdAt`. `DriverMoves` is the set of answers a driver gives: the code allows
all (`AllMoves`), the runs take the usual ones and those that race.

`SeatAccount` has per ride a number of free and of held seats, and three moves:
take free seats, give held seats back, let held seats lapse. `RideBooking` maps
`free` to `availableSeats` and `held` to the seats of the bookings that are not
cancelled. `Lapse` is what a driver's CANCELLED and the booking cron do: they
end a booking without returning its seats.

### OtpStore and CodeStore

The pickup codes and the registration codes are kept by two copies of the same
code. `redis` and `memory` hold per key a code and the ticks left of it;
`Forever` is a key that was set and did not yet get its EXPIRE. `SendOtp`,
`RedisSet`, `RedisExpire` and `FallBack` are `storeOTP`; `VerifyOtp`, `RedisGet`
and `RedisDel` are `verifyOTP`. `Failing` is the set of Redis commands that may
be refused, `Unanswered` the set of those that may be applied although the call
throws (Redis is reached over the network): `FallBack` runs for both, and takes
nothing back from Redis. `AwaitsStore` tells the registration (which waits for the store
before it mails) from `sendPickupOtp` (which does not). `CodeStore` has
`Issue`, `Use`, `Expire` and `Drop`; `OtpStore` maps a code that was compared
and is about to be deleted to one that is live still.

### Account

`account` is the row by email: `verified` (what `restrictUser` clears) and
`refreshToken`. `holder` and `valid` say whose each signed token is and whether
its seven days last. `RegisterRead` to `RegisterCreate` are `register` with its
code, `LoginRead`, `LoginSign`, `KeepToken` are `login`, whose token is signed an
`await` before it is written. `Restrict` writes the row, `RedisSet` the set in
Redis, which alone the middleware (`Passes`) reads; if Redis refuses the answer
is still 200. Registration codes are taken for what `CodeStore` promises.

### Payment

`booking` and `payment` are the two rows; `orderOf`, `offered` and `attempt` are
Razorpay's books, `events` its webhooks not yet delivered, in any order.
`OrderRead` to `OrderAnswer` are `createOrder`, `VerifyRead`, `VerifyUpdate`,
`MarkPaid` are `verifyPayment`, `Webhook*` with `MarkPaid` or `MarkRefunded` are
`handleWebhook`, and `RefundRead` to `RefundCancel` are `processRefund`. Webhooks
are answered 200 even when the handler threw, so delivery again is up to
Razorpay (`Redelivery`). Bookings are COD by default, and nothing in the source
sets `ADVANCE`: the column allows it, so the model lets a booking have either.

### EmailDelivery

`email[e]` is where an email is: `enqueue` or `direct` at its handler, `queued`,
`active`, `taken`, `threw`, `retried`, `unrecoverable` as a job in the worker's
hand, `sent` or `lost`. BullMQ is external: it records how a job ended only while
Redis answers (`Complete`, `JobFails`), queues a job that stalled in hand again
(`Stall`, `Restart`), and gives up one that stalls more often than its default
`maxStalledCount` of 1 (`stalls`, `AfterStall`). `trippedAt`, `paused`,
`isWorkerPaused` and `timer` are the circuit breaker and the worker's pause. The
look at the circuit (`DirectMode`, `Looks`) closes it when the cooldown is over,
as the code's does. `sendTripReminderEmail` is called nowhere.

### Conversation, Rating

`MakeChat`, `CreateChat`: find, then create. `JoinRoom`, `JoinRead`, `JoinAnswer`
are the socket's join with its history of messages; `SendMessage`, `NewMessage`
create and emit. `owed` says from which message on a socket is owed every one.
`Rating` has `submitRating` with the life of its ride beside it.

### TripPublishing

`CarRead`, `CarCreate`; `DocumentRead`, `DocumentWrite`; `ReviewWrite`,
`ReviewCount`, `ReviewVerify`, `ReviewApprove` (`updateDocumentStatus`);
`PublishRead`, `PublishCheck`, `PublishOverlap`, `PublishCreate` (`createTrip`).
`agreed` is the history of drivers both of whose documents were approved at one
instant. `ReviewVerify` writes `verified` of the user's row, which is true by
default (`prisma/schema.prisma`) and which `restrictUser` and `unrestrictUser`
write too (`Restrict`, `Unrestrict`): so the flag says that documents were
approved only of a driver who was restricted and not let in since (`barred`, a
history). For him `ApprovedTogether` says that it takes both documents; that an
approval lifts a restriction in the row, and not in the set of Redis, is what the
code does.

### LocationFetch, TripSearch, RouteFare, HttpServer

`LocationFetch` steps through the attempts of `fetchWithRetry`, each with its own
timer, and has the operators of `getRoutePoints`. `TripSearch` evaluates the
`where`, `orderBy`, `skip` and `take` of six lists against rows that come and go
while a client pages: the feed, the search, users of a type, the chats, the
administrators' lists and any other table. The place of a ride in a list is the
number of rides before it in the sort of the client (`Before`): by creation either
way, or by a field that changes and that rows have in common, in which case the
database breaks ties anew for every query. What is counted (`Counted`) is not
always what is listed: users of a type are counted by the client's filters
instead of their type, and chats without the filters. `RouteFare` takes any metric for the distance of two places and
computes what `bookTrip` and the cron each compute; its steps are one booking and
one promotion of the same request. `HttpServer` counts requests per limiter and
gives errors their status; the webhook's handler answers 200 even when it threw.

### The MC modules

`MCRideBooking` extends its component. The other four each put several components
beside each other that share no state. A behaviour plays one *scenario*, one
component under one choice of its constants, named by the variable `scenario`
which never changes; the variables of the others are `None`. A property of the
MC module says of each scenario it is about what the component's own property
says. So the state space is the union, not the product, of the scenarios, and
one run answers a question several components share. `MCAccess`,
`MCAfterBooking` and `MCTrips` have all their sizes as constants, with values in
the cfg, and take the components out of the modules that prove about them
(`Answering!Accounts` in `MCAccess` is the `Account` of that `CredentialProofs`), so
that the proofs about the MC module can cite the theorems of its components.

## 4. Runs

| Run | Question | Properties |
|---|---|---|
| `seats_serial` | Are the handlers right when they do not overlap, drivers cancelling included? | `TypeOK`, `NeverOversold`, `ImplementsSeatAccount`, `HandledOnce` |
| `seats_conserved` | Is any seat lost before the ride is over, who gets a second booking, are positions ranks? | `SeatsConserved`, `SecondBookingFromWaitlist`, `PositionIsRank` |
| `races` | What survives every interleaving of two requests and the crons? | `StatusFollowsClock`, `EntryHasBooking` |
| `waitlist` | Are promotions once and in order, with a request overlapping a tick and ticks aborting? | `OvertakenAskedMore`, `EachEntryPromotedOnce` |
| `ride_liveness` | Do rides end, bookings close and entries leave the queue? | `CronsCloseRides`, `LeftoversDeleted`, `FittingEntryServed` |
| `access` | Who gets in: codes, accounts, limits? | `TypeOK`, `MailedCodeAccepted`, `ImplementsCodeStore`, `StaleCodeRefused`, `RestrictedRefused`, `RestrictionCutsSessions`, `AuthIsLimited` |
| `after_booking` | Are payments, emails, chats and reviews right? | `TypeOK`, `RowsAgree`, `PaidByItsOwnPayment`, `PaidUntilMoneyBack`, `EmailsNeitherTwiceNorLost`, `NothingMissed`, `NoSecondRow` |
| `trips` | Does a ride come to a passenger as it was published, and at the right fare? | `TypeOK`, `NoOverlap`, `ApprovedTogether`, `FetchedRoute`, `PagesCoverTheList`, `FareOfTheWay`, `SamePriceFromWaitlist` |
| `service_liveness` | Do codes, payments, emails and fetches come to their end? | `MailedCodeBecomesUsable`, `CapturedIsRecorded`, `EveryEmailEnds`, `WorkerStopsAsking`, `EveryFetchEnds` |
| `oversold` | violated: the seat validation of `bookTrip` | `NeverOversold` |
| `refund_of_unpaid` | violated: "Payment not made" | `RefundsPaidBooking` |
| `worker_stays_paused` | violated: "resume worker polling after a 15-minute cooldown" | `PausedWorkerResumes` |

What the three violations show:

- `oversold`: two requests read the last free seat, both pass the validation,
  both commit; the second overwrites the column with the value the first wrote.
- `refund_of_unpaid`: a refund request finds the booking PAID; before its call,
  a dispute webhook or another refund makes it REFUNDED; the refund is made all
  the same. Razorpay refuses what exceeds the payment, so partial refunds add up.
- `worker_stays_paused`: the worker's timer finds direct mode on, because
  the circuit's cooldown needs more than the timer's 15 minutes or was started
  anew; no other timer is armed, and `isWorkerPaused` keeps the error handler from
  arming one.

### Further disagreements, stated but not listed as runs

These properties are in the modules too. TLC finds each of them violated with
the constants named (all others as in the runs of section 4).

| Property | Text it restates | Violated with | How |
|---|---|---|---|
| `RideBooking!CancelsOnce` | "Booking is already cancelled" | `Serial = FALSE`, two requests | two cancellations both read the booking live, and both return its seats |
| `RideBooking!StartsOnce` | "Trip is not scheduled" | `Serial = FALSE`, two requests | the second of two overlapping starts writes ONGOING over a ride the cron completed |
| `RideBooking!NeverOversold` | "Seat validation" | `Serial = TRUE`, `DriverMoves <- AllMoves` | a driver accepts a cancelled booking whose seat somebody else has booked |
| `RideBooking!OneLiveBooking` | "Trip already booked" | `Serial = TRUE`, `Capacity = 2` | the waitlist promotes a passenger who meanwhile booked |
| `OtpStore!AcceptsNewest` | a later code replaces the earlier | `Failing = {"set"}`, `Serial = TRUE` | the newer code is in memory only, Redis still has the older |
| `OtpStore!AcceptsUnexpired` | `OTP_TTL_SECONDS` | `Failing = {"expire"}` | a key that was set and got no EXPIRE lasts for ever |
| `OtpStore!AcceptsUnexpired` | `OTP_TTL_SECONDS` | `Failing = {}`, `Unanswered = {"set"}` | a SET is applied and its answer lost: the catch keeps a copy in memory, EXPIRE is never sent, and Redis has the code for ever |
| `Account!RestrictedRefused` | "Add user ID to Redis set for restricted users" (`modules/admin/users/user.service.ts:68`) | `Failing = {"sadd"}` | the row is restricted, the set is not, and the middleware reads the set |
| `Payment!OrderLeavesPaidRow` | "Payment already made" | `Serial = FALSE` | a second order's upsert overwrites a row that a report has just marked PAID |
| `TripPublishing!NoOverlap` | "Overlapping trips found" | `Serial = FALSE`, two requests | two requests of a driver check before either creates |
| `TripPublishing!PublishedByApproved` | "Your documents not approved" | any | the check looks for unapproved rows, and a driver who filed no documents has none |
| `Conversation!OneChat`, `Rating!OneReview` | find, then create; "Rating already submitted" | `Serial = FALSE`, two requests | both find nothing, both create |
| `RouteFare!PromotedOnTheWay` | `BOOKING_THRESHOLD_KM` in `cron/waitlist.cron.ts` | as in `trips` | the promotion matches its entry's pickup and dropoff less strictly than a booking |
| `RouteFare!RefusedOffTheWay` | "Dropoff must come after pickup on the trip route" | as in `trips` | a route that comes near a place twice is matched at one of the two, which may be before the pickup |
| `LocationFetch!FailsAfterEveryAttempt` | "Generic Fetch With Retry" | `BodyFails = TRUE` | the body is read outside the `try` |
| `EmailDelivery!LostOnlyIfRefused` without its bound on `outages` | "so it is not lost" (`workers/email.worker.ts:39`) | `Outages = 2`, `Answers = {"sent"}` | Redis goes away twice under one job: BullMQ gives it up at its second stall |
| `TripSearch!EveryRideShown` | `hasNext` (`utils/buildquery.utils.ts:156`) | `Kinds = {"ofType"}`, `Departures = FALSE` | `getAllUsers` with a type lists by role and counts by the client's filters: the count is smaller than the list, and the answer says there is no next page |
| `TripSearch!EveryRideShown` | `hasNext` (`utils/buildquery.utils.ts:156`) | `Sorts = {"status"}`, `Departures = FALSE` | rows with the same value of the client's sort change places between two pages |
| `TripSearch!NoRideTwice` | `skip` (`utils/buildquery.utils.ts:111`) | `Sorts = {"status"}`, `Arrivals = FALSE` | as above, or the field changes: a row that was shown comes again |
| `TripSearch!EveryRideShown` | `hasNext` (`utils/buildquery.utils.ts:156`) | `Kinds = {"admin"}`, `MaxLimit = 2`, `Limits = {3}`, `Departures = FALSE` | the administrators' lists clamp the page to the largest limit and divide the total by the one asked for: there is a next page, and the answer says there is none |
| `HttpServer!AuthFailsWith400` | `--tests--/auth.test.ts` | any | the errors are answered with 409 and 401 |

`HealthIsAnswered` of `HttpServer` holds: the health check is registered before
the limiters.

## 5. Bounds and fairness

### Bounds

- `MCRideBooking`: one ride, because no handler touches two except the outer
  loop of the tick, whose iterations share nothing but the abort. `Capacity` 1 or
  2 with requests of 1 or 2 seats gives full rides, partial fits and skipped
  entries. Two passengers and two requests give every pairwise race.
  `BookingIds` bounds the bookings ever made, `JoinTimes` the values of
  `createdAt`, `SeatBound` the free seats a cancellation may reach: it is twice
  the capacity where seats could come back twice, so it does not hide a leak.
  Passengers and requests are symmetric; the liveness run uses no symmetry.
The values of `MCAccess`, `MCAfterBooking` and `MCTrips` are in their cfg.

- `MCAccess`: two keys, so that a code of one may be typed for the other; two or
  three codes, so that one is replaced twice; one open request (the properties are
  about failures and restarts, not overlap); TTL of two ticks, so that a code can be
  half expired. Two users, three tokens: a session, its successor, another's.
- `MCAfterBooking`: two bookings against each other with one try each, or one
  with two tries; a price of 4, in which every refund tier is a whole number, and
  the hours at the tiers' edges. Two emails with two outages and a restart, so that
  a job stalls as often as BullMQ lets it and once more, three without: a worker
  with one job active, one waiting, one being enqueued. A cooldown of one tick
  keeps the order in which it, the timer and the outages may come. Three
  messages with a history of one: a message before, during and after a join. Where
handlers take turns one request is enough: which of several is open makes no
difference, since none starts before the open one has ended.
- `MCTrips`: three instants give rides that touch, contain and precede one
  another, in either order of their two times; three open requests are two
  administrators and the driver, who may be restricted and let in meanwhile. Three
  rides over pages of one and two have pages that are full, partly full and last.
  The client sorts by creation (`SortsAreFixed`); where rides come, no list is of
  users of a type (`CountsKept`), and no limit is above the largest page
  (`LimitsKept`). Section 4 has what happens without each. Where rides go, such
  users and limits are in: a client may miss rows there, but sees none twice. The
  chats' count, larger than their list with a filter, only asks for empty pages.
  Routes of
  up to four points on five places of a street, with thresholds of one, have ties,
  repeated points and null coordinates.
- `MCLiveness`: as few actors as meet each other, since each fairness condition
  multiplies the work: two codes of one key, two orders of one booking, three
  emails, two outages, three attempts.

A cap that stops an environment (no attempt, order or code left) is written in the
guard, with its `\* Bound` comment. Deadlock is checked in all runs but the four
whose system may really come to its end, once everything in their bounds is used
up: `after_booking` and `service_liveness` (orders, emails, reviews), `trips` (a
list paged to its end, an answered request) and `refund_of_unpaid`.

### Fairness

What the code justifies, and no more:

- An open handler takes its next step (Node runs what is ready): weak fairness of
  the handlers' continuations. Where `Failures` holds it may fail instead.
- node-cron fires every job again and again: weak fairness of `TickClean`,
  `TripCron`, `BookingCron`. A tick does not abort at the same statement for ever:
  strong fairness of `TickRead` and `TickPromote`, which an abort disables.
- Timers fire and time passes: weak fairness of `TimePasses` and the timers.
- The BullMQ worker takes its jobs in turn, and Razorpay keeps trying to deliver an
  event: strong fairness, since another job, or another request within the
  bound of requests, may be in the way again and again.
- A refused Redis command reaches the worker's error handler; the body of an
  answer ends (`BodyStalls = FALSE`; the code has no timer for it, see section 7).

No request need arrive, no driver or passenger act, no Redis quota be renewed.

## 6. Proofs

All theorems hold for every value of the constants that satisfies the module's
named assumptions (finiteness where sets are counted; `None` not being a row or
an id).

`RideBookingProofs`:

- `TypeCorrect`: `TypeOK` with `Remembered`: the booking an open request has read
  still exists, and the entries of a tick's snapshot still wait. Without the
  second part the steps of the open handlers could not be typed.
- `AcceptedEntriesHaveBookings` and `EntriesPromotedOnce`: for every
  interleaving, from `RowsKept` (bookings keep their ride, passenger and seats)
  and the effects of the steps that touch the waitlist.
- `OnlyLargerRequestsOvertaken`: `OvertakenAskedMore` is not inductive, because
  a promotion compares its entry only with those of the snapshot. The
  strengthening is `SnapshotClosed`: whoever waits and is older than an entry of
  the snapshot is in the snapshot.
- `SerialNeverOversold`: with `Serial` and no answer that revives a cancelled
  booking. The inductive invariant `SerialInv` adds that at most one handler is
  open and that what it has read is still true (`StillTrue`), which is exactly
  what overlapping requests break. `HeldSeats` counts pairs of a booking and
  one of its seats, so that adding or cancelling a booking changes it by a
  cardinality lemma (`InsertHolds`, `CancelFrees`, `StatusesHoldNoMore`).
- `SerialKeepsAccount`: under the same conditions `RideBooking` implements
  `SeatAccount`. Every step is a `SeatMove` (`Takes`, `Gives` or `Lapses`), and a
  move both keeps `NeverOversold` (`MoveKeepsSeats`) and is a step of the account
  (`MoveIsAccounted`).
- `SerialConservesSeats`: `SeatsConserved`, if drivers cancel nothing either.
  Takes and gives keep the sum; what lapses is of rides that are over.
- `SerialHandlesOnce`: `HandledOnce`, with `StartsAreNew` (a ride about to be
  started is still `SCHEDULED`).
- `SerialSecondBookings` and `SerialPositions`: `SecondBookingFromWaitlist` and
  `PositionIsRank`, with `FreshReads` (the aggregate and the count that the open
  handler has read are still true).
- `RidesFollowTheClock`: `StatusFollowsClock`, for every interleaving. A start is
  committed a step after it was checked; `StartsAreDue` holds for it because what
  is past stays past, although its ride may meanwhile have been started.

`FollowUpProofs` extends `Payment` and has `EmailDelivery` (`Post!`),
`Conversation` (`Talk!`) and `Rating` (`Rate!`) as instances; they share only the
open requests, and no theorem is about two of them.

- Payments. `PaidByOwnPayment`, for any overlap, failure and delivery. A booking
  is marked PAID two statements after the row was matched, so what is kept is what
  everybody in between holds: `OrdersBelong` (a row's order, a handler's order and
  an attempt's order belong to the booking they are held for) and `ClaimsHold` (a
  handler about to write PAID, or a captured event under way, has money behind
  it). `BooksGrow` carries both over every step: Razorpay takes no capture back.
  `UnpaidOnlyAfterMoneyBack` proves `UnpaidAfterMoneyBack`: `RefundsHold` adds that
  whoever is about to write REFUNDED, and the event of a lost dispute, has money
  behind it that went back, and `BackStays` that no step undoes that.
  `SerialRowsAgree` proves `RowsAgree`, with `Serial` and without `Failures`: the
  rows of every booking but the open handler's agree, and the stages of that
  handler say which of its two rows is written.
- Emails. `LostAreRefused` (`LostOnlyIfRefused`) rests on `RefusedBefore`: an email
  whose last try threw was refused before; and on `StallsCounted`: a job stalls at
  most once in an outage, because a worker that Redis refuses takes none. So it is
  stated for as many outages as BullMQ forgives stalls. `OneCopy` (`AtMostOneCopy`) rests on
  `UntakenBefore`: an email at a stage after which another mail may be sent has
  not been taken. That fails once Redis or the process goes away under a job, so
  `OneCopyUntilDisturbed` says it holds until then.
- Chats. `SocketsMissNothing` (`NothingMissed`), for every interleaving. What a
  join read is stale when it is sent; `GivenSpan` says it is the newest of the
  first so many messages, as many as the socket is owed or more, so that what it
  lowers `owed` to is covered by what it sends (`LeastOwed`).
- `ChatsAreUnique` (`OneChat`) and `ReviewedOnce` (`OneReview`), with `Serial`: one
  handler is open, and what it did not find is still not there.

`CredentialProofs` extends `OtpStore` and has `Account` as the instance
`Accounts!`. What a code is worth by what may fail, one request at a time:

| Theorem | Property | Redis may refuse | and apply without an answer | Restarts |
|---|---|---|---|---|
| `CodesAreOneTime` | `UsedOnce` | all but DEL | SET, EXPIRE | yes |
| `OnlyNewestAccepted` | `AcceptsNewest` | EXPIRE, DEL | SET, EXPIRE | no |
| `OnlyUnexpiredAccepted` | `AcceptsUnexpired` | all but EXPIRE | EXPIRE | yes |
| `NewestIsFound` | `MailedCodeAccepted` | nothing | nothing | yes |
| `ImplementsCodeStore` | `Abstract!Spec` | nothing | nothing | yes |

An EXPIRE refused and a SET without an answer come to the same: a copy in Redis
without a deadline. A GET without an answer is one refused, and the error of a DEL
is swallowed, so that without an answer it is one that was answered.

Each action is summed up by a lemma of what it does to a key's two copies
(`SetStep` and those after it), and the five inductive invariants are proved from
the summaries. For the refinement, the live code of a key is the one its copies
and its open handler agree on (`LiveCode`), and every step is an `Issue`, a
`Use`, an `Expire`, a `Drop` or leaves the abstract store alone (`StepAbstract`).

Of accounts, `RestrictionIsFinal`, with `Serial` (an overlapping login writes the
token it signed before the restriction). `TokensOwned` says a row's token is
its user's and not cut, and so is the token a login is about to write;
`LoginsHaveAccounts` that a login's row does not vanish. `RestrictionIsAnnounced`
proves `RestrictedRefused`, with `Serial` and no failure but of SREM: whose row
says restricted is in the set of Redis, or the open handler is about to put it
there.

`TripPublishingProofs`: `ApprovedAtOnce`, for any number of administrators and
drivers at the documents. `ReviewCount` reads after the write of one review, so
other reviews come between; `Agreed` (whoever's row is approved in both parts is
in the history) and `CountHolds` (a review past its count is of a driver in the
history) close the induction. With `barred` and `verified` in the state, it also
says that the review sets the flag of a restricted driver only for both documents.
`SerialNoOverlap` proves `NoOverlap`, with `Serial`:
what the open request found clear still is (`StaysClear`).

`TripSearchProofs`: `SteadyRidesAreShown` (`EveryRideShown`) while rides come, and
`RidesAreShownOnce` (`NoRideTwice`) while they go. `PlacesInList` says a list is
laid out by places, `PagesFollow` that a page begins where the one before ended.
Arrivals move the rides behind them to later places: a ride that was in the list
all the time and was not shown is at or behind the end of the last page
(`SteadyAhead`). Departures move rides to earlier places: a ride that was shown
stays before that end (`ShownBehind`). Both need a client that sorts by creation
(`SortsAreFixed`), so that a ride keeps its order; the first also needs a count no
smaller than the list (`CountsKept`) and pages counted as they are given
(`LimitsKept`). Section 4 shows each fail without.

`AccessProofs`:

- `RequestsAreLimited` (`AuthIsLimited` of `HttpServer`): a handler ran only for a
  request its limiter counted (`CountedByLimiter`). `HealthAlwaysAnswers` has
  `TypeOK` and `HealthIsAnswered`.
- `OneTime` (`UsedOnce` of `CodeStore`). That a live code is unused does not
  follow from the counters alone: `LiveIsFresh` adds that live codes have not been
  used and belong to one key. With `ImplementsCodeStore` it carries over to the
  real store.

`TripsProofs`:

- `FetchesAreRetried` (`FailsAfterEveryAttempt`), if no body breaks off, and with
  it that no attempt waits without a timer of its own (`WaitsUnderTimer`): the part
  of `EveryFetchEnds` that is safety.
- `PointsAreFirst` (`PointsFollowRoute`): the loop that names the points keeps the
  first step of every name (`ListsFirst`), and the answer is a part of its list in
  the same order.
- Fares. The two reduces are summed up by what they return: the first of the
  points at the least distance (`IsFirstNearest`) and a total no less than the
  distance of its ends (`IsTotal`, `SegmentBounds`). `BookingsAreOnTheWay`,
  `FaresCoverTheWay`, `PromotionsCostTheSame` and `FirstNearestIsFound` follow from
  `AnswersOK`, which says what the ride and the answers are once given.

What these loops return is proved by induction along the list. The library's
induction theorems take an operator, which no prover here instantiates; `NatSets`
states the induction on sets of numbers instead, so that a set is what is
instantiated, and `LoopResults` concludes from it that a loop over a list has a
result.

What the runs check follows from these theorems in `AccessProofs`,
`AfterBookingProofs` and `TripsProofs`: a behaviour of the MC module either is one
of a component, in that component's scenario, or never plays it (`CodesPlay` and the
lemmas like it), so that an invariant of the component is one of the MC module in
that scenario. The type invariants of the components (`TypeCorrect`,
`AccountTypeCorrect`, `MailTypeCorrect`, `TalkTypeCorrect`, `ReviewTypes`,
`FaresTypeCorrect`, with `HealthAlwaysAnswers` and `PointsAreFirst`) make up
`TypeCorrect` of each.

Only model-checked: all liveness, the five properties of `MCLiveness` and three of
`MCRideBooking` (the prover does not handle fairness and ENABLED). The three
violations are TLC's, and so are those of section 4.

## 7. Not modelled

- Ticks of the waitlist cron that overlap: they are ten minutes apart, and a tick
  that takes longer would be another fault.
- A promotion that comes after the start of its ride, and a pickup written over
  what the booking became meanwhile: both are possible steps of `RideBooking`, but
  no text of the repository says they should not be.
- Seat counts below one in `joinWaitlist`, whose body no schema validates.
- The body of a fetch that stalls: nothing in the code ends it (`BodyStalls`).
- A socket handler that rejects ends the process: a restart is a step of
  `Conversation` at any moment.
- The start of the server without a database: `HttpServer` has the step; the crons'
  liveness is stated for a server whose crons run.
- The dispute events other than a lost one, and downtime events: they only log.
- Refunds within `RideBooking` (section 2, item 3).
- Admin dashboards and other reads that nothing reads back; profile reads, roles
  and password hashing; typing events, which keep no state; uploads to object
  storage, document urls, email templates, configuration, CORS, headers,
  compression and the routing table: I/O, wording and wiring.
