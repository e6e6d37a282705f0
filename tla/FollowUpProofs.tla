--------------------------- MODULE FollowUpProofs ---------------------------
(***************************************************************************)
(* What follows a booking, for any values of the constants: its payment    *)
(* (Payment), the emails about it (EmailDelivery), the chat of driver and  *)
(* passenger (Conversation) and the review at the end (Rating).  The four  *)
(* share no state, so each part is about one of them.                      *)
(***************************************************************************)
EXTENDS Payment, Sequences, TLAPS

CONSTANTS
    Emails, Codes, Cooldown, Outages, Answers, Restarts,         \* of EmailDelivery
    Rides, Driver, Passengers, Chats, MaxMessages, Recent,       \* of Conversation
    Users, MaxReviews, MaxBookings                               \* of Rating

VARIABLES
    forced, email, tries, stalls, copies, failed, trippedAt, paused, isWorkerPaused,
    timer, overQuota, outages, restarts,
    chat, message, room, seen, owed,
    status, bookings, reviews

Post == INSTANCE EmailDelivery
Talk == INSTANCE Conversation
Rate == INSTANCE Rating

------------------------------------------------------------------------------
(* Payment.  Only money captured for a booking makes it paid, for any book-*)
(* ings, orders, payments and overlapping handlers, failures and repeated  *)
(* events included.  What carries it: Razorpay's books only grow           *)
(* (StepGrows), a row keeps to the orders of its booking (OrdersBelong),   *)
(* and what an open handler or a waiting event claims to be paid is paid   *)
(* (ClaimsHold).  Only money going back makes it unpaid again: whoever is  *)
(* about to write REFUNDED has it behind it (RefundsHold).  And the two    *)
(* rows of a booking agree whenever no handler is open, if one handler runs*)
(* at a time and to its end (SerialRowsAgree).                             *)

\* Every order a row, a handler, a passenger or a payment holds was created,
\* and the row and the handler hold one of their booking.
OrdersBelong ==
    /\ \A b \in Bookings : payment[b] # None => orderOf[payment[b].order] = b
    /\ \A q \in Requests : request[q].at \in {"orderMade", "orderKept"} =>
           orderOf[request[q].order] = request[q].booking
    /\ \A o \in offered : orderOf[o] # None
    /\ \A p \in Attempts : attempt[p].order # None => orderOf[attempt[p].order] # None

\* Handlers past their checks work on a booking that has a row; what they or
\* an event of Razorpay are about to record as paid has been captured.
RowStages == {"verifySeen", "markPaid", "markRefunded", "refundSeen", "refundMade", "cancel"}
ClaimsHold ==
    /\ \A q \in Requests : request[q].at \in RowStages => payment[request[q].booking] # None
    /\ \A q \in Requests : At(q, "verifySeen") => request[q].pay \in PaidFor(Of(q))
    /\ \A q \in Requests : At(q, "markPaid") => PaidFor(Of(q)) # {}
    /\ \A p \in Attempts : <<"captured", p>> \in events => Captured(p)

IInv == TypeOK /\ OrdersBelong /\ ClaimsHold /\ PaidByItsOwnPayment

\* Razorpay forgets no captured payment, and moves none to another booking.
BooksGrow == \A b \in Bookings, p \in Attempts : p \in PaidFor(b) => p \in PaidFor(b)'

\* The initial state: nothing is ordered, paid or open.
LEMMA InitIInv ==
    ASSUME Assumptions, Init
    PROVE  IInv
<1> USE DEF Init, Assumptions
<1>1. TypeOK
  <2>1. booking \in [Bookings -> BookingRow]
    <3> DEFINE New == {[mode |-> m, cancelled |-> FALSE, paymentStatus |-> "PENDING",
                        orderId |-> None] : m \in Modes}
    <3>1. ASSUME NEW m \in Modes
          PROVE  [mode |-> m, cancelled |-> FALSE, paymentStatus |-> "PENDING",
                  orderId |-> None] \in BookingRow
      BY Zenon DEF BookingRow, PaymentStatus
    <3>2. booking \in [Bookings -> New]
      OBVIOUS
    <3> QED
      BY <3>1, <3>2
  <2>2. Unpaid \in Attempt
    BY DEF Attempt, Unpaid, Results, Price
  <2>3. Idle \in RequestState
    BY DEF RequestState
  <2> QED
    BY <2>1, <2>2, <2>3 DEF TypeOK
<1>2. OrdersBelong
  BY DEF OrdersBelong, Idle, Unpaid
<1>3. ClaimsHold
  BY DEF ClaimsHold, At, Idle, RowStages
<1>4. PaidByItsOwnPayment
  BY DEF PaidByItsOwnPayment, Paid
<1> QED
  BY <1>1, <1>2, <1>3, <1>4 DEF IInv

\* A handler that goes on changes what it remembers, and no other's memory.
LEMMA GoesOn ==
    ASSUME TypeOK, NEW q \in Requests, NEW state, Goes(q, state)
    PROVE  /\ request'[q] = state
           /\ \A r \in Requests : r # q => request'[r] = request[r]
           /\ state \in RequestState => request' \in [Requests -> RequestState]
BY DEF Goes, TypeOK

\* One that ends remembers nothing.
LEMMA IdleType == Idle \in RequestState /\ Idle.at = "idle"
BY DEF RequestState, Idle

\* A step outside Razorpay that changes no row's order, and takes no handler
\* to a stage of createOrder, leaves the orders where they belong.
LEMMA KeepOrders ==
    ASSUME OrdersBelong, UNCHANGED razorpay,
           \A b \in Bookings : payment'[b] # None =>
               payment[b] # None /\ payment'[b].order = payment[b].order,
           NEW q \in Requests, request'[q].at \notin {"orderMade", "orderKept"},
           \A r \in Requests : r # q => request'[r] = request[r]
    PROVE  OrdersBelong'
BY DEF OrdersBelong, razorpay

\* Whatever a step does to the books, they grow.
LEMMA StepGrows ==
    ASSUME Assumptions, TypeOK, OrdersBelong, [Next]_vars
    PROVE  BooksGrow
<1> USE DEF Assumptions, BooksGrow, PaidFor, Captured
<1>1. CASE UNCHANGED razorpay
  BY <1>1 DEF razorpay
<1>2. ASSUME NEW q \in Requests, NEW o \in Orders, OrderCreate(q, o) PROVE BooksGrow
  BY <1>2 DEF OrderCreate, TypeOK, Attempt
<1>3. ASSUME NEW q \in Requests, OrderAnswer(q) PROVE BooksGrow
  BY <1>3 DEF OrderAnswer
<1>4. ASSUME NEW p \in Attempts, NEW o \in Orders, NEW r \in Results, PayAttempt(p, o, r)
      PROVE BooksGrow
  BY <1>4 DEF PayAttempt, TypeOK
<1>5. ASSUME NEW p \in Attempts, LoseDispute(p) PROVE BooksGrow
  BY <1>5 DEF LoseDispute, TypeOK, Attempt
<1>6. ASSUME NEW q \in Requests, RefundCall(q) PROVE BooksGrow
  BY <1>6 DEF RefundCall, TypeOK, Attempt
<1>7. CASE UNCHANGED vars
  BY <1>1, <1>7 DEF vars, razorpay
<1>8. CASE Next
  BY <1>1, <1>2, <1>3, <1>4, <1>5, <1>6, <1>8
     DEF Next, OrderRead, RefundRead, VerifyRead, Continue, OrderUpsert, VerifyUpdate, MarkPaid,
         MarkRefunded, RefundUpdate, RefundCancel, Fail, Webhook, WebhookCaptured,
         WebhookFailed, WebhookLost, TimePasses
<1> QED
  BY <1>7, <1>8

\* Orders stay those of their bookings: an order is created once, and a row
\* only changes its order to one that its handler created.
LEMMA StepOrders ==
    ASSUME Assumptions, TypeOK, OrdersBelong, ClaimsHold, [Next]_vars
    PROVE  OrdersBelong'
<1> USE DEF Assumptions, OrdersBelong
<1>1. ASSUME NEW q \in Requests, NEW b \in Bookings,
             OrderRead(q, b) \/ RefundRead(q, b) \/ \E p \in Attempts : VerifyRead(q, b, p)
      PROVE  OrdersBelong'
  <2>1. UNCHANGED <<payment, razorpay>>
    BY <1>1 DEF OrderRead, RefundRead, VerifyRead, rows
  <2>2. /\ request'[q].at \in {"orderSeen", "refundSeen", "verifySeen"}
        /\ \A r \in Requests : r # q => request'[r] = request[r]
    BY <1>1 DEF OrderRead, RefundRead, VerifyRead, Opens, Goes, Stage, TypeOK
  <2> HIDE DEF OrdersBelong
  <2> QED
    BY <2>1, <2>2, KeepOrders
<1>2. ASSUME NEW q \in Requests, NEW o \in Orders, OrderCreate(q, o) PROVE OrdersBelong'
  <2>1. /\ orderOf[o] = None /\ orderOf' = [orderOf EXCEPT ![o] = request[q].booking]
        /\ UNCHANGED <<payment, offered, attempt>>
    BY <1>2 DEF OrderCreate, Of, rows
  <2>2. request[q].booking \in Bookings
    BY <1>2 DEF OrderCreate, At, TypeOK, RequestState, Idle
  <2>3. \A n \in Orders : orderOf'[n] = IF n = o THEN request[q].booking ELSE orderOf[n]
    BY <2>1 DEF TypeOK
  <2>4. Goes(q, [at |-> "orderMade", booking |-> request[q].booking, order |-> o])
    BY <1>2 DEF OrderCreate, Of
  <2>5. \A r \in Requests : request'[r].at \in {"orderMade", "orderKept"} =>
            orderOf'[request'[r].order] = request'[r].booking
    <3>1. \A r \in Requests : request[r].at \in {"orderMade", "orderKept"} =>
              request[r].order \in Orders /\ request[r].booking \in Bookings
      BY DEF TypeOK, RequestState, Idle
    <3> QED
      BY <2>1, <2>3, <2>4, <3>1, GoesOn
  <2>6. \A b \in Bookings : payment'[b] # None => orderOf'[payment'[b].order] = b
    BY <2>1, <2>3 DEF TypeOK, PaymentRow
  <2>7. \A n \in Orders : orderOf[n] # None => orderOf'[n] # None
    BY <2>1, <2>3
  <2>8. \A n \in offered' : orderOf'[n] # None
    BY <2>1, <2>7 DEF TypeOK
  <2>9. \A p \in Attempts : attempt'[p].order # None => orderOf'[attempt'[p].order] # None
    BY <2>1, <2>7 DEF TypeOK, Attempt
  <2> QED
    BY <2>5, <2>6, <2>8, <2>9
<1>3. ASSUME NEW q \in Requests, OrderUpsert(q) PROVE OrdersBelong'
  BY <1>3 DEF OrderUpsert, Goes, Of, At, razorpay, TypeOK, RequestState, Idle
<1>4. ASSUME NEW q \in Requests, OrderAnswer(q) PROVE OrdersBelong'
  BY <1>4 DEF OrderAnswer, Closes, Goes, Of, At, TypeOK, RequestState, Idle
<1>5. ASSUME NEW q \in Requests,
             VerifyUpdate(q) \/ MarkPaid(q) \/ MarkRefunded(q) \/ RefundUpdate(q) \/ RefundCancel(q)
             \/ Fail(q)
      PROVE  OrdersBelong'
  <2>1. UNCHANGED razorpay
    BY <1>5 DEF VerifyUpdate, MarkPaid, MarkRefunded, RefundUpdate, RefundCancel, Fail
  <2>2. /\ request'[q].at \in {"idle", "markPaid", "cancel"}
        /\ \A r \in Requests : r # q => request'[r] = request[r]
    BY <1>5, IdleType
       DEF VerifyUpdate, MarkPaid, MarkRefunded, RefundUpdate, RefundCancel, Fail, Closes, Goes,
           Stage, TypeOK
  <2>3. request[q].at \in RowStages \/ UNCHANGED payment
    BY <1>5 DEF VerifyUpdate, MarkPaid, MarkRefunded, RefundUpdate, RefundCancel, Fail, At,
                RowStages, rows
  <2>4. \A b \in Bookings : payment'[b] # None =>
            payment[b] # None /\ payment'[b].order = payment[b].order
    BY <1>5, <2>3
       DEF VerifyUpdate, MarkPaid, MarkRefunded, RefundUpdate, RefundCancel, Fail, Of, rows, TypeOK,
           PaymentRow, RowStages, ClaimsHold
  <2> HIDE DEF OrdersBelong
  <2> QED
    BY <2>1, <2>2, <2>4, KeepOrders
<1>6. ASSUME NEW q \in Requests, RefundCall(q) PROVE OrdersBelong'
  BY <1>6 DEF RefundCall, Closes, Goes, Stage, Idle, rows, TypeOK, Attempt
<1>7. ASSUME NEW p \in Attempts, NEW o \in Orders, NEW r \in Results, PayAttempt(p, o, r)
      PROVE  OrdersBelong'
  BY <1>7 DEF PayAttempt, rows, TypeOK, Attempt
<1>8. ASSUME NEW p \in Attempts, LoseDispute(p) PROVE OrdersBelong'
  BY <1>8 DEF LoseDispute, rows, TypeOK, Attempt
<1>9. ASSUME NEW p \in Attempts, NEW q \in Requests,
             WebhookCaptured(q, p) \/ WebhookFailed(q, p) \/ WebhookLost(q, p)
      PROVE  OrdersBelong'
  <2>1. UNCHANGED razorpay
    BY <1>9 DEF WebhookCaptured, WebhookFailed, WebhookLost
  <2>2. /\ payment \in [Bookings -> PaymentRow \cup {None}]
        /\ request \in [Requests -> RequestState]
    BY DEF TypeOK
  <2>3. CASE \E b \in Bookings :
                 /\ RowMatches(b, p)
                 /\ payment' = [payment EXCEPT ![b].payId = p, ![b].status = "PAID"]
                 /\ Opens(q, Stage("markPaid", b))
    <3> PICK b \in Bookings :
                 /\ RowMatches(b, p)
                 /\ payment' = [payment EXCEPT ![b].payId = p, ![b].status = "PAID"]
                 /\ Opens(q, Stage("markPaid", b))
      BY <2>3
    <3>1. \A a \in Bookings : payment'[a] # None =>
              payment[a] # None /\ payment'[a].order = payment[a].order
      BY <2>2 DEF RowMatches, PaymentRow
    <3>2. request'[q].at = "markPaid" /\ \A r \in Requests : r # q => request'[r] = request[r]
      BY <2>2 DEF Opens, Goes, Stage
    <3> HIDE DEF OrdersBelong
    <3> QED
      BY <2>1, <3>1, <3>2, KeepOrders
  <2>4. CASE \E b \in Bookings :
                 /\ HasPayId(b, p)
                 /\ payment' = [payment EXCEPT ![b].status = "REFUNDED",
                                               ![b].refundStatus = "PROCESSED"]
                 /\ Opens(q, Stage("markRefunded", b))
    <3> PICK b \in Bookings :
                 /\ HasPayId(b, p)
                 /\ payment' = [payment EXCEPT ![b].status = "REFUNDED",
                                               ![b].refundStatus = "PROCESSED"]
                 /\ Opens(q, Stage("markRefunded", b))
      BY <2>4
    <3>1. \A a \in Bookings : payment'[a] # None =>
              payment[a] # None /\ payment'[a].order = payment[a].order
      BY <2>2 DEF HasPayId, PaymentRow
    <3>2. request'[q].at = "markRefunded" /\ \A r \in Requests : r # q => request'[r] = request[r]
      BY <2>2 DEF Opens, Goes, Stage
    <3> HIDE DEF OrdersBelong
    <3> QED
      BY <2>1, <3>1, <3>2, KeepOrders
  <2>5. CASE /\ Opens(q, Idle)
             /\ \/ UNCHANGED payment
                \/ payment' = [b \in Bookings |-> IF RowMatches(b, p)
                       THEN [payment[b] EXCEPT !.status = "FAILED"] ELSE payment[b]]
    <3>1. \A a \in Bookings : payment'[a] # None =>
              payment[a] # None /\ payment'[a].order = payment[a].order
      BY <2>2, <2>5 DEF RowMatches, PaymentRow
    <3>2. request'[q].at = "idle" /\ \A r \in Requests : r # q => request'[r] = request[r]
      BY <2>2, <2>5, IdleType DEF Opens, Goes
    <3> HIDE DEF OrdersBelong
    <3> QED
      BY <2>1, <3>1, <3>2, KeepOrders
  <2> HIDE DEF OrdersBelong
  <2> QED
    BY <1>9, <2>3, <2>4, <2>5 DEF WebhookCaptured, WebhookFailed, WebhookLost
<1>10. ASSUME TimePasses \/ UNCHANGED vars PROVE OrdersBelong'
  BY <1>10 DEF TimePasses, vars, rows, razorpay
<1> QED
  BY <1>1, <1>2, <1>3, <1>4, <1>5, <1>6, <1>7, <1>8, <1>9, <1>10 DEF Next, Continue, Webhook

\* The types of the rows and of Razorpay's books, action by action.
LEMMA StepType ==
    ASSUME Assumptions, TypeOK, ClaimsHold, [Next]_vars
    PROVE  TypeOK'
<1> USE DEF Assumptions
<1>1. /\ booking \in [Bookings -> BookingRow] /\ payment \in [Bookings -> PaymentRow \cup {None}]
      /\ orderOf \in [Orders -> Bookings \cup {None}] /\ offered \subseteq Orders
      /\ attempt \in [Attempts -> Attempt] /\ events \subseteq (Results \cup {"lost"}) \X Attempts
      /\ hours \in Notice /\ request \in [Requests -> RequestState]
  BY DEF TypeOK
<1> USE <1>1
<1>2. ASSUME NEW q \in Requests, NEW b \in Bookings,
             OrderRead(q, b) \/ RefundRead(q, b) \/ \E p \in Attempts : VerifyRead(q, b, p)
      PROVE  TypeOK'
  <2>1. CASE OrderRead(q, b)
    <3>1. Stage("orderSeen", b) \in RequestState
      BY DEF Stage, RequestState
    <3> QED
      BY <2>1, <3>1 DEF OrderRead, Opens, Goes, rows, razorpay, TypeOK
  <2>2. CASE RefundRead(q, b)
    <3>1. payment[b].payId \in Attempts
      BY <2>2 DEF RefundRead, MayRefund, PaymentRow
    <3>2. [at |-> "refundSeen", booking |-> b, pay |-> payment[b].payId] \in RequestState
      BY <3>1 DEF RequestState
    <3> QED
      BY <2>2, <3>2 DEF RefundRead, Opens, Goes, rows, razorpay, TypeOK
  <2>3. CASE \E p \in Attempts : VerifyRead(q, b, p)
    <3>1. \A p \in Attempts : [at |-> "verifySeen", booking |-> b, pay |-> p] \in RequestState
      BY DEF RequestState
    <3> QED
      BY <2>3, <3>1 DEF VerifyRead, Opens, Goes, rows, razorpay, TypeOK
  <2> QED
    BY <1>2, <2>1, <2>2, <2>3
<1>3. ASSUME NEW q \in Requests, NEW o \in Orders, OrderCreate(q, o) PROVE TypeOK'
  <2>1. request[q].booking \in Bookings
    BY <1>3 DEF OrderCreate, At, RequestState, Idle
  <2>2. [at |-> "orderMade", booking |-> request[q].booking, order |-> o] \in RequestState
    BY <2>1 DEF RequestState
  <2> QED
    BY <1>3, <2>1, <2>2 DEF OrderCreate, Of, Goes, rows, TypeOK
<1>4. ASSUME NEW q \in Requests, OrderUpsert(q) PROVE TypeOK'
  <2>1. request[q] \in [at : {"orderMade"}, booking : Bookings, order : Orders]
    BY <1>4 DEF OrderUpsert, At, RequestState, Idle
  <2>2. [request[q] EXCEPT !.at = "orderKept"] \in RequestState
    BY <2>1 DEF RequestState
  <2>3. [order |-> request[q].order, status |-> "PENDING", payId |-> None,
         refundStatus |-> None] \in PaymentRow
    BY <2>1 DEF PaymentRow, PaymentStatus
  <2> QED
    BY <1>4, <2>2, <2>3 DEF OrderUpsert, Goes, razorpay, TypeOK
<1>5. ASSUME NEW q \in Requests, OrderAnswer(q) PROVE TypeOK'
  <2>1. request[q] \in [at : {"orderKept"}, booking : Bookings, order : Orders]
    BY <1>5 DEF OrderAnswer, At, RequestState, Idle
  <2>2. booking' \in [Bookings -> BookingRow]
    BY <1>5, <2>1 DEF OrderAnswer, Of, BookingRow
  <2> QED
    BY <1>5, <2>1, <2>2, IdleType DEF OrderAnswer, Of, Closes, Goes, TypeOK
<1>6. ASSUME NEW q \in Requests, VerifyUpdate(q) PROVE TypeOK'
  <2>1. request[q] \in [at : {"verifySeen"}, booking : Bookings, pay : Attempts]
    BY <1>6 DEF VerifyUpdate, At, RequestState, Idle
  <2>2. payment[request[q].booking] \in PaymentRow
    BY <2>1 DEF ClaimsHold, RowStages
  <2>3. [payment[request[q].booking] EXCEPT !.payId = request[q].pay, !.status = "PAID"]
            \in PaymentRow
    BY <2>1, <2>2 DEF PaymentRow, PaymentStatus
  <2>4. Stage("markPaid", request[q].booking) \in RequestState
    BY <2>1 DEF Stage, RequestState
  <2> QED
    BY <1>6, <2>3, <2>4 DEF VerifyUpdate, Of, Goes, razorpay, TypeOK
<1>7. ASSUME NEW q \in Requests, MarkPaid(q) \/ MarkRefunded(q) \/ RefundCancel(q)
      PROVE  TypeOK'
  <2>1. \A b \in Bookings, s \in PaymentStatus :
            [booking[b] EXCEPT !.paymentStatus = s] \in BookingRow
    BY DEF BookingRow
  <2>2. \A b \in Bookings :
            [booking[b] EXCEPT !.cancelled = TRUE, !.paymentStatus = "REFUNDED"] \in BookingRow
    <3> TAKE b \in Bookings
    <3>1. booking[b] \in BookingRow
      OBVIOUS
    <3> QED
      BY Zenon, <3>1 DEF BookingRow, PaymentStatus
  <2>3. booking' \in [Bookings -> BookingRow]
    <3>1. CASE MarkPaid(q)
      BY <2>1, <3>1 DEF MarkPaid, SetStatus, PaymentStatus
    <3>2. CASE MarkRefunded(q)
      BY <2>1, <3>2 DEF MarkRefunded, SetStatus, PaymentStatus
    <3>3. CASE RefundCancel(q)
      BY <2>2, <3>3 DEF RefundCancel
    <3> QED
      BY <1>7, <3>1, <3>2, <3>3
  <2>4. request' \in [Requests -> RequestState]
    BY <1>7, IdleType DEF MarkPaid, MarkRefunded, RefundCancel, Closes, Goes
  <2> QED
    BY <1>7, <2>3, <2>4 DEF MarkPaid, MarkRefunded, RefundCancel, razorpay, TypeOK
<1>8. ASSUME NEW q \in Requests, RefundCall(q) PROVE TypeOK'
  <2>1. request[q] \in [at : {"refundSeen"}, booking : Bookings, pay : Attempts]
    BY <1>8 DEF RefundCall, At, RequestState, Idle
  <2>2. RefundAmount(hours) \in Nat
    BY DEF RefundAmount, Price
  <2>3. attempt' \in [Attempts -> Attempt]
    <3> DEFINE amount == RefundAmount(hours)
               pay == request[q].pay
    <3>1. CASE UNCHANGED attempt
      BY <3>1
    <3>2. CASE Refundable(pay, amount) /\ attempt' = [attempt EXCEPT ![pay].back = @ + amount]
      <4> HIDE DEF amount
      <4>3. attempt[pay].back \in 0..Price
        BY <2>1 DEF Attempt
      <4>4. amount \in Nat
        BY <2>2 DEF amount
      <4>1. attempt[pay].back + amount \in 0..Price
        BY <3>2, <4>3, <4>4 DEF Refundable, Price
      <4>2. [attempt[pay] EXCEPT !.back = @ + amount] \in Attempt
        BY <2>1, <4>1 DEF Attempt
      <4> QED
        BY <2>1, <3>2, <4>2
    <3> QED
      BY <1>8, <3>1, <3>2 DEF RefundCall
  <2>4. request' \in [Requests -> RequestState]
    <3>1. Stage("refundMade", request[q].booking) \in RequestState
      BY <2>1 DEF Stage, RequestState
    <3> QED
      BY <1>8, <3>1, IdleType DEF RefundCall, Of, Closes, Goes
  <2> QED
    BY <1>8, <2>3, <2>4 DEF RefundCall, rows, TypeOK
<1>9. ASSUME NEW q \in Requests, RefundUpdate(q) PROVE TypeOK'
  <2>1. request[q] \in [at : {"refundMade"}, booking : Bookings]
    BY <1>9 DEF RefundUpdate, At, RequestState, Idle
  <2>2. payment[request[q].booking] \in PaymentRow
    BY <2>1 DEF ClaimsHold, RowStages
  <2>3. [payment[request[q].booking] EXCEPT !.refundStatus = "PENDING", !.status = "REFUNDED"]
            \in PaymentRow
    BY <2>2 DEF PaymentRow, PaymentStatus
  <2>4. Stage("cancel", request[q].booking) \in RequestState
    BY <2>1 DEF Stage, RequestState
  <2> QED
    BY <1>9, <2>3, <2>4 DEF RefundUpdate, Of, Goes, razorpay, TypeOK
<1>10. ASSUME NEW q \in Requests, NEW p \in Attempts, WebhookCaptured(q, p) PROVE TypeOK'
  <2>1. events' \subseteq events
    BY <1>10 DEF WebhookCaptured, Delivered
  <2>2. payment' \in [Bookings -> PaymentRow \cup {None}]
    <3>1. CASE UNCHANGED payment
      BY <3>1
    <3>2. ASSUME NEW b \in Bookings, RowMatches(b, p),
                 payment' = [payment EXCEPT ![b].payId = p, ![b].status = "PAID"]
          PROVE  payment' \in [Bookings -> PaymentRow \cup {None}]
      <4>1. payment[b] \in PaymentRow
        BY <3>2 DEF RowMatches
      <4>2. [payment[b] EXCEPT !.payId = p, !.status = "PAID"] \in PaymentRow
        BY <4>1 DEF PaymentRow, PaymentStatus
      <4> QED
        BY <3>2, <4>2
    <3> QED
      BY <1>10, <3>1, <3>2 DEF WebhookCaptured
  <2>3. request' \in [Requests -> RequestState]
    <3>1. \A b \in Bookings : Stage("markPaid", b) \in RequestState
      BY DEF Stage, RequestState
    <3>2. \E state \in RequestState : Goes(q, state)
      BY <1>10, <3>1, IdleType DEF WebhookCaptured, Opens
    <3> QED
      BY <3>2 DEF Goes
  <2> QED
    BY <1>10, <2>1, <2>2, <2>3 DEF WebhookCaptured, razorpay, TypeOK
<1>11. ASSUME NEW q \in Requests, NEW p \in Attempts, WebhookFailed(q, p) PROVE TypeOK'
  <2>1. events' \subseteq events
    BY <1>11 DEF WebhookFailed, Delivered
  <2>2. ASSUME NEW b \in Bookings, RowMatches(b, p)
        PROVE  [payment[b] EXCEPT !.status = "FAILED"] \in PaymentRow
    <3>1. payment[b] \in PaymentRow
      BY <2>2 DEF RowMatches
    <3> QED
      BY <3>1 DEF PaymentRow, PaymentStatus
  <2>3. payment' \in [Bookings -> PaymentRow \cup {None}]
    BY <1>11, <2>2 DEF WebhookFailed
  <2>4. request' \in [Requests -> RequestState]
    BY <1>11, IdleType DEF WebhookFailed, Opens, Goes
  <2> QED
    BY <1>11, <2>1, <2>3, <2>4 DEF WebhookFailed, razorpay, TypeOK
<1>12. ASSUME NEW q \in Requests, NEW p \in Attempts, WebhookLost(q, p) PROVE TypeOK'
  <2>1. events' \subseteq events
    BY <1>12 DEF WebhookLost, Delivered
  <2>2. payment' \in [Bookings -> PaymentRow \cup {None}]
    <3>1. CASE UNCHANGED payment
      BY <3>1
    <3>2. ASSUME NEW b \in Bookings, HasPayId(b, p),
                 payment' = [payment EXCEPT ![b].status = "REFUNDED",
                                            ![b].refundStatus = "PROCESSED"]
          PROVE  payment' \in [Bookings -> PaymentRow \cup {None}]
      <4>1. payment[b] \in PaymentRow
        BY <3>2 DEF HasPayId
      <4>2. [payment[b] EXCEPT !.status = "REFUNDED", !.refundStatus = "PROCESSED"] \in PaymentRow
        BY <4>1 DEF PaymentRow, PaymentStatus
      <4> QED
        BY <3>2, <4>2
    <3> QED
      BY <1>12, <3>1, <3>2 DEF WebhookLost
  <2>3. request' \in [Requests -> RequestState]
    <3>1. \A b \in Bookings : Stage("markRefunded", b) \in RequestState
      BY DEF Stage, RequestState
    <3>2. \E state \in RequestState : Goes(q, state)
      BY <1>12, <3>1, IdleType DEF WebhookLost, Opens
    <3> QED
      BY <3>2 DEF Goes
  <2> QED
    BY <1>12, <2>1, <2>2, <2>3 DEF WebhookLost, razorpay, TypeOK
<1>13. ASSUME NEW p \in Attempts, NEW o \in Orders, NEW r \in Results, PayAttempt(p, o, r)
       PROVE  TypeOK'
  <2>1. attempt' \in [Attempts -> Attempt]
    <3>1. [attempt[p] EXCEPT !.order = o, !.result = r] \in Attempt
      BY DEF Attempt
    <3> QED
      BY <1>13, <3>1 DEF PayAttempt
  <2>2. events' \subseteq (Results \cup {"lost"}) \X Attempts
    BY <1>13 DEF PayAttempt
  <2> QED
    BY <1>13, <2>1, <2>2 DEF PayAttempt, rows, TypeOK
<1>14. ASSUME NEW p \in Attempts, LoseDispute(p) PROVE TypeOK'
  <2>1. [attempt[p] EXCEPT !.lost = TRUE] \in Attempt
    BY DEF Attempt
  <2>2. attempt' \in [Attempts -> Attempt]
    BY <1>14, <2>1 DEF LoseDispute
  <2>3. events' \subseteq (Results \cup {"lost"}) \X Attempts
    BY <1>14 DEF LoseDispute
  <2> QED
    BY <1>14, <2>2, <2>3 DEF LoseDispute, rows, TypeOK
<1>15. ASSUME NEW q \in Requests, Fail(q) PROVE TypeOK'
  BY <1>15, IdleType DEF Fail, Closes, Goes, rows, razorpay, TypeOK
<1>16. ASSUME TimePasses \/ UNCHANGED vars PROVE TypeOK'
  BY <1>16 DEF TimePasses, vars, rows, razorpay, TypeOK
<1> QED
  BY <1>2, <1>3, <1>4, <1>5, <1>6, <1>7, <1>8, <1>9, <1>10, <1>11, <1>12, <1>13, <1>14, <1>15,
     <1>16 DEF Next, Continue, Webhook

\* What a handler's step must show for the claims to go on: its own new claim,
\* and that no row it writes names a payment that is not its booking's.
LEMMA KeepClaims ==
    ASSUME ClaimsHold, PaidByItsOwnPayment, BooksGrow, TypeOK,
           \A b \in Bookings : payment[b] # None => payment'[b] # None,
           \A b \in Bookings : payment'[b] # None =>
               \/ payment'[b].payId = None
               \/ payment[b] # None /\ payment'[b].payId = payment[b].payId
               \/ payment'[b].payId \in PaidFor(b)',
           \A b \in Bookings : Paid(b)' => Paid(b) \/ PaidFor(b)' # {},
           \A p \in Attempts : <<"captured", p>> \in events' => Captured(p)',
           NEW q \in Requests,
           \A r \in Requests : r # q => request'[r] = request[r],
           \/ request'[q] = request[q]
           \/ /\ request'[q].at \in RowStages => payment'[request'[q].booking] # None
              /\ At(q, "verifySeen")' => request'[q].pay \in PaidFor(Of(q))'
              /\ At(q, "markPaid")' => PaidFor(Of(q))' # {}
    PROVE  ClaimsHold' /\ PaidByItsOwnPayment'
<1>1. \A r \in Requests : request[r].at \in RowStages => request[r].booking \in Bookings
  BY DEF TypeOK, RequestState, Idle, RowStages
<1>2. \A b \in Bookings : PaidFor(b) # {} => PaidFor(b)' # {}
  BY DEF BooksGrow, PaidFor
<1>3. \A r \in Requests : request'[r].at \in RowStages => payment'[request'[r].booking] # None
  BY <1>1 DEF ClaimsHold
<1>4. \A r \in Requests : At(r, "verifySeen")' => request'[r].pay \in PaidFor(Of(r))'
  <2> SUFFICES ASSUME NEW r \in Requests, request'[r] = request[r], At(r, "verifySeen")
               PROVE  request[r].pay \in PaidFor(request[r].booking)'
    BY DEF At, Of
  <2>1. request[r].pay \in PaidFor(request[r].booking) /\ request[r].booking \in Bookings
    BY <1>1 DEF ClaimsHold, At, Of, RowStages
  <2> QED
    BY <2>1 DEF BooksGrow, PaidFor
<1>5. \A r \in Requests : At(r, "markPaid")' => PaidFor(Of(r))' # {}
  <2> SUFFICES ASSUME NEW r \in Requests, request'[r] = request[r], At(r, "markPaid")
               PROVE  PaidFor(request[r].booking)' # {}
    BY DEF At, Of
  <2>1. PaidFor(request[r].booking) # {} /\ request[r].booking \in Bookings
    BY <1>1 DEF ClaimsHold, At, Of, RowStages
  <2> QED
    BY <1>2, <2>1
<1>6. ClaimsHold'
  BY <1>3, <1>4, <1>5 DEF ClaimsHold
<1>7. \A b \in Bookings : Paid(b)' => PaidFor(b)' # {}
  BY <1>2 DEF PaidByItsOwnPayment
<1>8. \A b \in Bookings : payment'[b] # None /\ payment'[b].payId # None =>
          payment'[b].payId \in PaidFor(b)'
  <2> TAKE b \in Bookings
  <2>1. CASE payment[b] # None /\ payment'[b].payId = payment[b].payId
                 /\ payment[b].payId # None
    <3>1. payment[b].payId \in PaidFor(b)
      BY <2>1 DEF PaidByItsOwnPayment
    <3> QED
      BY <2>1, <3>1 DEF BooksGrow, PaidFor
  <2> QED
    BY <2>1
<1> QED
  BY <1>6, <1>7, <1>8 DEF PaidByItsOwnPayment

\* Every step keeps the claims, and pays only what was paid.
LEMMA StepClaims ==
    ASSUME Assumptions, IInv, TypeOK', BooksGrow, [Next]_vars
    PROVE  ClaimsHold' /\ PaidByItsOwnPayment'
<1>1. /\ booking \in [Bookings -> BookingRow] /\ payment \in [Bookings -> PaymentRow \cup {None}]
      /\ request \in [Requests -> RequestState] /\ None \notin PaymentRow /\ None \notin Attempts
      /\ payment' \in [Bookings -> PaymentRow \cup {None}] /\ attempt \in [Attempts -> Attempt]
  BY DEF IInv, TypeOK, Assumptions
<1>2. ClaimsHold /\ PaidByItsOwnPayment /\ OrdersBelong /\ TypeOK
  BY DEF IInv
<1>3. \A p \in Attempts : Captured(p) /\ attempt' = attempt => Captured(p)'
  BY DEF Captured
<1>4. \A b \in Bookings :
          booking'[b].paymentStatus = booking[b].paymentStatus => (Paid(b)' <=> Paid(b))
  BY DEF Paid
<1>5. \A r \in Requests : request[r] # Idle => request[r].booking \in Bookings
  BY <1>1 DEF RequestState
<1>6. ASSUME NEW q \in Requests, NEW b \in Bookings,
             OrderRead(q, b) \/ RefundRead(q, b) \/ \E p \in Attempts : VerifyRead(q, b, p)
      PROVE  ClaimsHold' /\ PaidByItsOwnPayment'
  <2>1. UNCHANGED <<rows, razorpay, events>> /\ UNCHANGED <<booking, payment, attempt, events>>
    BY <1>6 DEF OrderRead, RefundRead, VerifyRead, rows, razorpay
  <2>2. \A r \in Requests : r # q => request'[r] = request[r]
    BY <1>1, <1>6 DEF OrderRead, RefundRead, VerifyRead, Opens, Goes
  <2>3. /\ request'[q].at \in RowStages => payment[request'[q].booking] # None
        /\ At(q, "verifySeen")' => request'[q].pay \in PaidFor(Of(q))'
        /\ ~ At(q, "markPaid")'
    <3>1. CASE OrderRead(q, b)
      <4>1. request'[q].at = "orderSeen"
        BY <1>1, <3>1 DEF OrderRead, Opens, Goes, Stage
      <4> QED
        BY <4>1 DEF At, RowStages
    <3>2. CASE RefundRead(q, b)
      <4>1. request'[q].at = "refundSeen" /\ request'[q].booking = b /\ payment[b] # None
        BY <1>1, <3>2 DEF RefundRead, Opens, Goes
      <4> QED
        BY <4>1 DEF At, RowStages
    <3>3. ASSUME NEW p \in Attempts, VerifyRead(q, b, p)
          PROVE  /\ request'[q].at \in RowStages => payment[request'[q].booking] # None
                 /\ At(q, "verifySeen")' => request'[q].pay \in PaidFor(Of(q))'
                 /\ ~ At(q, "markPaid")'
      <4>1. /\ request'[q].at = "verifySeen" /\ request'[q].booking = b /\ request'[q].pay = p
            /\ payment[b] # None /\ payment[b].order = attempt[p].order /\ Captured(p)
        BY <1>1, <3>3 DEF VerifyRead, Opens, Goes, RowMatches
      <4>2. p \in PaidFor(b)
        BY <1>2, <4>1 DEF OrdersBelong, PaidFor
      <4>3. p \in PaidFor(b)'
        BY <4>2 DEF BooksGrow
      <4> QED
        BY <4>1, <4>3 DEF At, Of
    <3> QED
      BY <1>6, <3>1, <3>2, <3>3
  <2> QED
    BY <1>2, <1>3, <1>4, <2>1, <2>2, <2>3, KeepClaims DEF ClaimsHold
<1>7. ASSUME NEW q \in Requests,
             OrderAnswer(q) \/ MarkRefunded(q) \/ RefundCancel(q) \/ Fail(q)
             \/ \E o \in Orders : OrderCreate(q, o)
      PROVE  ClaimsHold' /\ PaidByItsOwnPayment'
  <2>1. UNCHANGED <<payment, attempt, events>>
    BY <1>7 DEF OrderAnswer, MarkRefunded, RefundCancel, Fail, OrderCreate, rows, razorpay
  <2>2. /\ \A r \in Requests : r # q => request'[r] = request[r]
        /\ request'[q].at \in {"idle", "orderMade"}
    BY <1>1, <1>7, IdleType
       DEF OrderAnswer, MarkRefunded, RefundCancel, Fail, OrderCreate, Closes, Goes
  <2>3. \A b \in Bookings : Paid(b)' => Paid(b)
    <3>1. CASE UNCHANGED booking
      BY <3>1 DEF Paid
    <3>2. CASE OrderAnswer(q)
      BY <1>1, <3>2 DEF OrderAnswer, Paid, BookingRow
    <3>3. CASE MarkRefunded(q)
      BY <1>1, <3>3 DEF MarkRefunded, SetStatus, Paid, BookingRow
    <3>4. CASE RefundCancel(q)
      BY <1>1, <3>4 DEF RefundCancel, Paid, BookingRow
    <3> QED
      BY <1>7, <3>1, <3>2, <3>3, <3>4 DEF Fail, OrderCreate, rows
  <2> QED
    BY <1>2, <1>3, <2>1, <2>2, <2>3, KeepClaims DEF ClaimsHold, At, RowStages
<1>8. ASSUME NEW q \in Requests, OrderUpsert(q) PROVE ClaimsHold' /\ PaidByItsOwnPayment'
  <2>1. request[q] \in [at : {"orderMade"}, booking : Bookings, order : Orders]
    BY <1>1, <1>8 DEF OrderUpsert, At, RequestState, Idle
  <2> DEFINE row == [order |-> request[q].order, status |-> "PENDING", payId |-> None,
                     refundStatus |-> None]
  <2>2. row \in PaymentRow
    BY <2>1 DEF PaymentRow, PaymentStatus
  <2>3. payment' = [payment EXCEPT ![request[q].booking] = row]
    BY <1>8 DEF OrderUpsert, Of
  <2>4. /\ \A b \in Bookings : payment[b] # None => payment'[b] # None
        /\ \A b \in Bookings : payment'[b] = payment[b] \/ payment'[b].payId = None
    BY <1>1, <2>2, <2>3
  <2>5. /\ \A r \in Requests : r # q => request'[r] = request[r]
        /\ request'[q].at = "orderKept"
    BY <1>1, <1>8, <2>1 DEF OrderUpsert, Goes
  <2>6. UNCHANGED <<booking, attempt, events>>
    BY <1>8 DEF OrderUpsert, razorpay
  <2> QED
    BY <1>2, <1>3, <1>4, <2>4, <2>5, <2>6, KeepClaims DEF ClaimsHold, At, RowStages
<1>9. ASSUME NEW q \in Requests, VerifyUpdate(q) PROVE ClaimsHold' /\ PaidByItsOwnPayment'
  <2>1. request[q] \in [at : {"verifySeen"}, booking : Bookings, pay : Attempts]
    BY <1>1, <1>9 DEF VerifyUpdate, At, RequestState, Idle
  <2> PICK b \in Bookings : b = request[q].booking
    BY <2>1
  <2> PICK p \in Attempts : p = request[q].pay
    BY <2>1
  <2>2. payment[b] # None /\ p \in PaidFor(b)
    BY <1>2, <2>1 DEF ClaimsHold, RowStages, At, Of
  <2>3. p \in PaidFor(b)' /\ PaidFor(b)' # {}
    BY <2>1, <2>2 DEF BooksGrow, PaidFor
  <2>4. payment[b] \in PaymentRow
    BY <1>1, <2>1, <2>2
  <2>5. /\ [payment[b] EXCEPT !.payId = p, !.status = "PAID"] \in PaymentRow
        /\ [payment[b] EXCEPT !.payId = p, !.status = "PAID"].payId = p
    BY <2>1, <2>4 DEF PaymentRow, PaymentStatus
  <2>6. \A a \in Bookings : payment'[a] =
            IF a = b THEN [payment[b] EXCEPT !.payId = p, !.status = "PAID"]
            ELSE payment[a]
    BY <1>1, <1>9, <2>1 DEF VerifyUpdate, Of
  <2>7. /\ \A r \in Requests : r # q => request'[r] = request[r]
        /\ request'[q] = Stage("markPaid", b)
    BY <1>1, <1>9 DEF VerifyUpdate, Goes, Of
  <2>8. UNCHANGED <<booking, attempt, events>>
    BY <1>9 DEF VerifyUpdate, razorpay
  <2>9. /\ \A a \in Bookings : payment[a] # None => payment'[a] # None
        /\ \A a \in Bookings : payment'[a] # None =>
               (payment[a] # None /\ payment'[a].payId = payment[a].payId)
               \/ payment'[a].payId \in PaidFor(a)'
    BY <1>1, <2>3, <2>5, <2>6
  <2>10. payment'[request'[q].booking] # None /\ PaidFor(Of(q))' # {} /\ ~ At(q, "verifySeen")'
    BY <1>1, <2>1, <2>3, <2>5, <2>6, <2>7 DEF Stage, Of, At
  <2> QED
    BY <1>2, <1>3, <1>4, <2>7, <2>8, <2>9, <2>10, KeepClaims DEF ClaimsHold
<1>10. ASSUME NEW q \in Requests, MarkPaid(q) PROVE ClaimsHold' /\ PaidByItsOwnPayment'
  <2> PICK a \in Bookings : a = request[q].booking
    BY <1>1, <1>10 DEF MarkPaid, At, RequestState, Idle
  <2>1. PaidFor(a) # {}
    BY <1>2, <1>10 DEF MarkPaid, Of, ClaimsHold
  <2>2. PaidFor(a)' # {}
    BY <2>1 DEF BooksGrow, PaidFor
  <2>3. \A b \in Bookings : Paid(b)' => Paid(b) \/ PaidFor(b)' # {}
    <3>1. booking' = [booking EXCEPT ![a].paymentStatus = "PAID"]
      BY <1>10 DEF MarkPaid, SetStatus, Of
    <3> QED
      BY <1>1, <2>2, <3>1 DEF Paid
  <2>4. /\ \A r \in Requests : r # q => request'[r] = request[r]
        /\ request'[q].at = "idle"
    BY <1>1, <1>10, IdleType DEF MarkPaid, Closes, Goes
  <2>5. UNCHANGED <<payment, attempt, events>>
    BY <1>10 DEF MarkPaid, razorpay
  <2> QED
    BY <1>2, <1>3, <2>3, <2>4, <2>5, KeepClaims DEF ClaimsHold, At, RowStages
<1>11. ASSUME NEW q \in Requests, RefundCall(q) PROVE ClaimsHold' /\ PaidByItsOwnPayment'
  <2>1. request[q] \in [at : {"refundSeen"}, booking : Bookings, pay : Attempts]
    BY <1>1, <1>11 DEF RefundCall, At, RequestState, Idle
  <2>2. payment[request[q].booking] # None
    BY <1>2, <2>1 DEF ClaimsHold, RowStages
  <2>3. /\ \A r \in Requests : r # q => request'[r] = request[r]
        /\ \/ request'[q].at = "idle"
           \/ request'[q].at = "refundMade" /\ request'[q].booking = request[q].booking
    BY <1>1, <1>11, IdleType DEF RefundCall, Closes, Goes, Stage, Of
  <2>4. \A p \in Attempts : Captured(p) => Captured(p)'
    BY <1>1, <1>11, <2>1 DEF RefundCall, Captured, Attempt
  <2>5. UNCHANGED <<booking, payment, events>>
    BY <1>11 DEF RefundCall, rows
  <2> QED
    BY <1>2, <1>4, <2>2, <2>3, <2>4, <2>5, KeepClaims DEF ClaimsHold, At, RowStages
<1>12. ASSUME NEW q \in Requests, RefundUpdate(q) PROVE ClaimsHold' /\ PaidByItsOwnPayment'
  <2>1. request[q] \in [at : {"refundMade"}, booking : Bookings]
    BY <1>1, <1>12 DEF RefundUpdate, At, RequestState, Idle
  <2> PICK b \in Bookings : b = request[q].booking
    BY <2>1
  <2>2. payment[b] \in PaymentRow
    BY <1>1, <1>2, <2>1 DEF ClaimsHold, RowStages
  <2> DEFINE row == [payment[b] EXCEPT !.refundStatus = "PENDING", !.status = "REFUNDED"]
  <2>3. row \in PaymentRow /\ row.payId = payment[b].payId
    BY <2>2 DEF PaymentRow, PaymentStatus
  <2>4. \A a \in Bookings : payment'[a] = IF a = b THEN row ELSE payment[a]
    BY <1>1, <1>12 DEF RefundUpdate, Of
  <2>5. /\ \A r \in Requests : r # q => request'[r] = request[r]
        /\ request'[q].at = "cancel" /\ request'[q].booking = b
    BY <1>1, <1>12 DEF RefundUpdate, Goes, Stage, Of
  <2>6. UNCHANGED <<booking, attempt, events>>
    BY <1>12 DEF RefundUpdate, razorpay
  <2> HIDE DEF row
  <2>7. /\ payment'[b] # None
        /\ \A a \in Bookings : payment[a] # None => payment'[a] # None
        /\ \A a \in Bookings : payment'[a] # None =>
               payment[a] # None /\ payment'[a].payId = payment[a].payId
    BY <1>1, <2>2, <2>3, <2>4
  <2> QED
    BY <1>2, <1>3, <1>4, <2>5, <2>6, <2>7, KeepClaims DEF ClaimsHold, At
<1>13. ASSUME NEW q \in Requests, NEW p \in Attempts, WebhookCaptured(q, p)
       PROVE  ClaimsHold' /\ PaidByItsOwnPayment'
  <2>1. UNCHANGED <<booking, attempt>> /\ events' \subseteq events /\ Captured(p)
    BY <1>2, <1>13 DEF WebhookCaptured, Delivered, ClaimsHold, razorpay
  <2>2. CASE UNCHANGED payment /\ Opens(q, Idle)
    <3>1. /\ \A r \in Requests : r # q => request'[r] = request[r]
          /\ request'[q].at = "idle"
      BY <1>1, <2>2, IdleType DEF Opens, Goes
    <3> QED
      BY <1>2, <1>3, <1>4, <2>1, <2>2, <3>1, KeepClaims DEF ClaimsHold, At, RowStages
  <2>3. ASSUME NEW b \in Bookings, RowMatches(b, p), Opens(q, Stage("markPaid", b)),
               payment' = [payment EXCEPT ![b].payId = p, ![b].status = "PAID"]
        PROVE  ClaimsHold' /\ PaidByItsOwnPayment'
    <3> DEFINE row == [payment[b] EXCEPT !.payId = p, !.status = "PAID"]
    <3>1. payment[b] \in PaymentRow
      BY <1>1, <2>3 DEF RowMatches
    <3>2. row \in PaymentRow /\ row.payId = p
      BY <3>1 DEF PaymentRow, PaymentStatus
    <3>3. \A a \in Bookings : payment'[a] = IF a = b THEN row ELSE payment[a]
      BY <1>1, <2>3
    <3>4. p \in PaidFor(b)
      BY <1>2, <2>1, <2>3 DEF OrdersBelong, RowMatches, PaidFor
    <3>5. p \in PaidFor(b)' /\ PaidFor(b)' # {}
      BY <3>4 DEF BooksGrow
    <3>6. /\ \A r \in Requests : r # q => request'[r] = request[r]
          /\ request'[q].at = "markPaid" /\ request'[q].booking = b
      BY <1>1, <2>3 DEF Opens, Goes, Stage
    <3> HIDE DEF row
    <3>7. /\ payment'[b] # None
          /\ \A a \in Bookings : payment[a] # None => payment'[a] # None
          /\ \A a \in Bookings : payment'[a] # None =>
                 (payment[a] # None /\ payment'[a].payId = payment[a].payId)
                 \/ payment'[a].payId \in PaidFor(a)'
      BY <1>1, <3>2, <3>3, <3>5
    <3>8. PaidFor(Of(q))' # {} /\ ~ At(q, "verifySeen")'
      BY <3>5, <3>6 DEF Of, At
    <3> QED
      BY <1>2, <1>3, <1>4, <2>1, <3>6, <3>7, <3>8, KeepClaims DEF ClaimsHold
  <2> QED
    BY <1>13, <2>2, <2>3 DEF WebhookCaptured
<1>14. ASSUME NEW q \in Requests, NEW p \in Attempts, WebhookFailed(q, p)
       PROVE  ClaimsHold' /\ PaidByItsOwnPayment'
  <2>1. UNCHANGED <<booking, attempt>> /\ events' \subseteq events
    BY <1>14 DEF WebhookFailed, Delivered, razorpay
  <2>2. /\ \A r \in Requests : r # q => request'[r] = request[r]
        /\ request'[q].at = "idle"
    BY <1>1, <1>14, IdleType DEF WebhookFailed, Opens, Goes
  <2>3. ASSUME NEW b \in Bookings
        PROVE  /\ payment[b] # None => payment'[b] # None
               /\ payment'[b] # None => payment[b] # None /\ payment'[b].payId = payment[b].payId
    <3>1. payment'[b] = IF RowMatches(b, p) THEN [payment[b] EXCEPT !.status = "FAILED"]
                        ELSE payment[b]
      BY <1>14 DEF WebhookFailed
    <3>2. ASSUME payment[b] # None
          PROVE  /\ [payment[b] EXCEPT !.status = "FAILED"] \in PaymentRow
                 /\ [payment[b] EXCEPT !.status = "FAILED"].payId = payment[b].payId
      <4>1. payment[b] \in PaymentRow
        BY <1>1, <3>2
      <4> QED
        BY <4>1 DEF PaymentRow, PaymentStatus
    <3> QED
      BY <1>1, <3>1, <3>2 DEF RowMatches
  <2> QED
    BY <1>2, <1>3, <1>4, <2>1, <2>2, <2>3, KeepClaims DEF ClaimsHold, At, RowStages
<1>15. ASSUME NEW q \in Requests, NEW p \in Attempts, WebhookLost(q, p)
       PROVE  ClaimsHold' /\ PaidByItsOwnPayment'
  <2>1. UNCHANGED <<booking, attempt>> /\ events' \subseteq events
    BY <1>15 DEF WebhookLost, Delivered, razorpay
  <2>2. CASE UNCHANGED payment /\ Opens(q, Idle)
    <3>1. /\ \A r \in Requests : r # q => request'[r] = request[r]
          /\ request'[q].at = "idle"
      BY <1>1, <2>2, IdleType DEF Opens, Goes
    <3> QED
      BY <1>2, <1>3, <1>4, <2>1, <2>2, <3>1, KeepClaims DEF ClaimsHold, At, RowStages
  <2>3. ASSUME NEW b \in Bookings, HasPayId(b, p), Opens(q, Stage("markRefunded", b)),
               payment' = [payment EXCEPT ![b].status = "REFUNDED",
                                          ![b].refundStatus = "PROCESSED"]
        PROVE  ClaimsHold' /\ PaidByItsOwnPayment'
    <3> DEFINE row == [payment[b] EXCEPT !.status = "REFUNDED", !.refundStatus = "PROCESSED"]
    <3>1. payment[b] \in PaymentRow
      BY <1>1, <2>3 DEF HasPayId
    <3>2. row \in PaymentRow /\ row.payId = payment[b].payId
      BY <3>1 DEF PaymentRow, PaymentStatus
    <3>3. \A a \in Bookings : payment'[a] = IF a = b THEN row ELSE payment[a]
      BY <1>1, <2>3
    <3>4. /\ \A r \in Requests : r # q => request'[r] = request[r]
          /\ request'[q].at = "markRefunded" /\ request'[q].booking = b
      BY <1>1, <2>3 DEF Opens, Goes, Stage
    <3> HIDE DEF row
    <3>5. /\ payment'[b] # None
          /\ \A a \in Bookings : payment[a] # None => payment'[a] # None
          /\ \A a \in Bookings : payment'[a] # None =>
                 payment[a] # None /\ payment'[a].payId = payment[a].payId
      BY <1>1, <2>3, <3>2, <3>3 DEF HasPayId
    <3> QED
      BY <1>2, <1>3, <1>4, <2>1, <3>4, <3>5, KeepClaims DEF ClaimsHold, At
  <2> QED
    BY <1>15, <2>2, <2>3 DEF WebhookLost
<1>16. ASSUME UNCHANGED <<booking, payment, request>>,
              \A p \in Attempts : <<"captured", p>> \in events' => Captured(p)'
       PROVE  ClaimsHold' /\ PaidByItsOwnPayment'
  <2>1. \A r \in Requests : request[r].at \in RowStages => request[r].booking \in Bookings
    BY <1>1 DEF RequestState, Idle, RowStages
  <2> QED
    BY <1>2, <1>4, <1>16, <2>1
       DEF ClaimsHold, PaidByItsOwnPayment, BooksGrow, PaidFor, At, Of, RowStages
<1>17. ASSUME NEW p \in Attempts, NEW o \in Orders, NEW r \in Results, PayAttempt(p, o, r)
       PROVE  ClaimsHold' /\ PaidByItsOwnPayment'
  <2>1. \A n \in Attempts : attempt'[n] =
            IF n = p THEN [attempt[p] EXCEPT !.order = o, !.result = r] ELSE attempt[n]
    BY <1>1, <1>17 DEF PayAttempt
  <2>2. \A n \in Attempts : Captured(n) => Captured(n)'
    BY <1>17, <2>1 DEF PayAttempt, Captured
  <2>3. r = "captured" => Captured(p)'
    <3>1. o # None
      BY DEF Assumptions
    <3>2. /\ [attempt[p] EXCEPT !.order = o, !.result = r].order = o
          /\ [attempt[p] EXCEPT !.order = o, !.result = r].result = r
      BY <1>1 DEF Attempt
    <3> QED
      BY <2>1, <3>1, <3>2 DEF Captured
  <2>4. \A n \in Attempts : <<"captured", n>> \in events' => Captured(n)'
    BY <1>2, <1>17, <2>2, <2>3 DEF PayAttempt, ClaimsHold
  <2> QED
    BY <1>16, <1>17, <2>4 DEF PayAttempt, rows
<1>18. ASSUME NEW p \in Attempts, LoseDispute(p) PROVE ClaimsHold' /\ PaidByItsOwnPayment'
  <2>1. \A n \in Attempts : Captured(n) => Captured(n)'
    BY <1>1, <1>18 DEF LoseDispute, Captured, Attempt
  <2>2. \A n \in Attempts : <<"captured", n>> \in events' => Captured(n)'
    BY <1>2, <1>18, <2>1 DEF LoseDispute, ClaimsHold
  <2> QED
    BY <1>16, <1>18, <2>2 DEF LoseDispute, rows
<1>19. ASSUME TimePasses \/ UNCHANGED vars PROVE ClaimsHold' /\ PaidByItsOwnPayment'
  <2>1. UNCHANGED <<booking, payment, request, attempt, events>>
    BY <1>19 DEF TimePasses, vars, rows, razorpay
  <2> QED
    BY <1>2, <1>3, <1>16, <2>1 DEF ClaimsHold
<1> QED
  BY <1>6, <1>7, <1>8, <1>9, <1>10, <1>11, <1>12, <1>13, <1>14, <1>15, <1>17, <1>18, <1>19
     DEF Next, Continue, Webhook

\* The invariant is inductive.
LEMMA InvInductive ==
    ASSUME Assumptions
    PROVE  IInv /\ [Next]_vars => IInv'
<1> SUFFICES ASSUME IInv, [Next]_vars PROVE IInv'
  OBVIOUS
<1>1. TypeOK /\ OrdersBelong /\ ClaimsHold
  BY DEF IInv
<1>2. TypeOK' /\ OrdersBelong' /\ BooksGrow
  BY <1>1, StepType, StepOrders, StepGrows
<1> QED
  BY <1>2, StepClaims DEF IInv

(* Rows, Razorpay's books and handlers keep their types.                   *)
THEOREM TypeCorrect ==
    ASSUME Assumptions
    PROVE  Spec => []TypeOK
<1>1. Init => IInv
  BY InitIInv
<1>2. IInv /\ [Next]_vars => IInv'
  BY InvInductive
<1>3. IInv => TypeOK
  BY DEF IInv
<1> QED
  BY <1>1, <1>2, <1>3, PTL DEF Spec

(* A booking is PAID, and its row names a payment, only because of money   *)
(* Razorpay captured for an order of that booking: for any number of       *)
(* bookings, orders, payments and open handlers, whichever of them stop    *)
(* half-way, and however late and often Razorpay's events arrive.          *)
THEOREM PaidByOwnPayment ==
    ASSUME Assumptions
    PROVE  Spec => []PaidByItsOwnPayment
<1>1. Init => IInv
  BY InitIInv
<1>2. IInv /\ [Next]_vars => IInv'
  BY InvInductive
<1>3. IInv => PaidByItsOwnPayment
  BY DEF IInv
<1> QED
  BY <1>1, <1>2, <1>3, PTL DEF Spec

------------------------------------------------------------------------------
(* Out of PAID.                                                            *)

\* Razorpay takes no capture, refund or lost dispute back.
BackStays ==
    \A p \in Attempts :
        /\ Captured(p) => Captured(p)'
        /\ attempt[p].back > 0 => attempt'[p].back > 0
        /\ attempt[p].lost => attempt'[p].lost

\* A handler about to take a booking out of PAID has money behind it that went
\* back, and so has the event of a lost dispute.
BackStages == {"markRefunded", "refundMade", "cancel"}
RefundsHold ==
    /\ \A q \in Requests : At(q, "refundSeen") => request[q].pay \in PaidFor(Of(q))
    /\ \A q \in Requests : request[q].at \in BackStages => MoneyBack(Of(q))
    /\ \A p \in Attempts : <<"lost", p>> \in events => Captured(p) /\ attempt[p].lost

\* Whatever a step does, what went back stays back.
LEMMA StepBack ==
    ASSUME Assumptions, TypeOK, [Next]_vars
    PROVE  BackStays
<1>1. CASE UNCHANGED attempt
  BY <1>1 DEF BackStays, Captured
<1>2. ASSUME NEW p \in Attempts, NEW o \in Orders, NEW r \in Results, PayAttempt(p, o, r)
      PROVE  BackStays
  BY <1>2 DEF PayAttempt, TypeOK, Attempt, BackStays, Captured
<1>3. ASSUME NEW p \in Attempts, LoseDispute(p) PROVE BackStays
  BY <1>3 DEF LoseDispute, TypeOK, Attempt, BackStays, Captured
<1>4. ASSUME NEW q \in Requests, RefundCall(q) PROVE BackStays
  <2>1. CASE UNCHANGED attempt
    BY <1>1, <2>1
  <2>2. ASSUME NEW amount, Refundable(request[q].pay, amount), amount \in 0..Price,
               attempt' = [attempt EXCEPT ![request[q].pay].back = @ + amount]
        PROVE  BackStays
    BY <2>2 DEF TypeOK, Attempt, BackStays, Captured, Refundable, Price
  <2>3. RefundAmount(hours) \in 0..Price
    BY DEF RefundAmount, Price
  <2> QED
    BY <1>4, <2>1, <2>2, <2>3 DEF RefundCall
<1>5. CASE UNCHANGED vars
  BY <1>1, <1>5 DEF vars
<1>6. CASE Next
  BY <1>1, <1>2, <1>3, <1>4, <1>6
     DEF Next, OrderRead, OrderCreate, RefundRead, VerifyRead, Continue, OrderUpsert,
         OrderAnswer, VerifyUpdate, MarkPaid, MarkRefunded, RefundUpdate, RefundCancel, Fail,
         Webhook, WebhookCaptured, WebhookFailed, WebhookLost, TimePasses, razorpay
<1> QED
  BY <1>5, <1>6

\* What a step must show for RefundsHold to go on.
LEMMA KeepRefunds ==
    ASSUME TypeOK, RefundsHold, BooksGrow, BackStays,
           \A p \in Attempts : <<"lost", p>> \in events' =>
               <<"lost", p>> \in events \/ (Captured(p)' /\ attempt'[p].lost),
           \A q \in Requests :
               \/ request'[q] = request[q]
               \/ /\ At(q, "refundSeen")' => request'[q].pay \in PaidFor(Of(q))'
                  /\ request'[q].at \in BackStages => MoneyBack(Of(q))'
    PROVE  RefundsHold'
<1>1. \A q \in Requests : request[q].at \in BackStages \cup {"refundSeen"} =>
          request[q].booking \in Bookings
  BY DEF TypeOK, RequestState, Idle, BackStages
<1>2. \A b \in Bookings : MoneyBack(b) => MoneyBack(b)'
  <2> SUFFICES ASSUME NEW b \in Bookings, NEW p \in PaidFor(b),
                      attempt[p].back > 0 \/ attempt[p].lost
               PROVE  MoneyBack(b)'
    BY DEF MoneyBack
  <2>1. p \in PaidFor(b)' /\ p \in Attempts
    BY DEF BooksGrow, PaidFor
  <2> QED
    BY <2>1 DEF BackStays, MoneyBack
<1>3. ASSUME NEW q \in Requests, At(q, "refundSeen")'
      PROVE  request'[q].pay \in PaidFor(Of(q))'
  <2>1. CASE request'[q] = request[q]
    <3>1. request[q].pay \in PaidFor(request[q].booking) /\ request[q].booking \in Bookings
      BY <1>1, <1>3, <2>1 DEF RefundsHold, At, Of
    <3>2. request[q].pay \in PaidFor(request[q].booking)'
      BY <2>1, <3>1 DEF BooksGrow, PaidFor
    <3> QED
      BY <2>1, <3>2 DEF Of
  <2> QED
    BY <1>3, <2>1
<1>4. ASSUME NEW q \in Requests, request'[q].at \in BackStages PROVE MoneyBack(Of(q))'
  <2>1. CASE request'[q] = request[q]
    <3>1. MoneyBack(request[q].booking) /\ request[q].booking \in Bookings
      BY <1>1, <1>4, <2>1 DEF RefundsHold, Of
    <3> QED
      BY <1>2, <2>1, <3>1 DEF Of
  <2> QED
    BY <1>4, <2>1
<1>5. \A p \in Attempts : <<"lost", p>> \in events' => Captured(p)' /\ attempt'[p].lost
  BY DEF RefundsHold, BackStays
<1> QED
  BY <1>3, <1>4, <1>5 DEF RefundsHold

\* Every step keeps RefundsHold: a refund is asked for the payment the row
\* names, and a lost event is of a payment that was lost.
LEMMA StepRefunds ==
    ASSUME Assumptions, IInv, RefundsHold, BooksGrow, BackStays, [Next]_vars
    PROVE  RefundsHold'
<1>1. TypeOK /\ PaidByItsOwnPayment
  BY DEF IInv
<1> DEFINE Events == \A p \in Attempts : <<"lost", p>> \in events' => <<"lost", p>> \in events
           Claim(q) == /\ At(q, "refundSeen")' => request'[q].pay \in PaidFor(Of(q))'
                       /\ request'[q].at \in BackStages => MoneyBack(Of(q))'
           Others(q) == \A r \in Requests : r # q => request'[r] = request[r]
<1>2. ASSUME NEW q \in Requests,
             \/ \E b \in Bookings : OrderRead(q, b) \/ \E p \in Attempts : VerifyRead(q, b, p)
             \/ \E o \in Orders : OrderCreate(q, o)
             \/ OrderUpsert(q) \/ OrderAnswer(q) \/ VerifyUpdate(q) \/ MarkPaid(q)
             \/ MarkRefunded(q) \/ RefundCancel(q) \/ Fail(q)
      PROVE  RefundsHold'
  <2>1. /\ UNCHANGED events
        /\ \E state : Goes(q, state) /\ state.at \notin BackStages \cup {"refundSeen"}
    <3>1. CASE \E b \in Bookings : OrderRead(q, b)
      BY <3>1 DEF OrderRead, Opens, Stage, BackStages
    <3>2. CASE \E b \in Bookings, p \in Attempts : VerifyRead(q, b, p)
      BY <3>2 DEF VerifyRead, Opens, BackStages
    <3>3. CASE \E o \in Orders : OrderCreate(q, o)
      BY <3>3 DEF OrderCreate, BackStages
    <3>4. CASE OrderUpsert(q)
      <4>1. [request[q] EXCEPT !.at = "orderKept"].at = "orderKept"
        BY <1>1, <3>4 DEF OrderUpsert, At, TypeOK, RequestState, Idle
      <4> QED
        BY <3>4, <4>1 DEF OrderUpsert, BackStages
    <3>5. CASE VerifyUpdate(q)
      BY <3>5 DEF VerifyUpdate, Stage, BackStages
    <3>6. CASE OrderAnswer(q) \/ MarkPaid(q) \/ MarkRefunded(q) \/ RefundCancel(q) \/ Fail(q)
      BY <3>6, IdleType
         DEF OrderAnswer, MarkPaid, MarkRefunded, RefundCancel, Fail, Closes, BackStages
    <3> QED
      BY <1>2, <3>1, <3>2, <3>3, <3>4, <3>5, <3>6
  <2>2. request'[q].at \notin BackStages \cup {"refundSeen"} /\ Others(q)
    BY <1>1, <2>1, GoesOn
  <2> QED
    BY <1>1, <2>1, <2>2, KeepRefunds DEF At
<1>3. ASSUME NEW q \in Requests, NEW p \in Attempts, WebhookCaptured(q, p) \/ WebhookFailed(q, p)
      PROVE  RefundsHold'
  <2>1. \E state : Goes(q, state) /\ state.at \notin BackStages \cup {"refundSeen"}
    <3>1. CASE WebhookCaptured(q, p)
      <4>1. Goes(q, Idle) \/ \E b \in Bookings : Goes(q, Stage("markPaid", b))
        BY <3>1 DEF WebhookCaptured, Opens
      <4>2. \A b \in Bookings : Stage("markPaid", b).at = "markPaid"
        BY DEF Stage
      <4> QED
        BY <4>1, <4>2, IdleType DEF BackStages
    <3>2. CASE WebhookFailed(q, p)
      BY <3>2, IdleType DEF WebhookFailed, Opens, BackStages
    <3> QED
      BY <1>3, <3>1, <3>2
  <2>2. request'[q].at \notin BackStages \cup {"refundSeen"} /\ Others(q)
    BY <1>1, <2>1, GoesOn
  <2>3. Events
    BY <1>3 DEF WebhookCaptured, WebhookFailed, Delivered
  <2> QED
    BY <1>1, <2>2, <2>3, KeepRefunds DEF At
<1>4. ASSUME NEW q \in Requests, NEW p \in Attempts, WebhookLost(q, p) PROVE RefundsHold'
  <2>1. Events /\ Others(q) /\ UNCHANGED razorpay
    BY <1>1, <1>4 DEF WebhookLost, Delivered, Opens, Goes, TypeOK
  <2>2. Captured(p) /\ attempt[p].lost
    BY <1>4 DEF WebhookLost, RefundsHold
  <2>3. ASSUME NEW b \in Bookings, HasPayId(b, p), request'[q] = Stage("markRefunded", b)
        PROVE  Claim(q)
    <3>1. p \in PaidFor(b)
      BY <1>1, <2>3 DEF HasPayId, PaidByItsOwnPayment, Assumptions
    <3>2. MoneyBack(b)'
      BY <2>1, <2>2, <3>1 DEF MoneyBack, PaidFor, Captured, razorpay
    <3> QED
      BY <2>3, <3>2 DEF Stage, At, Of
  <2>4. request'[q] = Idle \/ \E b \in Bookings :
            HasPayId(b, p) /\ request'[q] = Stage("markRefunded", b)
    BY <1>1, <1>4 DEF WebhookLost, Opens, Goes, TypeOK
  <2>5. Claim(q)
    BY <2>3, <2>4, IdleType DEF At, BackStages
  <2> QED
    BY <1>1, <2>1, <2>5, KeepRefunds
<1>5. ASSUME NEW q \in Requests, NEW b \in Bookings, RefundRead(q, b) PROVE RefundsHold'
  <2>1. /\ request'[q] = [at |-> "refundSeen", booking |-> b, pay |-> payment[b].payId]
        /\ Others(q)
        /\ payment[b] # None /\ payment[b].payId # None
        /\ UNCHANGED <<razorpay, events>>
    BY <1>1, <1>5 DEF RefundRead, MayRefund, Opens, Goes, TypeOK
  <2>2. payment[b].payId \in PaidFor(b)'
    BY <1>1, <2>1 DEF PaidByItsOwnPayment, PaidFor, Captured, razorpay
  <2>3. Claim(q)
    BY <2>1, <2>2 DEF At, Of, BackStages
  <2> QED
    BY <1>1, <2>1, <2>3, KeepRefunds
<1>6. ASSUME NEW q \in Requests, RefundCall(q) PROVE RefundsHold'
  <2>1. UNCHANGED events /\ Others(q)
    BY <1>1, <1>6 DEF RefundCall, Closes, Goes, TypeOK
  <2>2. CASE request'[q] = Idle
    BY <1>1, <2>1, <2>2, IdleType, KeepRefunds DEF At, BackStages
  <2>3. ASSUME NEW amount, amount \in 0..Price, Refundable(request[q].pay, amount),
               attempt' = [attempt EXCEPT ![request[q].pay].back = @ + amount],
               UNCHANGED orderOf, request'[q] = Stage("refundMade", Of(q))
        PROVE  Claim(q)
    <3> DEFINE p == request[q].pay
               b == request[q].booking
    <3>1. p \in PaidFor(b) /\ p \in Attempts /\ b \in Bookings
      BY <1>1, <1>6 DEF RefundCall, RefundsHold, Of, PaidFor, At, TypeOK, RequestState, Idle
    <3>2. attempt[p] \in Attempt /\ attempt'[p].back = attempt[p].back + amount
      BY <1>1, <2>3, <3>1 DEF TypeOK, Attempt
    <3>3. attempt'[p].back > 0
      BY <2>3, <3>2 DEF Attempt, Refundable, Price
    <3>4. p \in PaidFor(b)'
      <4>1. b' = b
        BY <2>3 DEF Stage, Of
      <4> QED
        BY <3>1, <4>1 DEF BooksGrow, PaidFor
    <3>5. MoneyBack(b)'
      BY <3>3, <3>4 DEF MoneyBack
    <3> QED
      BY <2>3, <3>5 DEF Stage, At, Of
  <2>4. RefundAmount(hours) \in 0..Price
    BY DEF RefundAmount, Price
  <2>5. CASE ~(request'[q] = Idle)
    <3>1. Claim(q)
      BY <1>1, <1>6, <2>3, <2>4, <2>5 DEF RefundCall, Closes, Goes, TypeOK
    <3> QED
      BY <1>1, <2>1, <3>1, KeepRefunds
  <2> QED
    BY <2>2, <2>5
<1>7. ASSUME NEW q \in Requests, RefundUpdate(q) PROVE RefundsHold'
  <2>1. /\ request'[q] = Stage("cancel", Of(q))
        /\ Others(q) /\ UNCHANGED <<razorpay, events>>
    BY <1>1, <1>7 DEF RefundUpdate, Goes, TypeOK
  <2>2. MoneyBack(Of(q))
    BY <1>7 DEF RefundUpdate, At, RefundsHold, BackStages
  <2>3. Claim(q)
    BY <2>1, <2>2 DEF Stage, At, Of, BackStages, MoneyBack, PaidFor, Captured, razorpay
  <2> QED
    BY <1>1, <2>1, <2>3, KeepRefunds
<1>8. ASSUME NEW p \in Attempts, NEW o \in Orders, NEW r \in Results, PayAttempt(p, o, r)
      PROVE  RefundsHold'
  <2>1. Events /\ UNCHANGED request
    BY <1>8 DEF PayAttempt, Results
  <2> QED
    BY <1>1, <2>1, KeepRefunds
<1>9. ASSUME NEW p \in Attempts, LoseDispute(p) PROVE RefundsHold'
  <2>1. Captured(p)' /\ attempt'[p].lost
    BY <1>1, <1>9 DEF LoseDispute, TypeOK, Attempt, BackStays
  <2>2. UNCHANGED request /\ \A n \in Attempts : <<"lost", n>> \in events' =>
            <<"lost", n>> \in events \/ n = p
    BY <1>9 DEF LoseDispute
  <2> QED
    BY <1>1, <2>1, <2>2, KeepRefunds
<1>10. CASE TimePasses \/ UNCHANGED vars
  <2>1. UNCHANGED <<request, events>>
    BY <1>10 DEF TimePasses, vars
  <2> QED
    BY <1>1, <2>1, KeepRefunds
<1> QED
  BY <1>2, <1>3, <1>4, <1>5, <1>6, <1>7, <1>8, <1>9, <1>10 DEF Next, Continue, Webhook

\* Only two statements take a booking out of PAID.
LEMMA StepUnpaid ==
    ASSUME Assumptions, IInv, RefundsHold, [Next]_vars
    PROVE  UnpaidAfterMoneyBack
<1> SUFFICES ASSUME NEW b \in Bookings, Paid(b), ~Paid(b)' PROVE MoneyBack(b)
  BY DEF UnpaidAfterMoneyBack
<1>1. booking \in [Bookings -> BookingRow]
  BY DEF IInv, TypeOK
<1>2. booking' # booking
  BY DEF Paid
<1>3. ~\E q \in Requests : OrderAnswer(q) \/ MarkPaid(q)
  BY <1>1 DEF OrderAnswer, MarkPaid, SetStatus, Paid, BookingRow
<1>4. PICK q \in Requests : MarkRefunded(q) \/ RefundCancel(q)
  BY <1>2, <1>3
     DEF Next, OrderRead, OrderCreate, RefundRead, VerifyRead, Continue, OrderUpsert,
         VerifyUpdate, RefundCall, RefundUpdate, Fail, PayAttempt, LoseDispute, Webhook,
         WebhookCaptured, WebhookFailed, WebhookLost, TimePasses, rows, vars
<1>5. Of(q) = b
  BY <1>1, <1>4 DEF MarkRefunded, RefundCancel, SetStatus, Paid, BookingRow
<1> QED
  BY <1>4, <1>5 DEF MarkRefunded, RefundCancel, At, RefundsHold, BackStages

(* A booking leaves PAID only after money of its own payment went back at  *)
(* Razorpay, however late, often and in whatever order reports and events  *)
(* arrive and whichever handlers overlap or stop half-way.                 *)
THEOREM UnpaidOnlyAfterMoneyBack ==
    ASSUME Assumptions
    PROVE  Spec => [][UnpaidAfterMoneyBack]_vars
<1>1. Init => IInv /\ RefundsHold
  BY InitIInv, IdleType DEF Init, RefundsHold, At, BackStages
<1>2. IInv /\ RefundsHold /\ [Next]_vars => IInv' /\ RefundsHold'
  <2> SUFFICES ASSUME IInv, RefundsHold, [Next]_vars PROVE IInv' /\ RefundsHold'
    OBVIOUS
  <2>1. BooksGrow /\ BackStays
    BY StepGrows, StepBack DEF IInv
  <2> QED
    BY <2>1, InvInductive, StepRefunds
<1>3. IInv /\ RefundsHold /\ [Next]_vars => [UnpaidAfterMoneyBack]_vars
  BY StepUnpaid
<1> QED
  BY <1>1, <1>2, <1>3, PTL DEF Spec

------------------------------------------------------------------------------
(* RowsAgree: only the booking whose handler stands between its two        *)
(* statements disagrees with its row, and in one known way.                *)
OneAtATime ==
    \A q, r \in Requests : request[q] # Idle /\ request[r] # Idle => q = r

\* What the rows of a booking have in common when nobody is at them.
Agree(b) ==
    payment[b] # None =>
        /\ payment[b].order = booking[b].orderId
        /\ payment[b].status = "PAID" => Paid(b)
        /\ payment[b].status = "REFUNDED" => booking[b].paymentStatus = "REFUNDED"

\* Between its statements a handler has written what the second will match.
HalfStages == {"orderKept", "markPaid", "markRefunded", "cancel"}
HalfWritten(q) ==
    /\ At(q, "orderKept") =>
           /\ payment[Of(q)] # None
           /\ payment[Of(q)].order = request[q].order
           /\ payment[Of(q)].status = "PENDING"
    /\ request[q].at \in {"markPaid", "markRefunded", "cancel"} =>
           payment[Of(q)].order = booking[Of(q)].orderId
    /\ At(q, "markPaid") => payment[Of(q)].status = "PAID"
    /\ request[q].at \in {"markRefunded", "cancel"} => payment[Of(q)].status = "REFUNDED"

RowsInv ==
    /\ OneAtATime
    /\ \A b \in Bookings :
           Agree(b) \/ \E q \in Requests : request[q].at \in HalfStages /\ Of(q) = b
    /\ \A q \in Requests : HalfWritten(q)

\* A step of one handler, on one booking: the rows of the others are as they
\* were, and nobody else is open.
LEMMA KeepRows ==
    ASSUME TypeOK, RowsInv, NEW q \in Requests, NEW b \in Bookings,
           \A r \in Requests : r # q => request[r] = Idle /\ request'[r] = Idle,
           request[q] = Idle \/ Of(q) = b,
           \A a \in Bookings : a # b => payment'[a] = payment[a] /\ booking'[a] = booking[a],
           Agree(b)' \/ (request'[q].at \in HalfStages /\ request'[q].booking = b),
           HalfWritten(q)'
    PROVE  RowsInv'
<1>1. OneAtATime'
  BY DEF OneAtATime
<1>2. ASSUME NEW a \in Bookings
      PROVE  Agree(a)' \/ \E r \in Requests : request'[r].at \in HalfStages /\ Of(r)' = a
  <2>1. CASE a = b
    BY <2>1 DEF Of
  <2>2. CASE a # b
    <3>1. Agree(a)
      BY <2>2, IdleType DEF RowsInv, HalfStages
    <3> QED
      BY <2>2, <3>1 DEF Agree, Paid
  <2> QED
    BY <2>1, <2>2
<1>3. ASSUME NEW r \in Requests PROVE HalfWritten(r)'
  BY IdleType DEF HalfWritten, At
<1> QED
  BY <1>1, <1>2, <1>3 DEF RowsInv

\* The half-written row of a request that is not at its second statement.
LEMMA AgreesBefore ==
    ASSUME TypeOK, RowsInv, NEW q \in Requests, request[q].at \notin HalfStages,
           request[q] # Idle \/ \A r \in Requests : request[r] = Idle, NEW b \in Bookings
    PROVE  Agree(b)
BY IdleType DEF RowsInv, OneAtATime, HalfStages

\* Whoever opens while handlers do not overlap finds nobody, and is alone.
LEMMA OpensAlone ==
    ASSUME TypeOK, Serial, NEW q \in Requests, NEW state, Opens(q, state)
    PROVE  /\ \A r \in Requests : request[r] = Idle
           /\ request'[q] = state
           /\ \A r \in Requests : r # q => request'[r] = Idle
BY GoesOn DEF Opens

\* Whoever goes on is the only one who is open.
LEMMA GoesAlone ==
    ASSUME TypeOK, RowsInv, NEW q \in Requests, request[q].at # "idle",
           NEW state, Goes(q, state)
    PROVE  /\ request'[q] = state
           /\ \A r \in Requests : r # q => request[r] = Idle /\ request'[r] = Idle
BY GoesOn, IdleType DEF RowsInv, OneAtATime

LEMMA StepRows ==
    ASSUME Assumptions, Serial, ~Failures, IInv, RowsInv, [Next]_vars
    PROVE  RowsInv'
<1>1. TypeOK /\ ClaimsHold
  BY DEF IInv
<1>2. /\ booking \in [Bookings -> BookingRow] /\ payment \in [Bookings -> PaymentRow \cup {None}]
      /\ request \in [Requests -> RequestState] /\ None \notin PaymentRow
  BY <1>1 DEF TypeOK, Assumptions
<1>3. \A q \in Requests : request[q].at # "idle" => Of(q) \in Bookings
  BY <1>2 DEF RequestState, Idle, Of
<1>4. ASSUME NEW q \in Requests, NEW b \in Bookings,
             OrderRead(q, b) \/ RefundRead(q, b) \/ \E p \in Attempts : VerifyRead(q, b, p)
      PROVE  RowsInv'
  <2>1. UNCHANGED rows /\ \E state : Opens(q, state)
             /\ state.at \in {"orderSeen", "refundSeen", "verifySeen"}
    <3>1. CASE OrderRead(q, b)
      BY <3>1 DEF OrderRead, Stage
    <3>2. CASE RefundRead(q, b)
      BY <3>2 DEF RefundRead
    <3>3. CASE \E p \in Attempts : VerifyRead(q, b, p)
      BY <3>3 DEF VerifyRead
    <3> QED
      BY <1>4, <3>1, <3>2, <3>3
  <2>2. PICK state : Opens(q, state) /\ state.at \in {"orderSeen", "refundSeen", "verifySeen"}
    BY <2>1
  <2>3. request[q] = Idle /\ request'[q] = state
        /\ \A r \in Requests : r # q => request[r] = Idle /\ request'[r] = Idle
    BY <1>1, <2>2, OpensAlone
  <2>4. Agree(b)
    BY <1>1, <2>3, IdleType, AgreesBefore DEF HalfStages
  <2>5. Agree(b)' /\ HalfWritten(q)'
    BY <2>1, <2>2, <2>3, <2>4 DEF Agree, Paid, rows, HalfWritten, At
  <2> QED
    BY <1>1, <2>1, <2>3, <2>5, KeepRows DEF rows
<1>5. ASSUME NEW q \in Requests, NEW o \in Orders, OrderCreate(q, o) PROVE RowsInv'
  <2>1. request[q].at = "orderSeen" /\ UNCHANGED rows
        /\ Goes(q, [at |-> "orderMade", booking |-> Of(q), order |-> o])
    BY <1>5 DEF OrderCreate, At
  <2>2. Agree(Of(q))
    BY <1>1, <1>3, <2>1, IdleType, AgreesBefore DEF HalfStages
  <2>3. request'[q].at = "orderMade"
        /\ \A r \in Requests : r # q => request[r] = Idle /\ request'[r] = Idle
    BY <1>1, <2>1, GoesAlone
  <2>4. HalfWritten(q)'
    BY <2>3 DEF HalfWritten, At
  <2>5. \A b \in Bookings : Agree(b) => Agree(b)'
    BY <2>1 DEF Agree, Paid, rows
  <2> QED
    BY <1>1, <1>3, <2>1, <2>2, <2>3, <2>4, <2>5, KeepRows DEF rows
<1>6. ASSUME NEW q \in Requests, OrderUpsert(q) PROVE RowsInv'
  <2> PICK b \in Bookings : Of(q) = b
    BY <1>2, <1>3, <1>6 DEF OrderUpsert, At
  <2> DEFINE row == [order |-> request[q].order, status |-> "PENDING", payId |-> None,
                     refundStatus |-> None]
  <2>1. request[q] \in [at : {"orderMade"}, booking : Bookings, order : Orders]
        /\ payment' = [payment EXCEPT ![b] = row] /\ UNCHANGED booking
        /\ Goes(q, [request[q] EXCEPT !.at = "orderKept"])
    BY <1>2, <1>6 DEF OrderUpsert, At, Of, RequestState, Idle
  <2>2. /\ request'[q] = [request[q] EXCEPT !.at = "orderKept"]
        /\ \A r \in Requests : r # q => request[r] = Idle /\ request'[r] = Idle
    BY <1>1, <2>1, GoesAlone
  <2>3. request'[q].at = "orderKept" /\ request'[q].booking = b
        /\ request'[q].order = request[q].order
    BY <2>1, <2>2 DEF Of
  <2>4. payment'[b] = row /\ \A a \in Bookings : a # b => payment'[a] = payment[a]
    BY <1>2, <2>1
  <2>5. row # None
    <3>1. row \in PaymentRow
      BY <2>1 DEF PaymentRow, PaymentStatus
    <3> QED
      BY <1>2, <3>1
  <2>6. HalfWritten(q)'
    BY <2>3, <2>4, <2>5 DEF HalfWritten, At, Of
  <2> HIDE DEF row
  <2> QED
    BY <1>1, <2>1, <2>2, <2>3, <2>4, <2>6, KeepRows DEF HalfStages, Of
<1>7. ASSUME NEW q \in Requests, OrderAnswer(q) PROVE RowsInv'
  <2> PICK b \in Bookings : Of(q) = b
    BY <1>2, <1>3, <1>7 DEF OrderAnswer, At
  <2>1. request[q] \in [at : {"orderKept"}, booking : Bookings, order : Orders]
        /\ booking' = [booking EXCEPT ![b].orderId = request[q].order] /\ UNCHANGED payment
        /\ Goes(q, Idle)
    BY <1>2, <1>7 DEF OrderAnswer, At, Of, Closes, RequestState, Idle
  <2>2. request'[q] = Idle
        /\ \A r \in Requests : r # q => request[r] = Idle /\ request'[r] = Idle
    BY <1>1, <2>1, GoesAlone
  <2>3. payment[b].order = request[q].order /\ payment[b].status = "PENDING"
    BY <2>1 DEF RowsInv, HalfWritten, At, Of
  <2>4. booking'[b].orderId = request[q].order
        /\ \A a \in Bookings : a # b => booking'[a] = booking[a]
    BY <1>2, <2>1 DEF BookingRow
  <2>5. Agree(b)'
    BY <2>1, <2>3, <2>4 DEF Agree
  <2>6. HalfWritten(q)'
    BY <2>2, IdleType DEF HalfWritten, At
  <2> QED
    BY <1>1, <2>1, <2>2, <2>4, <2>5, <2>6, KeepRows DEF Of
<1>8. ASSUME NEW q \in Requests, VerifyUpdate(q) PROVE RowsInv'
  <2> PICK b \in Bookings : Of(q) = b
    BY <1>2, <1>3, <1>8 DEF VerifyUpdate, At
  <2>1. request[q] \in [at : {"verifySeen"}, booking : Bookings, pay : Attempts]
        /\ payment' = [payment EXCEPT ![b].payId = request[q].pay, ![b].status = "PAID"]
        /\ UNCHANGED booking /\ Goes(q, Stage("markPaid", b))
    BY <1>2, <1>8 DEF VerifyUpdate, At, Of, RequestState, Idle
  <2>2. request'[q] = Stage("markPaid", b)
        /\ \A r \in Requests : r # q => request[r] = Idle /\ request'[r] = Idle
    BY <1>1, <2>1, GoesAlone
  <2>3. payment[b] \in PaymentRow /\ Agree(b)
    BY <1>1, <1>2, <2>1, IdleType, AgreesBefore DEF ClaimsHold, RowStages, HalfStages, Of
  <2>4. /\ payment'[b].order = booking'[b].orderId /\ payment'[b].status = "PAID"
        /\ \A a \in Bookings : a # b => payment'[a] = payment[a]
    BY <1>2, <2>1, <2>3 DEF Agree, PaymentRow
  <2>5. HalfWritten(q)'
    BY <2>2, <2>4 DEF HalfWritten, At, Of, Stage
  <2>6. request'[q].at \in HalfStages /\ request'[q].booking = b
    BY <2>2 DEF HalfStages, Stage
  <2> QED
    BY <1>1, <2>1, <2>2, <2>4, <2>5, <2>6, KeepRows
<1>9. ASSUME NEW q \in Requests, MarkPaid(q) \/ MarkRefunded(q) \/ RefundCancel(q)
      PROVE  RowsInv'
  <2> PICK b \in Bookings : Of(q) = b
    BY <1>2, <1>3, <1>9 DEF MarkPaid, MarkRefunded, RefundCancel, At
  <2>1. request[q] \in [at : {"markPaid", "markRefunded", "cancel"}, booking : Bookings]
        /\ UNCHANGED payment /\ Goes(q, Idle)
    BY <1>2, <1>9
       DEF MarkPaid, MarkRefunded, RefundCancel, At, Of, Closes, RequestState, Idle
  <2>2. request'[q] = Idle
        /\ \A r \in Requests : r # q => request[r] = Idle /\ request'[r] = Idle
    BY <1>1, <2>1, GoesAlone
  <2>3. payment[b].order = booking[b].orderId
        /\ payment[b].status = IF request[q].at = "markPaid" THEN "PAID" ELSE "REFUNDED"
    BY <2>1 DEF RowsInv, HalfWritten, At, Of
  <2>4. /\ booking'[b].orderId = booking[b].orderId
        /\ booking'[b].paymentStatus = IF request[q].at = "markPaid" THEN "PAID" ELSE "REFUNDED"
        /\ \A a \in Bookings : a # b => booking'[a] = booking[a]
    BY <1>2, <1>9, <2>1 DEF MarkPaid, MarkRefunded, RefundCancel, SetStatus, At, Of, BookingRow
  <2>5. Agree(b)'
    BY <2>1, <2>3, <2>4 DEF Agree, Paid
  <2>6. HalfWritten(q)'
    BY <2>2, IdleType DEF HalfWritten, At
  <2> QED
    BY <1>1, <2>1, <2>2, <2>4, <2>5, <2>6, KeepRows DEF Of
<1>10. ASSUME NEW q \in Requests, RefundCall(q) PROVE RowsInv'
  <2>1. request[q].at = "refundSeen" /\ UNCHANGED rows
        /\ \E state : Goes(q, state) /\ state.at \in {"idle", "refundMade"}
    BY <1>10, IdleType DEF RefundCall, At, Closes, Stage
  <2>2. Agree(Of(q))
    BY <1>1, <1>3, <2>1, IdleType, AgreesBefore DEF HalfStages
  <2>3. request'[q].at \in {"idle", "refundMade"}
        /\ \A r \in Requests : r # q => request[r] = Idle /\ request'[r] = Idle
    BY <1>1, <2>1, GoesAlone
  <2>4. HalfWritten(q)'
    BY <2>3 DEF HalfWritten, At
  <2>5. \A b \in Bookings : Agree(b) => Agree(b)'
    BY <2>1 DEF Agree, Paid, rows
  <2> QED
    BY <1>1, <1>3, <2>1, <2>2, <2>3, <2>4, <2>5, KeepRows DEF rows
<1>11. ASSUME NEW q \in Requests, RefundUpdate(q) PROVE RowsInv'
  <2> PICK b \in Bookings : Of(q) = b
    BY <1>2, <1>3, <1>11 DEF RefundUpdate, At
  <2>1. request[q] \in [at : {"refundMade"}, booking : Bookings]
        /\ payment' = [payment EXCEPT ![b].refundStatus = "PENDING", ![b].status = "REFUNDED"]
        /\ UNCHANGED booking /\ Goes(q, Stage("cancel", b))
    BY <1>2, <1>11 DEF RefundUpdate, At, Of, RequestState, Idle
  <2>2. request'[q] = Stage("cancel", b)
        /\ \A r \in Requests : r # q => request[r] = Idle /\ request'[r] = Idle
    BY <1>1, <2>1, GoesAlone
  <2>3. payment[b] \in PaymentRow /\ Agree(b)
    BY <1>1, <1>2, <2>1, IdleType, AgreesBefore DEF ClaimsHold, RowStages, HalfStages, Of
  <2>4. /\ payment'[b].order = booking'[b].orderId /\ payment'[b].status = "REFUNDED"
        /\ \A a \in Bookings : a # b => payment'[a] = payment[a]
    BY <1>2, <2>1, <2>3 DEF Agree, PaymentRow
  <2>5. HalfWritten(q)'
    BY <2>2, <2>4 DEF HalfWritten, At, Of, Stage
  <2>6. request'[q].at \in HalfStages /\ request'[q].booking = b
    BY <2>2 DEF HalfStages, Stage
  <2> QED
    BY <1>1, <2>1, <2>2, <2>4, <2>5, <2>6, KeepRows
<1>12. ASSUME NEW q \in Requests, NEW p \in Attempts,
              WebhookCaptured(q, p) \/ WebhookLost(q, p) \/ WebhookFailed(q, p)
       PROVE  RowsInv'
  <2>1. UNCHANGED booking /\ \E state : Opens(q, state)
    BY <1>12 DEF WebhookCaptured, WebhookLost, WebhookFailed
  <2>2. \A r \in Requests : request[r] = Idle /\ (r # q => request'[r] = Idle)
    BY <1>1, <2>1, OpensAlone
  <2>3. \A b \in Bookings : Agree(b)
    BY <1>1, <2>2, IdleType, AgreesBefore DEF HalfStages
  <2>4. ASSUME NEW b \in Bookings, NEW stage \in {"markPaid", "markRefunded"},
               payment[b] # None, payment'[b].order = payment[b].order,
               payment'[b].status = IF stage = "markPaid" THEN "PAID" ELSE "REFUNDED",
               \A a \in Bookings : a # b => payment'[a] = payment[a],
               Opens(q, Stage(stage, b))
        PROVE  RowsInv'
    <3>1. request'[q] = Stage(stage, b)
      BY <1>1, <2>4, OpensAlone
    <3>2. HalfWritten(q)'
      BY <2>1, <2>3, <2>4, <3>1 DEF HalfWritten, At, Of, Stage, Agree
    <3> QED
      BY <1>1, <2>1, <2>2, <2>4, <3>1, <3>2, KeepRows DEF HalfStages, Stage
  <2>5. ASSUME Opens(q, Idle),
               \A b \in Bookings : payment'[b] = payment[b]
                   \/ (payment[b] # None /\ payment'[b].order = payment[b].order
                       /\ payment'[b].status = "FAILED")
        PROVE  RowsInv'
    <3>1. \A r \in Requests : request'[r] = Idle
      BY <1>1, <2>2, <2>5, OpensAlone
    <3>2. \A b \in Bookings : Agree(b)'
      BY <2>1, <2>3, <2>5 DEF Agree, Paid
    <3>3. \A r \in Requests : HalfWritten(r)'
      BY <3>1, IdleType DEF HalfWritten, At
    <3> QED
      BY <3>1, <3>2, <3>3 DEF RowsInv, OneAtATime
  <2>6. CASE WebhookCaptured(q, p)
    <3>1. ASSUME NEW b \in Bookings, RowMatches(b, p),
                 payment' = [payment EXCEPT ![b].payId = p, ![b].status = "PAID"],
                 Opens(q, Stage("markPaid", b))
          PROVE  RowsInv'
      <4>1. payment[b] \in PaymentRow /\ payment[b] # None
        BY <1>2, <3>1 DEF RowMatches
      <4>2. payment'[b].order = payment[b].order /\ payment'[b].status = "PAID"
            /\ \A a \in Bookings : a # b => payment'[a] = payment[a]
        BY <1>2, <3>1, <4>1 DEF PaymentRow
      <4> QED
        BY <2>4, <3>1, <4>1, <4>2
    <3> QED
      BY <2>5, <2>6, <3>1 DEF WebhookCaptured
  <2>7. CASE WebhookLost(q, p)
    <3>1. ASSUME NEW b \in Bookings, HasPayId(b, p),
                 payment' = [payment EXCEPT ![b].status = "REFUNDED",
                                            ![b].refundStatus = "PROCESSED"],
                 Opens(q, Stage("markRefunded", b))
          PROVE  RowsInv'
      <4>1. payment[b] \in PaymentRow /\ payment[b] # None
        BY <1>2, <3>1 DEF HasPayId
      <4>2. payment'[b].order = payment[b].order /\ payment'[b].status = "REFUNDED"
            /\ \A a \in Bookings : a # b => payment'[a] = payment[a]
        BY <1>2, <3>1, <4>1 DEF PaymentRow
      <4> QED
        BY <2>4, <3>1, <4>1, <4>2
    <3> QED
      BY <2>5, <2>7, <3>1 DEF WebhookLost
  <2>8. CASE WebhookFailed(q, p)
    <3>1. Opens(q, Idle) /\ payment' = [b \in Bookings |-> IF RowMatches(b, p)
              THEN [payment[b] EXCEPT !.status = "FAILED"] ELSE payment[b]]
      BY <2>8 DEF WebhookFailed
    <3>2. \A b \in Bookings : payment'[b] = payment[b]
              \/ (payment[b] # None /\ payment'[b].order = payment[b].order
                  /\ payment'[b].status = "FAILED")
      BY <1>2, <3>1 DEF RowMatches, PaymentRow
    <3> QED
      BY <2>5, <3>1, <3>2
  <2> QED
    BY <1>12, <2>6, <2>7, <2>8
<1>13. ASSUME UNCHANGED <<rows, request>> PROVE RowsInv'
  BY <1>13 DEF RowsInv, OneAtATime, Agree, Paid, HalfWritten, At, Of, rows
<1>14. ASSUME NEW p \in Attempts, NEW o \in Orders, NEW r \in Results, PayAttempt(p, o, r)
       PROVE  UNCHANGED <<rows, request>>
  BY <1>14 DEF PayAttempt
<1>15. ASSUME NEW p \in Attempts, LoseDispute(p) PROVE UNCHANGED <<rows, request>>
  BY <1>15 DEF LoseDispute
<1>16. ASSUME TimePasses \/ UNCHANGED vars PROVE UNCHANGED <<rows, request>>
  BY <1>16 DEF TimePasses, vars, rows
<1>17. ASSUME NEW q \in Requests PROVE ~Fail(q)
  BY DEF Fail
<1> QED
  BY <1>4, <1>5, <1>6, <1>7, <1>8, <1>9, <1>10, <1>11, <1>12, <1>13, <1>14, <1>15, <1>16, <1>17
     DEF Next, Continue, Webhook

(* When handlers do not overlap and all of them finish, the rows of        *)
(* booking and payment agree whenever none is open, whatever is ordered,   *)
(* paid, reported twice, disputed or refunded in between.                  *)
THEOREM SerialRowsAgree ==
    ASSUME Assumptions, Serial, ~Failures
    PROVE  Spec => []RowsAgree
<1>1. Init => IInv /\ RowsInv
  BY InitIInv, IdleType DEF Init, RowsInv, OneAtATime, Agree, HalfWritten, At
<1>2. IInv /\ RowsInv /\ [Next]_vars => IInv' /\ RowsInv'
  <2> SUFFICES ASSUME IInv, RowsInv, [Next]_vars PROVE IInv' /\ RowsInv'
    OBVIOUS
  <2>1. BooksGrow
    BY StepGrows DEF IInv
  <2> QED
    BY <2>1, InvInductive, StepRows
<1>3. RowsInv => RowsAgree
  BY IdleType DEF RowsInv, RowsAgree, Quiet, Agree, HalfStages
<1> QED
  BY <1>1, <1>2, <1>3, PTL DEF Spec

------------------------------------------------------------------------------
(* EmailDelivery.  The producer and the worker neither lose nor repeat a   *)
(* mail, for any emails, answers and cool-downs, until Redis or the process*)
(* goes away too often.  Three facts about the stages carry it: a job      *)
(* stalls once in an outage (StallsCounted), an email whose last try threw *)
(* has been refused before (RefusedBefore), and one that will still be sent*)
(* has not been taken (UntakenBefore).                                     *)

\* No job has stalled more often than Redis has gone away, and one in hand
\* now has not stalled in this outage.
StallsCounted ==
    restarts = 0 =>
        \A e \in Emails :
            /\ stalls[e] <= outages
            /\ overQuota /\ email[e] \in Post!InHand => stalls[e] < outages

\* Whoever threw, is on the last try, or is lost, was refused.
Refusing == {"threw", "retried", "unrecoverable", "lost"}
RefusedBefore ==
    restarts = 0 /\ outages <= Post!MaxStalledCount =>
        \A e \in Emails : email[e] \in Refusing => e \in failed

\* Stages after which another mail may be sent.
Unsent == {"new", "enqueue", "direct", "queued", "active", "threw", "retried"}
Undisturbed == outages = 0 /\ restarts = 0
UntakenBefore ==
    Undisturbed =>
        /\ ~overQuota
        /\ \A e \in Emails : copies[e] <= 1 /\ (email[e] \in Unsent => copies[e] = 0)

\* Nothing is sent, tripped or paused at first.
LEMMA InitMail ==
    ASSUME Post!Assumptions, Post!Init
    PROVE  Post!TypeOK
<1>1. /\ email \in [Emails -> Post!Stages] /\ tries \in [Emails -> 0..Post!Attempts]
      /\ stalls \in [Emails -> 0..Post!MaxStalledCount + 1]
      /\ copies \in [Emails -> 0..Post!MaxCopies] /\ failed \subseteq Emails
      /\ forced \in BOOLEAN /\ (paused => isWorkerPaused)
  BY DEF Post!Init, Post!Stages, Post!Attempts, Post!MaxStalledCount, Post!MaxCopies
<1>2. /\ trippedAt \in 0..Post!Closed /\ timer \in 0..Post!Off
      /\ outages \in 0..Outages /\ restarts \in 0..Restarts
  BY DEF Post!Assumptions, Post!Init, Post!Closed, Post!Off
<1>3. {paused, isWorkerPaused, overQuota} \subseteq BOOLEAN
  BY Zenon DEF Post!Init
<1> QED
  BY <1>1, <1>2, <1>3 DEF Post!TypeOK

\* The three flags are flags.
MailFlags == {paused, isWorkerPaused, overQuota} \subseteq BOOLEAN
LEMMA StepMailFlags ==
    ASSUME Post!TypeOK, [Post!Next]_(Post!vars)
    PROVE  MailFlags'
<1> USE DEF MailFlags
<1>1. paused \in BOOLEAN /\ isWorkerPaused \in BOOLEAN /\ overQuota \in BOOLEAN
  BY Zenon DEF Post!TypeOK
<1>2. CASE UNCHANGED <<paused, isWorkerPaused, overQuota>>
  BY <1>1, <1>2
<1>3. CASE Post!WorkerError
  BY <1>1, <1>3 DEF Post!WorkerError, Post!Pause, Post!redis
<1>4. CASE Post!TimerFires
  BY <1>1, <1>4 DEF Post!TimerFires, Post!Resume, Post!redis
<1>5. CASE Post!QuotaUsedUp \/ Post!QuotaRenewed
  BY <1>1, <1>5 DEF Post!QuotaUsedUp, Post!QuotaRenewed, Post!breaker
<1>6. CASE Post!Restart
  BY <1>1, <1>6 DEF Post!Restart
<1> QED
  BY <1>2, <1>3, <1>4, <1>5, <1>6
     DEF Post!Next, Post!Producer, Post!Worker, Post!SendCode, Post!SendOther, Post!Bypass,
         Post!Enqueue, Post!EnqueueFails, Post!Direct,
         Post!TakeJob, Post!Process, Post!ProcessDirectly, Post!Complete, Post!JobFails,
         Post!Stall,
         Post!TimePasses, Post!vars, Post!breaker, Post!redis

\* A mail to the server counts at most one copy, and notes what was refused.
LEMMA CountType ==
    ASSUME Post!Assumptions, Post!TypeOK, NEW e \in Emails, NEW answer, Post!Count(e, answer)
    PROVE  /\ copies' \in [Emails -> 0..Post!MaxCopies]
           /\ failed' \subseteq Emails
           /\ failed \subseteq failed'
           /\ \A d \in Emails : d # e => copies'[d] = copies[d]
           /\ copies'[e] = copies[e] \/ (Post!Taken(answer) /\ copies'[e] = copies[e] + 1)
           /\ answer # "sent" => e \in failed'
BY DEF Post!Count, Post!TypeOK, Post!MaxCopies

\* The email of a mail goes where its answer sends it, and no other moves.
LEMMA MailGoes ==
    ASSUME Post!Assumptions, Post!TypeOK, NEW e \in Emails, NEW answer, NEW ifSent, NEW ifNot,
           Post!Mail(e, answer, ifSent, ifNot)
    PROVE  /\ Post!Count(e, answer)
           /\ email'[e] = IF answer = "sent" THEN ifSent ELSE ifNot
           /\ \A d \in Emails : d # e => email'[d] = email[d]
           /\ ifSent \in Post!Stages /\ ifNot \in Post!Stages => email' \in [Emails -> Post!Stages]
BY DEF Post!Mail, Post!TypeOK

\* The circuit's clock and the worker's timer keep their ranges.
LEMMA BreakerType ==
    ASSUME Post!Assumptions, Post!TypeOK
    PROVE  /\ \A on \in BOOLEAN : Post!Trips(on) => trippedAt' \in 0..Post!Closed
           /\ Post!Looks => trippedAt' \in 0..Post!Closed
BY DEF Post!Assumptions, Post!TypeOK, Post!Trips, Post!Looks, Post!Closed, Post!Elapsed

\* The types, action by action.
LEMMA StepMail ==
    ASSUME Post!Assumptions, Post!TypeOK, [Post!Next]_(Post!vars)
    PROVE  Post!TypeOK'
<1> USE DEF Post!Assumptions
<1>0. {paused', isWorkerPaused', overQuota'} \subseteq BOOLEAN
  BY StepMailFlags DEF MailFlags
<1>1. ASSUME NEW e \in Emails, Post!SendCode(e) \/ Post!Direct(e) \/ Post!ProcessDirectly(e)
      PROVE  Post!TypeOK'
  <2>1. PICK a \in Answers, s \in Post!Stages, n \in Post!Stages : Post!Mail(e, a, s, n)
    BY <1>1 DEF Post!SendCode, Post!Direct, Post!ProcessDirectly, Post!Stages, Post!InHand
  <2>2. UNCHANGED <<Post!jobs, Post!breaker, Post!redis>>
    BY <1>1 DEF Post!SendCode, Post!Direct, Post!ProcessDirectly
  <2>3. /\ email' \in [Emails -> Post!Stages]
        /\ copies' \in [Emails -> 0..Post!MaxCopies] /\ failed' \subseteq Emails
    BY <2>1, MailGoes, CountType
  <2> QED
    BY <2>2, <2>3 DEF Post!TypeOK, Post!jobs, Post!breaker, Post!redis
<1>2. ASSUME NEW e \in Emails,
             Post!SendOther(e) \/ Post!Bypass(e) \/ Post!TakeJob(e) \/ Post!Complete(e)
      PROVE  Post!TypeOK'
  BY <1>2
     DEF Post!SendOther, Post!Bypass, Post!TakeJob, Post!Complete, Post!Goes,
         Post!TypeOK, Post!Stages, Post!InHand, Post!jobs, Post!breaker, Post!redis
<1>3. ASSUME NEW e \in Emails, Post!Enqueue(e) \/ Post!EnqueueFails(e) PROVE Post!TypeOK'
  <2>1. trippedAt' \in 0..Post!Closed
    BY <1>3, BreakerType DEF Post!Enqueue, Post!EnqueueFails, Post!Closed
  <2> QED
    BY <1>3, <2>1 DEF Post!Enqueue, Post!EnqueueFails, Post!Goes, Post!TypeOK, Post!Stages,
                      Post!jobs, Post!redis
<1>4. ASSUME NEW e \in Emails, Post!Process(e) PROVE Post!TypeOK'
  <2>1. PICK a \in Answers :
            /\ Post!Mail(e, a, "taken", IF a = "limit" THEN "retried" ELSE "threw")
            /\ Post!Trips(a = "limit")
    BY <1>4 DEF Post!Process
  <2>2. trippedAt' \in 0..Post!Closed
    BY <2>1, BreakerType
  <2>3. /\ email' \in [Emails -> Post!Stages]
        /\ copies' \in [Emails -> 0..Post!MaxCopies] /\ failed' \subseteq Emails
    BY <2>1, MailGoes, CountType DEF Post!Stages, Post!InHand
  <2> QED
    BY <1>4, <2>2, <2>3 DEF Post!Process, Post!TypeOK, Post!jobs, Post!redis
<1>5. CASE Post!WorkerError
  <2>1. trippedAt' \in 0..Post!Closed
    BY <1>5, BreakerType DEF Post!WorkerError
  <2> QED
    BY <1>0, <1>5, <2>1 DEF Post!WorkerError, Post!Pause, Post!TypeOK, Post!mails, Post!jobs,
                            Post!redis, Post!Off
<1>6. CASE Post!TimerFires
  <2>1. trippedAt' \in 0..Post!Closed
    BY <1>6, BreakerType DEF Post!TimerFires
  <2> QED
    BY <1>0, <1>6, <2>1 DEF Post!TimerFires, Post!Resume, Post!TypeOK, Post!mails, Post!jobs,
                            Post!redis, Post!Off
<1>7. CASE Post!TimePasses
  <2>1. trippedAt' \in 0..Post!Closed /\ timer' \in 0..Post!Off
    BY <1>7 DEF Post!TimePasses, Post!IsOpen, Post!CooledDown, Post!TypeOK, Post!Off,
                Post!Closed, Post!Elapsed
  <2> QED
    BY <1>0, <1>7, <2>1 DEF Post!TimePasses, Post!TypeOK, Post!mails, Post!jobs, Post!redis
<1>8. CASE Post!QuotaUsedUp \/ Post!QuotaRenewed
  <2>1. outages' \in 0..Outages /\ UNCHANGED <<Post!mails, Post!breaker, restarts, forced>>
    BY <1>8 DEF Post!QuotaUsedUp, Post!QuotaRenewed, Post!TypeOK
  <2> QED
    BY <1>0, <2>1 DEF Post!TypeOK, Post!mails, Post!jobs, Post!breaker
<1>9. CASE Post!Restart
  <2>1. restarts' \in 0..Restarts /\ trippedAt' \in 0..Post!Closed /\ timer' \in 0..Post!Off
        /\ email' \in [Emails -> Post!Stages]
        /\ stalls' \in [Emails -> 0..Post!MaxStalledCount + 1]
    BY <1>9 DEF Post!Restart, Post!AfterStall, Post!StallsOnce, Post!TypeOK, Post!Stages,
                Post!MaxStalledCount, Post!Off, Post!Closed
  <2> QED
    BY <1>0, <1>9, <2>1 DEF Post!Restart, Post!TypeOK
<1>10. CASE UNCHANGED Post!vars
  BY <1>10 DEF Post!vars, Post!jobs, Post!TypeOK
<1>11. ASSUME NEW e \in Emails, Post!JobFails(e) PROVE Post!TypeOK'
  BY <1>11 DEF Post!JobFails, Post!Goes, Post!TypeOK, Post!Stages, Post!Attempts,
               Post!breaker, Post!redis
<1>12. ASSUME NEW e \in Emails, Post!Stall(e) PROVE Post!TypeOK'
  <2>1. /\ email' \in [Emails -> Post!Stages]
        /\ stalls' \in [Emails -> 0..Post!MaxStalledCount + 1]
    BY <1>12 DEF Post!Stall, Post!Goes, Post!AfterStall, Post!StallsOnce, Post!TypeOK,
                 Post!Stages, Post!MaxStalledCount
  <2> QED
    BY <1>12, <2>1 DEF Post!Stall, Post!TypeOK, Post!breaker, Post!redis
<1> QED
  BY <1>1, <1>2, <1>3, <1>4, <1>5, <1>6, <1>7, <1>8, <1>9, <1>10, <1>11, <1>12
     DEF Post!Next, Post!Producer, Post!Worker

\* A job that stalls was taken since Redis last came back, and the worker
\* takes none while Redis is away.
LEMMA StepStalls ==
    ASSUME Post!Assumptions, Post!TypeOK, StallsCounted, [Post!Next]_(Post!vars)
    PROVE  StallsCounted'
<1> USE DEF StallsCounted
<1>1. /\ outages \in Nat /\ restarts \in Nat /\ \A e \in Emails : stalls[e] \in Nat
      /\ email \in [Emails -> Post!Stages] /\ stalls \in [Emails -> 0..Post!MaxStalledCount + 1]
  BY DEF Post!TypeOK, Post!Assumptions, Post!MaxStalledCount
<1>2. ASSUME NEW e \in Emails, NEW s, Post!Goes(e, s),
             UNCHANGED <<stalls, overQuota, outages, restarts>>,
             s \in Post!InHand => email[e] \in Post!InHand \/ ~overQuota
      PROVE  StallsCounted'
  BY <1>1, <1>2 DEF Post!Goes
<1>3. ASSUME NEW e \in Emails, Post!Producer(e) PROVE StallsCounted'
  <2>1. /\ UNCHANGED <<stalls, overQuota, outages, restarts>>
        /\ \E s \in Post!Stages \ Post!InHand : Post!Goes(e, s)
    BY <1>3
       DEF Post!Producer, Post!SendCode, Post!SendOther, Post!Bypass, Post!Enqueue,
           Post!EnqueueFails, Post!Direct, Post!Mail, Post!Goes, Post!Stages, Post!InHand,
           Post!jobs, Post!redis
  <2> QED
    BY <1>2, <2>1
<1>4. ASSUME NEW e \in Emails,
             \/ Post!TakeJob(e) \/ Post!Process(e) \/ Post!ProcessDirectly(e)
             \/ Post!Complete(e) \/ Post!JobFails(e)
      PROVE  StallsCounted'
  <2>1. UNCHANGED <<stalls, overQuota, outages, restarts>>
    BY <1>4
       DEF Post!TakeJob, Post!Process, Post!ProcessDirectly, Post!Complete, Post!JobFails,
           Post!jobs, Post!redis
  <2>2. \E s \in Post!Stages :
            /\ Post!Goes(e, s)
            /\ s \in Post!InHand => email[e] \in Post!InHand \/ ~overQuota
    BY <1>4
       DEF Post!TakeJob, Post!Process, Post!ProcessDirectly, Post!Complete, Post!JobFails,
           Post!Mail, Post!Goes, Post!At, Post!Polls, Post!Stages, Post!InHand
  <2> QED
    BY <1>2, <2>1, <2>2
<1>5. ASSUME NEW e \in Emails, Post!Stall(e) PROVE StallsCounted'
  <2>1. /\ email'[e] \notin Post!InHand
        /\ \A d \in Emails : d # e => email'[d] = email[d] /\ stalls'[d] = stalls[d]
    BY <1>1, <1>5 DEF Post!Stall, Post!Goes, Post!AfterStall, Post!InHand
  <2>2. stalls'[e] \in {stalls[e], stalls[e] + 1} /\ UNCHANGED <<overQuota, outages, restarts>>
    BY <1>1, <1>5 DEF Post!Stall, Post!StallsOnce, Post!redis
  <2>3. overQuota /\ email[e] \in Post!InHand
    BY <1>5 DEF Post!Stall
  <2> QED
    BY <1>1, <2>1, <2>2, <2>3
<1>6. CASE Post!QuotaUsedUp \/ Post!QuotaRenewed
  <2>1. UNCHANGED <<email, stalls, restarts>>
        /\ (outages' = outages + 1 \/ (~overQuota' /\ outages' = outages))
    BY <1>6 DEF Post!QuotaUsedUp, Post!QuotaRenewed, Post!mails, Post!jobs
  <2> QED
    BY <1>1, <2>1
<1>7. CASE Post!Restart
  BY <1>1, <1>7 DEF Post!Restart
<1>8. CASE UNCHANGED <<email, stalls, overQuota, outages, restarts>>
  BY <1>8
<1> QED
  BY <1>3, <1>4, <1>5, <1>6, <1>7, <1>8
     DEF Post!Next, Post!Worker, Post!WorkerError, Post!TimerFires, Post!TimePasses,
         Post!vars, Post!mails, Post!jobs, Post!redis

\* Who is lost was refused: by the server just now, or before the job failed.
LEMMA StepRefused ==
    ASSUME Post!Assumptions, Post!TypeOK, StallsCounted, RefusedBefore, [Post!Next]_(Post!vars)
    PROVE  RefusedBefore'
<1> USE DEF RefusedBefore
<1>0. outages \in Nat /\ restarts \in Nat
  BY DEF Post!TypeOK, Post!Assumptions
<1>1. ASSUME NEW e \in Emails, NEW a \in Answers, NEW s \in Post!Stages \ Refusing,
             NEW n, Post!Mail(e, a, s, n), UNCHANGED <<outages, restarts>>
      PROVE  RefusedBefore'
  <2>1. failed \subseteq failed' /\ (a # "sent" => e \in failed')
    BY <1>1, MailGoes, CountType
  <2>2. email'[e] = (IF a = "sent" THEN s ELSE n) /\ \A d \in Emails : d # e => email'[d] = email[d]
    BY <1>1, MailGoes
  <2> QED
    BY <1>1, <2>1, <2>2
<1>2. ASSUME NEW e \in Emails,
             Post!SendCode(e) \/ Post!Direct(e) \/ Post!Process(e) \/ Post!ProcessDirectly(e)
      PROVE  RefusedBefore'
  <2>1. /\ UNCHANGED <<outages, restarts>>
        /\ \E a \in Answers, s \in {"sent", "taken"}, n \in Post!Stages : Post!Mail(e, a, s, n)
    BY <1>2 DEF Post!SendCode, Post!Direct, Post!Process, Post!ProcessDirectly, Post!Stages,
                Post!InHand, Post!redis
  <2> QED
    BY <1>1, <2>1 DEF Post!Stages, Post!InHand, Refusing
<1>3. ASSUME NEW e \in Emails, NEW s \in Post!Stages, Post!Goes(e, s),
             s \in Refusing => email[e] \in Refusing, UNCHANGED <<failed, outages, restarts>>
      PROVE  RefusedBefore'
  BY <1>3 DEF Post!Goes, Post!TypeOK
<1>4. ASSUME NEW e \in Emails,
             \/ Post!SendOther(e) \/ Post!Bypass(e) \/ Post!Enqueue(e) \/ Post!EnqueueFails(e)
             \/ Post!TakeJob(e) \/ Post!Complete(e) \/ Post!JobFails(e)
      PROVE  RefusedBefore'
  <2>1. /\ UNCHANGED <<failed, outages, restarts>>
        /\ \E s \in Post!Stages : Post!Goes(e, s) /\ (s \in Refusing => email[e] \in Refusing)
    BY <1>4
       DEF Post!SendOther, Post!Bypass, Post!Enqueue, Post!EnqueueFails, Post!TakeJob,
           Post!Complete, Post!JobFails, Post!Stages, Post!InHand, Refusing, Post!redis
  <2> QED
    BY <1>3, <2>1
<1>5. ASSUME NEW e \in Emails, Post!Stall(e) PROVE RefusedBefore'
  <2>1. SUFFICES ASSUME restarts = 0, outages <= Post!MaxStalledCount PROVE RefusedBefore'
    BY <1>5 DEF Post!Stall, Post!redis
  <2>2. stalls[e] \in Nat /\ stalls[e] < outages
    BY <1>5, <2>1 DEF StallsCounted, Post!Stall, Post!TypeOK, Post!MaxStalledCount
  <2>3. Post!AfterStall(e) = "queued"
    BY <1>0, <2>1, <2>2 DEF Post!AfterStall, Post!MaxStalledCount
  <2>4. Post!Goes(e, "queued") /\ UNCHANGED <<failed, outages, restarts>>
    BY <1>5, <2>3 DEF Post!Stall, Post!redis
  <2> QED
    BY <1>3, <2>4 DEF Post!Stages, Refusing
<1>6. CASE Post!Restart
  <2>1. restarts' # 0
    BY <1>0, <1>6 DEF Post!Restart
  <2> QED
    BY <2>1
<1>7. CASE Post!QuotaUsedUp
  <2>1. UNCHANGED <<email, failed, restarts>> /\ outages' = outages + 1
    BY <1>7 DEF Post!QuotaUsedUp, Post!mails
  <2>2. outages' <= Post!MaxStalledCount => outages <= Post!MaxStalledCount
    BY <1>0, <2>1 DEF Post!MaxStalledCount
  <2> QED
    BY <2>1, <2>2 DEF Post!MaxStalledCount
<1>8. CASE UNCHANGED <<email, failed, outages, restarts>>
  BY <1>8 DEF Post!MaxStalledCount
<1> QED
  BY <1>2, <1>4, <1>5, <1>6, <1>7, <1>8
     DEF Post!Next, Post!Producer, Post!Worker, Post!WorkerError, Post!TimerFires,
         Post!TimePasses, Post!QuotaRenewed,
         Post!vars, Post!mails, Post!redis

\* Who may still be sent was not taken: a mail is taken or refused, and only
\* an outage or a restart leads a job that was taken back to the queue.
LEMMA StepUntaken ==
    ASSUME Post!Assumptions, "unsure" \notin Answers, Post!TypeOK, UntakenBefore,
           [Post!Next]_(Post!vars)
    PROVE  UntakenBefore'
<1> USE DEF UntakenBefore
<1>1. SUFFICES ASSUME Undisturbed' PROVE UntakenBefore'
  OBVIOUS
<1>2. Undisturbed /\ ~Post!QuotaUsedUp /\ ~Post!Restart
  <2>1. outages \in Nat /\ restarts \in Nat
    BY DEF Post!TypeOK, Post!Assumptions
  <2>2. ~Post!QuotaUsedUp /\ ~Post!Restart
    BY <1>1, <2>1 DEF Undisturbed, Post!QuotaUsedUp, Post!Restart
  <2>3. UNCHANGED <<outages, restarts>>
    BY <2>2
       DEF Post!Next, Post!Producer, Post!Worker, Post!SendCode, Post!SendOther, Post!Bypass,
           Post!Enqueue, Post!EnqueueFails, Post!Direct,
           Post!TakeJob, Post!Process, Post!ProcessDirectly, Post!Complete, Post!JobFails,
         Post!Stall,
           Post!WorkerError, Post!TimerFires,
           Post!TimePasses, Post!QuotaRenewed, Post!vars, Post!redis
  <2> QED
    BY <1>1, <2>2, <2>3 DEF Undisturbed
<1>3. ~overQuota /\ \A e \in Emails : copies[e] <= 1 /\ (email[e] \in Unsent => copies[e] = 0)
  BY <1>2
<1>4. ASSUME NEW e \in Emails, NEW a \in Answers, NEW s \in Post!Stages, NEW n \in Post!Stages,
             email[e] \in Unsent, s \notin Unsent, Post!Mail(e, a, s, n), UNCHANGED overQuota
      PROVE  UntakenBefore'
  <2>1. \A d \in Emails : d # e => copies'[d] = copies[d] /\ email'[d] = email[d]
    BY <1>4, MailGoes, CountType
  <2>2. CASE a = "sent"
    <3>1. email'[e] = s /\ copies'[e] \in {copies[e], copies[e] + 1} /\ copies[e] = 0
      BY <1>3, <1>4, <2>2, MailGoes, CountType
    <3> QED
      BY <1>3, <1>4, <2>1, <3>1
  <2>3. CASE a # "sent"
    <3>1. ~Post!Taken(a)
      BY <1>4, <2>3 DEF Post!Taken
    <3>2. copies'[e] = 0
      BY <1>3, <1>4, <3>1, MailGoes, CountType
    <3> QED
      BY <1>3, <1>4, <2>1, <3>2
  <2> QED
    BY <2>2, <2>3
<1>5. ASSUME NEW e \in Emails, Post!SendCode(e) \/ Post!Direct(e) \/ Post!ProcessDirectly(e)
      PROVE  UntakenBefore'
  <2>1. /\ UNCHANGED overQuota /\ email[e] \in Unsent
        /\ \E a \in Answers, s \in {"sent", "taken"}, n \in {"enqueue", "lost", "unrecoverable"} :
               Post!Mail(e, a, s, n)
    BY <1>5 DEF Post!SendCode, Post!Direct, Post!ProcessDirectly, Post!At, Unsent, Post!redis
  <2> QED
    BY <1>4, <2>1 DEF Post!Stages, Post!InHand, Unsent
<1>6. ASSUME NEW e \in Emails, Post!Process(e) PROVE UntakenBefore'
  <2>1. /\ UNCHANGED overQuota /\ email[e] \in Unsent
        /\ \E a \in Answers, n \in Post!Stages : Post!Mail(e, a, "taken", n)
    BY <1>6 DEF Post!Process, Post!At, Post!Stages, Post!InHand, Unsent, Post!redis
  <2> QED
    BY <1>4, <2>1 DEF Post!Stages, Post!InHand, Unsent
<1>7. ASSUME NEW e \in Emails, NEW s \in Post!Stages, Post!Goes(e, s),
             email[e] \in Unsent \/ s \notin Unsent, UNCHANGED <<copies, overQuota>>
      PROVE  UntakenBefore'
  BY <1>3, <1>7 DEF Post!Goes, Post!TypeOK
<1>8. ASSUME NEW e \in Emails,
             \/ Post!SendOther(e) \/ Post!Bypass(e) \/ Post!Enqueue(e) \/ Post!EnqueueFails(e)
             \/ Post!TakeJob(e) \/ Post!Complete(e) \/ Post!JobFails(e)
      PROVE  UntakenBefore'
  <2>1. /\ UNCHANGED <<copies, overQuota>>
        /\ \E s \in Post!Stages : Post!Goes(e, s) /\ (email[e] \in Unsent \/ s \notin Unsent)
    BY <1>8
       DEF Post!SendOther, Post!Bypass, Post!Enqueue, Post!EnqueueFails, Post!TakeJob,
           Post!Complete, Post!JobFails, Post!At, Post!Stages, Post!InHand, Unsent, Post!redis
  <2> QED
    BY <1>7, <2>1
<1>9. \A e \in Emails : ~Post!Stall(e)
  BY <1>3 DEF Post!Stall
<1>10. CASE UNCHANGED <<email, copies>> /\ (overQuota' => overQuota)
  BY <1>3, <1>10
<1> QED
  BY <1>2, <1>5, <1>6, <1>8, <1>9, <1>10
     DEF Post!Next, Post!Producer, Post!Worker, Post!WorkerError, Post!TimerFires,
         Post!TimePasses, Post!QuotaRenewed,
         Post!vars, Post!mails, Post!redis

(* Stages, counters and the flags of breaker and worker keep their types;  *)
(* a worker that polls no more always has its flag set.                    *)
THEOREM MailTypeCorrect ==
    ASSUME Post!Assumptions
    PROVE  Post!Spec => []Post!TypeOK
<1>1. Post!Init => Post!TypeOK
  BY InitMail
<1>2. Post!TypeOK /\ [Post!Next]_(Post!vars) => Post!TypeOK'
  BY StepMail
<1> QED
  BY <1>1, <1>2, PTL DEF Post!Spec

(* As long as the process is not restarted and Redis has gone away no more *)
(* often than a job may stall, no email is given up that a mail server did *)
(* not refuse: wherever that outage meets it, at the producer, in the queue*)
(* or at the worker, and whatever the server answers.                      *)
THEOREM LostAreRefused ==
    ASSUME Post!Assumptions
    PROVE  Post!Spec => []Post!LostOnlyIfRefused
<1>1. Post!Init => Post!TypeOK /\ StallsCounted /\ RefusedBefore
  <2> SUFFICES ASSUME Post!Init PROVE Post!TypeOK /\ StallsCounted /\ RefusedBefore
    OBVIOUS
  <2>1. ~overQuota /\ outages = 0
    BY DEF Post!Init
  <2>2. \A e \in Emails : email[e] = "new" /\ stalls[e] = 0
    BY DEF Post!Init
  <2> QED
    BY <2>1, <2>2, InitMail DEF StallsCounted, RefusedBefore, Refusing
<1>2. /\ Post!TypeOK /\ StallsCounted /\ RefusedBefore
      /\ [Post!Next]_(Post!vars)
      => (Post!TypeOK /\ StallsCounted /\ RefusedBefore)'
  BY StepMail, StepStalls, StepRefused
<1>3. RefusedBefore => Post!LostOnlyIfRefused
  BY DEF RefusedBefore, Refusing, Post!LostOnlyIfRefused, Post!At
<1> QED
  BY <1>1, <1>2, <1>3, PTL DEF Post!Spec

(* A mail server that means what it says gets no email twice before Redis  *)
(* goes away or the process restarts, ...                                  *)
THEOREM OneCopyUntilDisturbed ==
    ASSUME Post!Assumptions, "unsure" \notin Answers
    PROVE  Post!Spec => [](Undisturbed => Post!AtMostOneCopy)
<1>1. Post!Init => Post!TypeOK /\ UntakenBefore
  <2> SUFFICES ASSUME Post!Init PROVE Post!TypeOK /\ UntakenBefore
    OBVIOUS
  <2>1. ~overQuota
    BY DEF Post!Init
  <2>2. \A e \in Emails : copies[e] = 0
    BY DEF Post!Init
  <2> QED
    BY <2>1, <2>2, InitMail DEF UntakenBefore
<1>2. Post!TypeOK /\ UntakenBefore /\ [Post!Next]_(Post!vars) => Post!TypeOK' /\ UntakenBefore'
  BY StepMail, StepUntaken
<1>3. UntakenBefore => (Undisturbed => Post!AtMostOneCopy)
  BY DEF UntakenBefore, Post!AtMostOneCopy
<1> QED
  BY <1>1, <1>2, <1>3, PTL DEF Post!Spec

(* ... and none at all where neither happens: fallbacks and retries repeat *)
(* no mail that was taken.                                                 *)
THEOREM OneCopy ==
    ASSUME Post!Assumptions, "unsure" \notin Answers, Outages = 0, Restarts = 0
    PROVE  Post!Spec => []Post!AtMostOneCopy
<1>1. Post!Spec => []Post!TypeOK
  BY MailTypeCorrect
<1>2. Post!Spec => [](Undisturbed => Post!AtMostOneCopy)
  BY OneCopyUntilDisturbed
<1>3. Post!TypeOK => Undisturbed
  BY DEF Post!TypeOK, Undisturbed
<1> QED
  BY <1>1, <1>2, <1>3, PTL

------------------------------------------------------------------------------
(* Conversation.  What is owed to a socket is in a message it has, or that *)
(* is on its way to it (Rooms), and a chat is looked for before it is made *)
(* (ChatInv).                                                              *)

TalkTypes == Talk!TypeOK /\ message \in [Chats -> Seq(Talk!Message)]

\* What an open handler remembers.
LEMMA TalkRemembers ==
    ASSUME Talk!TypeOK, NEW q \in Requests
    PROVE  /\ request[q] = Talk!Idle \/ request[q].at \in {"noChat", "joining", "read", "created"}
           /\ Talk!At(q, "noChat") =>
                  request[q].ride \in Rides /\ request[q].passenger \in Passengers
           /\ request[q].at \in {"joining", "read", "created"} =>
                  request[q].user \in Talk!Users /\ request[q].chat \in Chats
           /\ Talk!At(q, "read") => request[q].previous \in SUBSET (1..MaxMessages)
           /\ Talk!At(q, "created") => request[q].message \in 1..MaxMessages
<1>1. request[q] \in Talk!RequestState
  BY DEF Talk!TypeOK
<1> QED
  BY <1>1 DEF Talk!RequestState, Talk!Idle, Talk!At

\* A handler goes on to a state of its own, and no other one is touched.
LEMMA TalkGoes ==
    ASSUME Talk!TypeOK, NEW q \in Requests, NEW state \in Talk!RequestState, Talk!Goes(q, state)
    PROVE  /\ request' \in [Requests -> Talk!RequestState]
           /\ request'[q] = state
           /\ \A r \in Requests : r # q => request'[r] = request[r]
BY DEF Talk!TypeOK, Talk!Goes

LEMMA LeastOf ==
    ASSUME NEW S \in SUBSET Nat, NEW m \in S, \A n \in S : m <= n
    PROVE  Talk!Min(S) = m
<1>1. \A x \in S : (\A n \in S : x <= n) => x = m
  OBVIOUS
<1>2. Talk!Min(S) \in S /\ \A n \in S : Talk!Min(S) <= n
  BY DEF Talk!Min
<1> QED
  BY <1>1, <1>2
\* The newest messages of the first so many, as a joining socket is given them.
Span(last) == {n \in 1..last : n + Recent > last}

\* What the messages that it was given leave owed to a socket.
LEMMA LeastOwed ==
    ASSUME Talk!Assumptions, NEW o \in Nat, NEW last \in Nat
    PROVE  LET least == Talk!Min({o} \cup {n - 1 : n \in Span(last)})
           IN  /\ least \in 0..o
               /\ \A n \in least + 1 .. o : n <= last => n \in Span(last)
<1> DEFINE S == {o} \cup {n - 1 : n \in Span(last)}
           first == IF last > Recent THEN last - Recent ELSE 0
<1> USE DEF Talk!Assumptions
<1>1. S \in SUBSET Nat /\ o \in S
  BY DEF Span
<1>2. \A n \in Span(last) : first <= n - 1
  BY DEF Span
<1>3. last > 0 => first + 1 \in Span(last) /\ first \in Nat
  BY DEF Span
<1>4. last = 0 => Span(last) = {}
  BY DEF Span
<1>5. CASE last > 0 /\ first < o
  <2>1. first \in S
    <3>1. (first + 1) - 1 = first
      BY <1>3, <1>5
    <3> QED
      BY <1>3, <1>5, <3>1
  <2>2. \A n \in S : first <= n
    BY <1>2, <1>5
  <2>3. Talk!Min(S) = first
    BY <1>1, <2>1, <2>2, LeastOf
  <2>4. first \in 0..o
    BY <1>3, <1>5
  <2>5. \A n \in first + 1 .. o : n <= last => n \in Span(last)
    BY <1>3, <1>5 DEF Span
  <2> QED
    BY <2>3, <2>4, <2>5
<1>6. CASE ~(last > 0 /\ first < o)
  <2>1. \A n \in S : o <= n
    BY <1>2, <1>3, <1>4, <1>6 DEF Span
  <2>2. Talk!Min(S) = o
    BY <1>1, <2>1, LeastOf
  <2>3. o \in 0..o /\ \A n \in o + 1 .. o : FALSE
    OBVIOUS
  <2> HIDE DEF S
  <2>4. /\ Talk!Min(S) \in 0..o
        /\ \A n \in Talk!Min(S) + 1 .. o : n <= last => n \in Span(last)
    BY <2>2, <2>3
  <2> QED
    BY <2>4 DEF S
<1> QED
  BY <1>5, <1>6

(* Whoever is given the previous messages is in the room, and is owed no   *)
(* later message than those.                                               *)
GivenSpan(q) ==
    \E last \in Nat : /\ request[q].previous = Span(last)
                      /\ owed[request[q].user][request[q].chat] <= last
Rooms ==
    /\ \A u \in Talk!Users, c \in Chats : owed[u][c] <= Len(message[c])
    /\ \A q \in Requests : request[q].at \in {"joining", "read"} =>
           request[q].user \in room[request[q].chat]
    /\ \A q \in Requests : Talk!At(q, "read") => GivenSpan(q)
    /\ Talk!NothingMissed

\* Marking messages read leaves them messages, and as many.
LEMMA MarksOnly ==
    ASSUME NEW s \in Seq(Talk!Message), NEW u
    PROVE  Talk!MarkedRead(s, u) \in Seq(Talk!Message) /\ Len(Talk!MarkedRead(s, u)) = Len(s)
<1>1. \A n \in 1..Len(s) : Talk!MarkedRead(s, u)[n] \in Talk!Message
  <2> TAKE n \in 1..Len(s)
  <2>1. s[n] \in Talk!Message
    OBVIOUS
  <2>2. [s[n] EXCEPT !.isRead = TRUE] \in Talk!Message
    BY <2>1 DEF Talk!Message
  <2>3. Talk!MarkedRead(s, u)[n] = IF s[n].sender # u THEN [s[n] EXCEPT !.isRead = TRUE] ELSE s[n]
    <3>1. n \in DOMAIN s
      OBVIOUS
    <3> QED
      BY <3>1, Zenon DEF Talk!MarkedRead
  <2> QED
    BY <2>1, <2>2, <2>3
<1>2. Talk!MarkedRead(s, u) = [n \in 1..Len(s) |-> Talk!MarkedRead(s, u)[n]]
  BY DEF Talk!MarkedRead
<1> QED
  BY <1>1, <1>2

(* Every step keeps the types: a message has its number within the bound,  *)
(* and a user is owed what comes after a number within it.                 *)
LEMMA StepTalkTypes ==
    ASSUME Talk!Assumptions, TalkTypes, Rooms, [Talk!Next]_(Talk!vars)
    PROVE  TalkTypes'
<1> USE DEF TalkTypes
<1>1. CASE UNCHANGED Talk!vars
  BY <1>1 DEF Talk!vars, Talk!TypeOK
<1>2. ASSUME NEW q \in Requests, NEW ride \in Rides, NEW p \in Passengers,
             Talk!MakeChat(q, ride, p)
      PROVE  TalkTypes'
  <2>1. [at |-> "noChat", ride |-> ride, passenger |-> p] \in Talk!RequestState
    BY DEF Talk!RequestState
  <2>2. request' \in [Requests -> Talk!RequestState]
    BY <1>2, <2>1, TalkGoes DEF Talk!MakeChat, Talk!Opens
  <2> QED
    BY <1>2, <2>2 DEF Talk!MakeChat, Talk!sockets, Talk!TypeOK
<1>3. ASSUME NEW q \in Requests, NEW u \in Talk!Users, NEW c \in Chats, Talk!JoinRoom(q, u, c)
      PROVE  TalkTypes'
  <2>1. [at |-> "joining", user |-> u, chat |-> c] \in Talk!RequestState
    BY DEF Talk!RequestState
  <2>2. request' \in [Requests -> Talk!RequestState]
    BY <1>3, <2>1, TalkGoes DEF Talk!JoinRoom, Talk!Opens
  <2>3. Len(message[c]) \in 0..MaxMessages
    BY DEF Talk!TypeOK, Talk!Assumptions
  <2>4. room' \in [Chats -> SUBSET Talk!Users]
    BY <1>3 DEF Talk!JoinRoom, Talk!TypeOK
  <2>5. owed' \in [Talk!Users -> [Chats -> 0..MaxMessages]]
    BY <1>3, <2>3 DEF Talk!JoinRoom, Talk!TypeOK
  <2> QED
    BY <1>3, <2>2, <2>4, <2>5 DEF Talk!JoinRoom, Talk!TypeOK
<1>4. ASSUME NEW q \in Requests, NEW u \in Talk!Users, NEW c \in Chats,
             Talk!SendMessage(q, u, c)
      PROVE  TalkTypes'
  <2>1. [sender |-> u, isRead |-> FALSE] \in Talk!Message
    BY DEF Talk!Message
  <2>2. /\ message' \in [Chats -> Seq(Talk!Message)]
        /\ Len(message'[c]) = Len(message[c]) + 1
        /\ \A d \in Chats : d # c => message'[d] = message[d]
    BY <1>4, <2>1 DEF Talk!SendMessage
  <2>3. Len(message'[c]) \in 1..MaxMessages
    BY <1>4, <2>2 DEF Talk!SendMessage, Talk!Assumptions
  <2>4. [at |-> "created", user |-> u, chat |-> c, message |-> Len(message'[c])]
            \in Talk!RequestState
    BY <2>3 DEF Talk!RequestState
  <2>5. request' \in [Requests -> Talk!RequestState]
    BY <1>4, <2>4, TalkGoes DEF Talk!SendMessage, Talk!Opens
  <2> QED
    BY <1>4, <2>2, <2>3, <2>5 DEF Talk!SendMessage, Talk!sockets, Talk!TypeOK
<1>5. ASSUME NEW q \in Requests, Talk!JoinRead(q) PROVE TalkTypes'
  <2>1. request[q].user \in Talk!Users /\ request[q].chat \in Chats
    BY <1>5, TalkRemembers DEF Talk!JoinRead, Talk!At
  <2>2. Talk!Newest(message[request[q].chat]) \in SUBSET (1..MaxMessages)
    <3>1. Len(message[request[q].chat]) \in 0..MaxMessages
      BY <2>1 DEF Talk!TypeOK
    <3> QED
      BY <3>1 DEF Talk!Newest, Talk!Assumptions
  <2>3. [at |-> "read", user |-> request[q].user, chat |-> request[q].chat,
         previous |-> Talk!Newest(message[request[q].chat])] \in Talk!RequestState
    BY <2>1, <2>2 DEF Talk!RequestState
  <2>4. request' \in [Requests -> Talk!RequestState]
    BY <1>5, <2>3, TalkGoes DEF Talk!JoinRead
  <2> QED
    BY <1>5, <2>4 DEF Talk!JoinRead, Talk!sockets, Talk!TypeOK
<1>6. ASSUME NEW q \in Requests, Talk!JoinAnswer(q) PROVE TalkTypes'
  <2> DEFINE u == request[q].user
             c == request[q].chat
             previous == request[q].previous
             least == Talk!Min({owed[u][c]} \cup {n - 1 : n \in previous})
  <2>1. u \in Talk!Users /\ c \in Chats /\ previous \in SUBSET (1..MaxMessages)
    BY <1>6, TalkRemembers DEF Talk!JoinAnswer, Talk!At
  <2>2. owed[u][c] \in 0..MaxMessages
    BY <2>1 DEF Talk!TypeOK
  <2>3. least \in 0..MaxMessages
    <3>1. PICK last \in Nat : previous = Span(last)
      BY <1>6 DEF Talk!JoinAnswer, Rooms, GivenSpan
    <3>2. least \in 0..owed[u][c]
      BY <3>1, <2>2, LeastOwed
    <3> QED
      BY <2>2, <3>2 DEF Talk!Assumptions
  <2>4. request' \in [Requests -> Talk!RequestState]
    BY <1>6, TalkGoes DEF Talk!JoinAnswer, Talk!Closes, Talk!RequestState
  <2>5. owed' = [owed EXCEPT ![u][c] = least] /\ seen' = [seen EXCEPT ![u][c] = @ \cup previous]
    BY <1>6 DEF Talk!JoinAnswer
  <2> HIDE DEF least, u, c, previous
  <2>6. owed' \in [Talk!Users -> [Chats -> 0..MaxMessages]]
    BY <2>1, <2>3, <2>5 DEF Talk!TypeOK
  <2>7. seen' \in [Talk!Users -> [Chats -> SUBSET (1..MaxMessages)]]
    BY <2>1, <2>5 DEF Talk!TypeOK
  <2> QED
    BY <1>6, <2>4, <2>6, <2>7 DEF Talk!JoinAnswer, Talk!TypeOK
<1>7. ASSUME NEW q \in Requests, Talk!NewMessage(q) PROVE TalkTypes'
  <2>1. request[q].chat \in Chats /\ request[q].message \in 1..MaxMessages
    BY <1>7, TalkRemembers DEF Talk!NewMessage, Talk!At
  <2>2. request' \in [Requests -> Talk!RequestState]
    BY <1>7, TalkGoes DEF Talk!NewMessage, Talk!Closes, Talk!RequestState
  <2>3. seen' \in [Talk!Users -> [Chats -> SUBSET (1..MaxMessages)]]
    BY <1>7, <2>1 DEF Talk!NewMessage, Talk!TypeOK
  <2> QED
    BY <1>7, <2>2, <2>3 DEF Talk!NewMessage, Talk!TypeOK
<1>8. ASSUME NEW q \in Requests, Talk!Fail(q) PROVE TalkTypes'
  <2>1. request' \in [Requests -> Talk!RequestState]
    BY <1>8, TalkGoes DEF Talk!Fail, Talk!Closes, Talk!RequestState
  <2> QED
    BY <1>8, <2>1 DEF Talk!Fail, Talk!sockets, Talk!TypeOK
<1>9. ASSUME NEW q \in Requests, NEW c \in Chats, Talk!CreateChat(q, c) PROVE TalkTypes'
  <2>1. [ride |-> request[q].ride, sender |-> Driver, receiver |-> request[q].passenger]
            \in Talk!ChatRow
    BY <1>9, TalkRemembers DEF Talk!CreateChat, Talk!ChatRow, Talk!Users
  <2>2. request' \in [Requests -> Talk!RequestState]
    BY <1>9, TalkGoes DEF Talk!CreateChat, Talk!Closes, Talk!RequestState
  <2> QED
    BY <1>9, <2>1, <2>2 DEF Talk!CreateChat, Talk!sockets, Talk!TypeOK
<1>10. ASSUME NEW u \in Talk!Users, NEW c \in Chats, Talk!MarkAsRead(u, c) PROVE TalkTypes'
  <2>1. \A d \in Chats : message'[d] \in Seq(Talk!Message) /\ Len(message'[d]) = Len(message[d])
    <3>1. /\ message'[c] = Talk!MarkedRead(message[c], u)
          /\ \A d \in Chats : d # c => message'[d] = message[d]
      BY <1>10 DEF Talk!MarkAsRead
    <3> QED
      BY <3>1, MarksOnly
  <2>2. DOMAIN message' = Chats /\ message' = [d \in Chats |-> message'[d]]
    BY <1>10 DEF Talk!MarkAsRead
  <2> QED
    BY <1>10, <2>1, <2>2 DEF Talk!MarkAsRead, Talk!sockets, Talk!TypeOK
<1>11. ASSUME NEW u \in Talk!Users, Talk!Disconnect(u) PROVE TalkTypes'
  <2>1. request' \in [Requests -> Talk!RequestState]
    BY <1>11 DEF Talk!Disconnect, Talk!TypeOK, Talk!RequestState
  <2>2. owed' \in [Talk!Users -> [Chats -> 0..MaxMessages]]
    BY <1>11 DEF Talk!Disconnect, Talk!TypeOK, Talk!Assumptions
  <2> QED
    BY <1>11, <2>1, <2>2 DEF Talk!Disconnect, Talk!TypeOK
<1>12. CASE Talk!Restart
  <2>1. request' \in [Requests -> Talk!RequestState]
    BY <1>12 DEF Talk!Restart, Talk!RequestState
  <2> QED
    BY <1>12, <2>1 DEF Talk!Restart, Talk!Nothing, Talk!TypeOK, Talk!Assumptions
<1> QED
  BY <1>1, <1>2, <1>3, <1>4, <1>5, <1>6, <1>7, <1>8, <1>9, <1>10, <1>11, <1>12 DEF Talk!Next
\* What is on its way stays so when another handler moves.
LEMMA StaysOnItsWay ==
    ASSUME NEW q \in Requests, ~Talk!At(q, "created"),
           \A r \in Requests : r # q => request'[r] = request[r]
    PROVE  \A c, n : Talk!OnItsWay(c, n) => Talk!OnItsWay(c, n)'
BY DEF Talk!OnItsWay, Talk!At

\* A handler that is done with the rooms, or goes on elsewhere, leaves them.
LEMMA MovesElsewhere ==
    ASSUME Rooms, NEW q \in Requests, ~Talk!At(q, "created"),
           request'[q].at \notin {"joining", "read"},
           \A r \in Requests : r # q => request'[r] = request[r],
           UNCHANGED <<message, room, seen, owed>>
    PROVE  Rooms'
<1>1. \A c, n : Talk!OnItsWay(c, n) => Talk!OnItsWay(c, n)'
  BY StaysOnItsWay
<1>2. Talk!NothingMissed'
  BY <1>1 DEF Rooms, Talk!NothingMissed
<1> QED
  BY <1>2 DEF Rooms, GivenSpan, Talk!At

(* Every step keeps the rooms in order.  A socket that joins is owed what  *)
(* comes after; a message is on its way when it is made, and every socket  *)
(* of the room has it when it no longer is.                                *)
LEMMA StepRooms ==
    ASSUME Talk!Assumptions, TalkTypes, Rooms, [Talk!Next]_(Talk!vars), TalkTypes'
    PROVE  Rooms'
<1> USE DEF TalkTypes
<1>0. /\ \A d \in Chats : Len(message[d]) \in Nat
      /\ \A v \in Talk!Users, d \in Chats : owed[v][d] \in Nat
  BY DEF Talk!TypeOK
<1>1. CASE UNCHANGED Talk!vars
  BY <1>1 DEF Talk!vars, Rooms, GivenSpan, Talk!NothingMissed, Talk!OnItsWay, Talk!At
<1>2. ASSUME NEW q \in Requests, NEW ride \in Rides, NEW p \in Passengers,
             Talk!MakeChat(q, ride, p)
      PROVE  Rooms'
  <2>1. /\ ~Talk!At(q, "created")
        /\ request'[q].at \notin {"joining", "read"}
        /\ \A r \in Requests : r # q => request'[r] = request[r]
    BY <1>2 DEF Talk!MakeChat, Talk!Opens, Talk!Goes, Talk!At, Talk!Idle, Talk!TypeOK
  <2> QED
    BY <1>2, <2>1, MovesElsewhere DEF Talk!MakeChat, Talk!sockets
<1>3. ASSUME NEW q \in Requests, Talk!Fail(q) PROVE Rooms'
  <2>1. /\ ~Talk!At(q, "created")
        /\ request'[q].at \notin {"joining", "read"}
        /\ \A r \in Requests : r # q => request'[r] = request[r]
    BY <1>3 DEF Talk!Fail, Talk!Closes, Talk!Goes, Talk!At, Talk!Idle, Talk!TypeOK
  <2> QED
    BY <1>3, <2>1, MovesElsewhere DEF Talk!Fail, Talk!sockets
<1>4. ASSUME NEW q \in Requests, NEW c \in Chats, Talk!CreateChat(q, c) PROVE Rooms'
  <2>1. /\ ~Talk!At(q, "created")
        /\ request'[q].at \notin {"joining", "read"}
        /\ \A r \in Requests : r # q => request'[r] = request[r]
    BY <1>4 DEF Talk!CreateChat, Talk!Closes, Talk!Goes, Talk!At, Talk!Idle, Talk!TypeOK
  <2> QED
    BY <1>4, <2>1, MovesElsewhere DEF Talk!CreateChat, Talk!sockets
<1>5. ASSUME NEW q \in Requests, NEW u \in Talk!Users, NEW c \in Chats, Talk!JoinRoom(q, u, c)
      PROVE  Rooms'
  <2>1. /\ request'[q] = [at |-> "joining", user |-> u, chat |-> c]
        /\ ~Talk!At(q, "created")
        /\ \A r \in Requests : r # q => request'[r] = request[r]
    BY <1>5 DEF Talk!JoinRoom, Talk!Opens, Talk!Goes, Talk!At, Talk!Idle, Talk!TypeOK
  <2>2. \A v \in Talk!Users, d \in Chats :
          owed'[v][d] = IF v = u /\ d = c /\ u \notin room[c] THEN Len(message[c])
                        ELSE owed[v][d]
    BY <1>5 DEF Talk!JoinRoom, Talk!TypeOK
  <2>3. /\ \A d \in Chats : room'[d] = IF d = c THEN room[c] \cup {u} ELSE room[d]
        /\ UNCHANGED <<message, seen>>
    BY <1>5 DEF Talk!JoinRoom, Talk!TypeOK
  <2>4. \A v \in Talk!Users, d \in Chats : owed'[v][d] <= Len(message'[d])
    BY <1>0, <2>2, <2>3 DEF Rooms
  <2>5. \A r \in Requests : request'[r].at \in {"joining", "read"} =>
          request'[r].user \in room'[request'[r].chat]
    <3> TAKE r \in Requests
    <3>1. request[r].at \in {"joining", "read"} => request[r].chat \in Chats
      BY TalkRemembers
    <3> QED
      BY <2>1, <2>3, <3>1 DEF Rooms
  <2>6. \A r \in Requests : Talk!At(r, "read")' => GivenSpan(r)'
    <3> SUFFICES ASSUME NEW r \in Requests, Talk!At(r, "read")' PROVE GivenSpan(r)'
      OBVIOUS
    <3>1. r # q /\ request'[r] = request[r] /\ Talk!At(r, "read")
      BY <2>1 DEF Talk!At
    <3>2. /\ request[r].user \in Talk!Users /\ request[r].chat \in Chats
          /\ request[r].user \in room[request[r].chat]
      BY <3>1, TalkRemembers DEF Talk!At, Rooms
    <3>3. owed'[request[r].user][request[r].chat] = owed[request[r].user][request[r].chat]
      BY <3>2, <2>2
    <3> QED
      BY <3>1, <3>3 DEF Rooms, GivenSpan
  <2>7. Talk!NothingMissed'
    <3> SUFFICES ASSUME NEW d \in Chats, NEW v \in room'[d],
                        NEW n \in owed'[v][d] + 1 .. Len(message'[d])
                 PROVE  n \in seen'[v][d] \/ Talk!OnItsWay(d, n)'
      BY DEF Talk!NothingMissed
    <3>1. v \in Talk!Users
      BY DEF Talk!TypeOK
    <3>2. CASE v = u /\ d = c /\ u \notin room[c]
      BY <3>2, <2>2, <2>3 DEF Talk!TypeOK
    <3>3. CASE ~(v = u /\ d = c /\ u \notin room[c])
      <4>1. v \in room[d] /\ owed'[v][d] = owed[v][d]
        BY <3>1, <3>3, <2>2, <2>3
      <4>2. n \in seen[v][d] \/ Talk!OnItsWay(d, n)
        BY <4>1, <2>3 DEF Rooms, Talk!NothingMissed
      <4> QED
        BY <4>2, <2>1, <2>3, StaysOnItsWay
    <3> QED
      BY <3>2, <3>3
  <2> QED
    BY <2>4, <2>5, <2>6, <2>7 DEF Rooms
<1>6. ASSUME NEW q \in Requests, NEW u \in Talk!Users, NEW c \in Chats,
             Talk!SendMessage(q, u, c)
      PROVE  Rooms'
  <2>1. /\ request'[q] = [at |-> "created", user |-> u, chat |-> c, message |-> Len(message'[c])]
        /\ ~Talk!At(q, "created")
        /\ \A r \in Requests : r # q => request'[r] = request[r]
    BY <1>6 DEF Talk!SendMessage, Talk!Opens, Talk!Goes, Talk!At, Talk!Idle, Talk!TypeOK
  <2>2. /\ room' = room /\ seen' = seen /\ owed' = owed
        /\ Len(message'[c]) = Len(message[c]) + 1
        /\ \A d \in Chats : d # c => message'[d] = message[d]
    BY <1>6 DEF Talk!SendMessage, Talk!sockets
  <2> DEFINE sent == [at |-> "created", user |-> u, chat |-> c, message |-> Len(message'[c])]
  <2>3. sent.at = "created" /\ sent.chat = c /\ sent.message = Len(message'[c])
    OBVIOUS
  <2>4. request'[q] = sent
    BY <2>1
  <2> HIDE DEF sent
  <2>5. \A v \in Talk!Users, d \in Chats : owed'[v][d] <= Len(message'[d])
    <3> TAKE v \in Talk!Users, d \in Chats
    <3>1. owed[v][d] <= Len(message[d])
      BY DEF Rooms
    <3>2. Len(message'[d]) = Len(message[d]) \/ Len(message'[d]) = Len(message[d]) + 1
      BY <2>2
    <3> QED
      BY <3>1, <3>2, <2>2, <1>0
  <2>6. \A r \in Requests : request'[r].at \in {"joining", "read"} => request'[r] = request[r]
    BY <2>1, <2>3, <2>4
  <2>7. \A r \in Requests :
          /\ request'[r].at \in {"joining", "read"} => request'[r].user \in room'[request'[r].chat]
          /\ Talk!At(r, "read")' => GivenSpan(r)'
    BY <2>2, <2>6 DEF Rooms, Talk!At, GivenSpan
  <2>8. Talk!NothingMissed'
    <3> SUFFICES ASSUME NEW d \in Chats, NEW v \in room'[d],
                        NEW n \in owed'[v][d] + 1 .. Len(message'[d])
                 PROVE  n \in seen'[v][d] \/ Talk!OnItsWay(d, n)'
      BY DEF Talk!NothingMissed
    <3>1. v \in Talk!Users /\ owed[v][d] \in Nat /\ Len(message[d]) \in Nat
      BY DEF Talk!TypeOK
    <3>2. CASE d = c /\ n = Len(message'[c])
      BY <3>2, <2>3, <2>4 DEF Talk!OnItsWay, Talk!At
    <3>3. CASE ~(d = c /\ n = Len(message'[c]))
      <4>1. v \in room[d] /\ n \in owed[v][d] + 1 .. Len(message[d])
        BY <3>1, <3>3, <2>2
      <4>2. n \in seen[v][d] \/ Talk!OnItsWay(d, n)
        BY <4>1 DEF Rooms, Talk!NothingMissed
      <4> QED
        BY <4>2, <2>1, <2>2, StaysOnItsWay
    <3> QED
      BY <3>2, <3>3
  <2> QED
    BY <2>8, <2>5, <2>7 DEF Rooms
<1>7. ASSUME NEW q \in Requests, Talk!JoinRead(q) PROVE Rooms'
  <2> DEFINE last == Len(message[request[q].chat])
  <2>1. /\ request[q].user \in Talk!Users /\ request[q].chat \in Chats
        /\ request[q].user \in room[request[q].chat]
    BY <1>7, TalkRemembers DEF Talk!JoinRead, Talk!At, Rooms
  <2>2. last \in Nat /\ owed[request[q].user][request[q].chat] <= last
    BY <2>1 DEF Talk!TypeOK, Rooms
  <2>3. Talk!Newest(message[request[q].chat]) = Span(last)
    BY DEF Talk!Newest, Span
  <2>4. /\ request'[q] = [at |-> "read", user |-> request[q].user, chat |-> request[q].chat,
                          previous |-> Span(last)]
        /\ ~Talk!At(q, "created")
        /\ \A r \in Requests : r # q => request'[r] = request[r]
        /\ UNCHANGED <<message, room, seen, owed>>
    BY <1>7, <2>3 DEF Talk!JoinRead, Talk!Goes, Talk!At, Talk!TypeOK, Talk!sockets
  <2> HIDE DEF last
  <2>5. GivenSpan(q)'
    BY <2>2, <2>4 DEF GivenSpan
  <2>6. \A r \in Requests :
          /\ request'[r].at \in {"joining", "read"} => request'[r].user \in room'[request'[r].chat]
          /\ Talk!At(r, "read")' => GivenSpan(r)'
    BY <2>1, <2>4, <2>5 DEF Rooms, Talk!At, GivenSpan
  <2>7. Talk!NothingMissed'
    BY <2>4, StaysOnItsWay DEF Rooms, Talk!NothingMissed
  <2> QED
    BY <2>4, <2>6, <2>7 DEF Rooms
<1>8. ASSUME NEW q \in Requests, Talk!JoinAnswer(q) PROVE Rooms'
  <2>1. PICK last \in Nat : /\ request[q].previous = Span(last)
                            /\ owed[request[q].user][request[q].chat] <= last
    BY <1>8 DEF Talk!JoinAnswer, Rooms, GivenSpan
  <2>2. PICK u \in Talk!Users, c \in Chats : u = request[q].user /\ c = request[q].chat
    BY <1>8, TalkRemembers DEF Talk!JoinAnswer, Talk!At
  <2>3. owed[u][c] \in Nat
    BY DEF Talk!TypeOK
  <2>4. PICK least \in 0..owed[u][c] :
          /\ owed' = [owed EXCEPT ![u][c] = least]
          /\ \A n \in least + 1 .. owed[u][c] : n <= last => n \in Span(last)
    BY <1>8, <2>1, <2>2, <2>3, LeastOwed DEF Talk!JoinAnswer
  <2>5. /\ ~Talk!At(q, "created")
        /\ request'[q] = Talk!Idle
        /\ \A r \in Requests : r # q => request'[r] = request[r]
        /\ UNCHANGED <<message, room>>
        /\ seen' = [seen EXCEPT ![u][c] = @ \cup Span(last)]
    BY <1>8, <2>1, <2>2 DEF Talk!JoinAnswer, Talk!Closes, Talk!Goes, Talk!At, Talk!TypeOK
  <2>6. \A v \in Talk!Users, d \in Chats :
          /\ owed'[v][d] = IF v = u /\ d = c THEN least ELSE owed[v][d]
          /\ seen'[v][d] = IF v = u /\ d = c THEN seen[v][d] \cup Span(last) ELSE seen[v][d]
    BY <2>4, <2>5 DEF Talk!TypeOK
  <2>7. \A v \in Talk!Users, d \in Chats :
          /\ owed[v][d] \in Nat /\ owed'[v][d] \in Nat /\ Len(message[d]) \in Nat
          /\ owed'[v][d] <= owed[v][d]
    BY <2>3, <2>4, <2>6 DEF Talk!TypeOK
  <2>8. \A v \in Talk!Users, d \in Chats : owed'[v][d] <= Len(message'[d])
    BY <2>5, <2>7 DEF Rooms
  <2>9. \A r \in Requests :
          request'[r].at \in {"joining", "read"} => request'[r].user \in room'[request'[r].chat]
    BY <2>5 DEF Rooms, Talk!Idle
  <2>10. \A r \in Requests : Talk!At(r, "read")' => GivenSpan(r)'
    <3> SUFFICES ASSUME NEW r \in Requests, Talk!At(r, "read")' PROVE GivenSpan(r)'
      OBVIOUS
    <3>1. r # q /\ request'[r] = request[r] /\ Talk!At(r, "read")
      BY <2>5 DEF Talk!At, Talk!Idle
    <3>2. request[r].user \in Talk!Users /\ request[r].chat \in Chats
      BY <3>1, TalkRemembers DEF Talk!At
    <3>3. PICK l \in Nat : /\ request[r].previous = Span(l)
                           /\ owed[request[r].user][request[r].chat] <= l
      BY <3>1 DEF Rooms, GivenSpan
    <3>4. owed'[request[r].user][request[r].chat] <= l
      BY <3>2, <3>3, <2>7
    <3> QED
      BY <3>1, <3>3, <3>4 DEF GivenSpan
  <2>11. Talk!NothingMissed'
    <3> SUFFICES ASSUME NEW d \in Chats, NEW v \in room'[d],
                        NEW n \in owed'[v][d] + 1 .. Len(message'[d])
                 PROVE  n \in seen'[v][d] \/ Talk!OnItsWay(d, n)'
      BY DEF Talk!NothingMissed
    <3>1. v \in Talk!Users /\ v \in room[d] /\ Len(message'[d]) = Len(message[d])
      BY <2>5 DEF Talk!TypeOK
    <3>2. CASE n \in owed[v][d] + 1 .. Len(message[d])
      <4>1. n \in seen[v][d] \/ Talk!OnItsWay(d, n)
        BY <3>1, <3>2 DEF Rooms, Talk!NothingMissed
      <4> QED
        BY <3>1, <4>1, <2>5, <2>6, StaysOnItsWay
    <3>3. CASE n \notin owed[v][d] + 1 .. Len(message[d])
      <4>1. n \in owed'[v][d] + 1 .. owed[v][d]
        BY <3>1, <3>3, <2>7
      <4>2. owed'[v][d] # owed[v][d]
        BY <3>1, <4>1, <2>7
      <4>3. v = u /\ d = c /\ owed'[v][d] = least
        BY <3>1, <4>2, <2>6
      <4>4. v = u /\ d = c /\ n \in least + 1 .. owed[u][c]
        BY <4>1, <4>3
      <4>5. n <= last
        BY <4>4, <2>1, <2>2, <2>3, <2>4
      <4> QED
        BY <4>4, <4>5, <2>4, <2>6
    <3> QED
      BY <3>2, <3>3
  <2> QED
    BY <2>8, <2>9, <2>10, <2>11 DEF Rooms
<1>9. ASSUME NEW q \in Requests, Talk!NewMessage(q) PROVE Rooms'
  <2>1. PICK c \in Chats, m \in 1..MaxMessages : c = request[q].chat /\ m = request[q].message
    BY <1>9, TalkRemembers DEF Talk!NewMessage, Talk!At
  <2>2. /\ request'[q] = Talk!Idle
        /\ \A r \in Requests : r # q => request'[r] = request[r]
        /\ UNCHANGED <<message, room, owed>>
    BY <1>9 DEF Talk!NewMessage, Talk!Closes, Talk!Goes, Talk!TypeOK
  <2>3. \A v \in Talk!Users, d \in Chats :
          seen'[v][d] = IF d = c /\ v \in room[c] THEN seen[v][d] \cup {m} ELSE seen[v][d]
    BY <1>9, <2>1 DEF Talk!NewMessage, Talk!Receivers, Talk!TypeOK
  <2>4. \A d \in Chats : \A n : Talk!OnItsWay(d, n) => (d = c /\ n = m) \/ Talk!OnItsWay(d, n)'
    BY <2>1, <2>2 DEF Talk!OnItsWay, Talk!At
  <2>5. Talk!NothingMissed'
    <3> SUFFICES ASSUME NEW d \in Chats, NEW v \in room'[d],
                        NEW n \in owed'[v][d] + 1 .. Len(message'[d])
                 PROVE  n \in seen'[v][d] \/ Talk!OnItsWay(d, n)'
      BY DEF Talk!NothingMissed
    <3>1. v \in Talk!Users /\ v \in room[d]
      BY <2>2 DEF Talk!TypeOK
    <3>2. n \in seen[v][d] \/ Talk!OnItsWay(d, n)
      BY <3>1, <2>2 DEF Rooms, Talk!NothingMissed
    <3> QED
      BY <3>1, <3>2, <2>3, <2>4
  <2>6. \A r \in Requests :
          /\ request'[r].at \in {"joining", "read"} => request'[r].user \in room'[request'[r].chat]
          /\ Talk!At(r, "read")' => GivenSpan(r)'
    BY <2>2 DEF Rooms, Talk!At, GivenSpan, Talk!Idle
  <2> QED
    BY <2>2, <2>5, <2>6 DEF Rooms
<1>10. ASSUME NEW u \in Talk!Users, NEW c \in Chats, Talk!MarkAsRead(u, c) PROVE Rooms'
  <2>1. \A d \in Chats : Len(message'[d]) = Len(message[d])
    <3>1. /\ message'[c] = Talk!MarkedRead(message[c], u)
          /\ \A d \in Chats : d # c => message'[d] = message[d]
      BY <1>10 DEF Talk!MarkAsRead
    <3> QED
      BY <3>1, MarksOnly
  <2>2. UNCHANGED <<room, seen, owed, request>>
    BY <1>10 DEF Talk!MarkAsRead, Talk!sockets
  <2>3. Talk!NothingMissed'
    BY <2>1, <2>2 DEF Rooms, Talk!NothingMissed, Talk!OnItsWay, Talk!At
  <2> QED
    BY <2>1, <2>2, <2>3 DEF Rooms, GivenSpan, Talk!At
<1>11. ASSUME NEW u \in Talk!Users, Talk!Disconnect(u) PROVE Rooms'
  <2>1. /\ UNCHANGED message
        /\ \A d \in Chats : room'[d] = room[d] \ {u}
        /\ \A v \in Talk!Users, d \in Chats :
               /\ owed'[v][d] = IF v = u THEN 0 ELSE owed[v][d]
               /\ v # u => seen'[v][d] = seen[v][d]
    BY <1>11 DEF Talk!Disconnect, Talk!TypeOK
  <2>2. \A r \in Requests :
          IF request[r].at \in {"joining", "read"} /\ request[r].user = u
          THEN request'[r] = Talk!Idle ELSE request'[r] = request[r]
    BY <1>11 DEF Talk!Disconnect
  <2>3. \A c, n : Talk!OnItsWay(c, n) => Talk!OnItsWay(c, n)'
    BY <2>2 DEF Talk!OnItsWay, Talk!At
  <2>4. \A v \in Talk!Users, d \in Chats : owed'[v][d] <= Len(message'[d])
    BY <1>0, <2>1 DEF Rooms
  <2>5. \A r \in Requests : request'[r].at \in {"joining", "read"} =>
          /\ request'[r] = request[r]
          /\ request[r].user \in Talk!Users \ {u} /\ request[r].chat \in Chats
    BY <2>2, TalkRemembers DEF Talk!Idle
  <2>6. \A r \in Requests :
          /\ request'[r].at \in {"joining", "read"} => request'[r].user \in room'[request'[r].chat]
          /\ Talk!At(r, "read")' => GivenSpan(r)'
    BY <2>1, <2>5 DEF Rooms, Talk!At, GivenSpan
  <2>7. Talk!NothingMissed'
    <3> SUFFICES ASSUME NEW d \in Chats, NEW v \in room'[d],
                        NEW n \in owed'[v][d] + 1 .. Len(message'[d])
                 PROVE  n \in seen'[v][d] \/ Talk!OnItsWay(d, n)'
      BY DEF Talk!NothingMissed
    <3>1. v \in Talk!Users /\ v # u /\ v \in room[d]
      BY <2>1 DEF Talk!TypeOK
    <3>2. n \in seen[v][d] \/ Talk!OnItsWay(d, n)
      BY <3>1, <2>1 DEF Rooms, Talk!NothingMissed
    <3> QED
      BY <3>1, <3>2, <2>1, <2>3
  <2> QED
    BY <2>4, <2>6, <2>7 DEF Rooms
<1>12. CASE Talk!Restart
  <2>1. /\ UNCHANGED message
        /\ \A d \in Chats : room'[d] = {}
        /\ \A v \in Talk!Users, d \in Chats : owed'[v][d] = 0
        /\ \A r \in Requests : request'[r] = Talk!Idle
    BY <1>12 DEF Talk!Restart, Talk!Nothing
  <2> QED
    BY <2>1 DEF Rooms, Talk!NothingMissed, Talk!At, Talk!Idle, Talk!TypeOK
<1> QED
  BY <1>1, <1>2, <1>3, <1>4, <1>5, <1>6, <1>7, <1>8, <1>9, <1>10, <1>11, <1>12 DEF Talk!Next

LEMMA InitRooms ==
    ASSUME Talk!Assumptions, Talk!Init
    PROVE  TalkTypes /\ Rooms
<1>1. \A c \in Chats : Len(message[c]) = 0
  BY DEF Talk!Init
<1>2. TalkTypes
  BY <1>1 DEF Talk!Init, Talk!Assumptions, Talk!Nothing, TalkTypes, Talk!TypeOK, Talk!RequestState
<1> QED
  BY <1>1, <1>2 DEF Talk!Init, Talk!Nothing, Rooms, Talk!NothingMissed, Talk!At, Talk!Idle

(* The chat's rows, messages, rooms and handlers keep their types, for any *)
(* rides, users and sockets: a message gets a number of its own.           *)
THEOREM TalkTypeCorrect ==
    ASSUME Talk!Assumptions
    PROVE  Talk!Spec => []Talk!TypeOK
<1>1. Talk!Init => TalkTypes /\ Rooms
  BY InitRooms
<1>2. TalkTypes /\ Rooms /\ [Talk!Next]_(Talk!vars) => (TalkTypes /\ Rooms)'
  BY StepTalkTypes, StepRooms
<1>3. TalkTypes => Talk!TypeOK
  BY DEF TalkTypes
<1> QED
  BY <1>1, <1>2, <1>3, PTL DEF Talk!Spec

(* joinRoom, sendMessage, disconnects and restarts in any order, at the    *)
(* same time: a socket in a room has been sent, or is about to be, every   *)
(* message made since it joined or after the first it was given, for any   *)
(* rooms, sockets and length of the history.                               *)
THEOREM SocketsMissNothing ==
    ASSUME Talk!Assumptions
    PROVE  Talk!Spec => []Talk!NothingMissed
<1>1. Talk!Init => TalkTypes /\ Rooms
  BY InitRooms
<1>2. TalkTypes /\ Rooms /\ [Talk!Next]_(Talk!vars) => (TalkTypes /\ Rooms)'
  BY StepTalkTypes, StepRooms
<1>3. Rooms => Talk!NothingMissed
  BY DEF Rooms
<1> QED
  BY <1>1, <1>2, <1>3, PTL DEF Talk!Spec
(* A chat of a ride and a passenger is looked for before it is made: the   *)
(* one open handler still finds none (NoChatYet).                          *)
OneTalks == \A q, r \in Requests : request[q] # Talk!Idle /\ request[r] # Talk!Idle => q = r
NoChatYet == \A q \in Requests : Talk!At(q, "noChat") =>
    ~ \E c \in Chats : Talk!IsChatOf(c, request[q].ride, request[q].passenger)
ChatInv == TalkTypes /\ Rooms /\ OneTalks /\ NoChatYet /\ Talk!OneChat

\* Handlers that leave the chats alone make no second one.
LEMMA GoesAmongChats ==
    ASSUME OneTalks, NoChatYet, Talk!OneChat, UNCHANGED chat,
           NEW q \in Requests, request[q] # Talk!Idle \/ \A r \in Requests : request[r] = Talk!Idle,
           ~Talk!At(q, "noChat")',
           \A r \in Requests : r # q => request'[r] = request[r]
    PROVE  OneTalks' /\ NoChatYet' /\ Talk!OneChat'
<1>1. \A r \in Requests : r # q => request'[r] = Talk!Idle
  BY DEF OneTalks
<1>2. OneTalks'
  BY <1>1 DEF OneTalks
<1>3. NoChatYet'
  BY <1>1 DEF NoChatYet, Talk!At, Talk!Idle
<1> QED
  BY <1>2, <1>3 DEF Talk!OneChat

LEMMA StepChats ==
    ASSUME Talk!Assumptions, Serial, ChatInv, [Talk!Next]_(Talk!vars)
    PROVE  OneTalks' /\ NoChatYet' /\ Talk!OneChat'
<1> USE DEF ChatInv
<1>0. Talk!TypeOK
  BY DEF TalkTypes
<1>1. CASE UNCHANGED Talk!vars
  BY <1>1 DEF Talk!vars, OneTalks, NoChatYet, Talk!OneChat, Talk!At, Talk!IsChatOf
<1>2. ASSUME NEW q \in Requests, NEW ride \in Rides, NEW p \in Passengers,
             Talk!MakeChat(q, ride, p)
      PROVE  OneTalks' /\ NoChatYet' /\ Talk!OneChat'
  <2>1. /\ \A r \in Requests : r # q => request'[r] = Talk!Idle
        /\ request'[q].ride = ride /\ request'[q].passenger = p
        /\ UNCHANGED chat
        /\ ~ \E c \in Chats : Talk!IsChatOf(c, ride, p)
    BY <1>0, <1>2 DEF Talk!MakeChat, Talk!Opens, Talk!Goes, Talk!TypeOK
  <2>2. NoChatYet'
    BY <2>1 DEF NoChatYet, Talk!At, Talk!Idle, Talk!IsChatOf
  <2> QED
    BY <2>1, <2>2 DEF OneTalks, Talk!OneChat
<1>3. ASSUME NEW q \in Requests, NEW c \in Chats, Talk!CreateChat(q, c)
      PROVE  OneTalks' /\ NoChatYet' /\ Talk!OneChat'
  <2> DEFINE ride == request[q].ride
             p == request[q].passenger
             row == [ride |-> ride, sender |-> Driver, receiver |-> p]
  <2>1. \A r \in Requests : request'[r] = Talk!Idle
    <3>1. request[q] # Talk!Idle
      BY <1>3 DEF Talk!CreateChat, Talk!At, Talk!Idle
    <3>2. \A r \in Requests : r # q => request[r] = Talk!Idle
      BY <3>1 DEF OneTalks
    <3> QED
      BY <1>0, <1>3, <3>2 DEF Talk!CreateChat, Talk!Closes, Talk!Goes, Talk!TypeOK
  <2>2. \A d \in Chats : ~Talk!IsChatOf(d, ride, p)
    BY <1>3 DEF Talk!CreateChat, NoChatYet
  <2>3. chat'[c] = row /\ \A d \in Chats : d # c => chat'[d] = chat[d]
    BY <1>0, <1>3 DEF Talk!CreateChat, Talk!TypeOK
  <2>4. \A d \in Chats : chat[d] # None => chat[d] # row
    BY <2>2 DEF Talk!IsChatOf
  <2>5. Talk!OneChat'
    BY <2>3, <2>4 DEF Talk!OneChat
  <2> QED
    BY <2>1, <2>5 DEF OneTalks, NoChatYet, Talk!At, Talk!Idle
<1>4. ASSUME NEW q \in Requests, NEW u \in Talk!Users, NEW c \in Chats,
             Talk!JoinRoom(q, u, c) \/ Talk!SendMessage(q, u, c)
      PROVE  OneTalks' /\ NoChatYet' /\ Talk!OneChat'
  <2>1. /\ \A r \in Requests : request[r] = Talk!Idle
        /\ ~Talk!At(q, "noChat")'
        /\ \A r \in Requests : r # q => request'[r] = request[r]
        /\ UNCHANGED chat
    BY <1>0, <1>4
       DEF Talk!JoinRoom, Talk!SendMessage, Talk!Opens, Talk!Goes, Talk!At, Talk!TypeOK
  <2> QED
    BY <2>1, GoesAmongChats
<1>5. ASSUME NEW q \in Requests,
             Talk!JoinRead(q) \/ Talk!JoinAnswer(q) \/ Talk!NewMessage(q) \/ Talk!Fail(q)
      PROVE  OneTalks' /\ NoChatYet' /\ Talk!OneChat'
  <2>1. /\ request[q] # Talk!Idle
        /\ ~Talk!At(q, "noChat")'
        /\ \A r \in Requests : r # q => request'[r] = request[r]
        /\ UNCHANGED chat
    BY <1>0, <1>5
       DEF Talk!JoinRead, Talk!JoinAnswer, Talk!NewMessage, Talk!Fail, Talk!Closes, Talk!Goes,
           Talk!At, Talk!Idle, Talk!TypeOK
  <2> QED
    BY <2>1, GoesAmongChats
<1>6. ASSUME NEW u \in Talk!Users, NEW c \in Chats, Talk!MarkAsRead(u, c)
      PROVE  OneTalks' /\ NoChatYet' /\ Talk!OneChat'
  BY <1>6 DEF Talk!MarkAsRead, Talk!sockets, OneTalks, NoChatYet, Talk!OneChat, Talk!At,
              Talk!IsChatOf
<1>7. CASE Talk!Restart \/ \E u \in Talk!Users : Talk!Disconnect(u)
  <2>1. /\ \A r \in Requests : request'[r] \in {request[r], Talk!Idle}
        /\ UNCHANGED chat
    BY <1>7 DEF Talk!Restart, Talk!Disconnect
  <2> QED
    BY <2>1 DEF OneTalks, NoChatYet, Talk!OneChat, Talk!At, Talk!IsChatOf, Talk!Idle
<1> QED
  BY <1>1, <1>2, <1>3, <1>4, <1>5, <1>6, <1>7 DEF Talk!Next

(* createChat finds, then creates, and nothing in the database refuses a   *)
(* second chat: one request at a time, a ride and a passenger have one     *)
(* chat, for any rides and passengers, with failures and restarts.         *)
THEOREM ChatsAreUnique ==
    ASSUME Talk!Assumptions, Serial
    PROVE  Talk!Spec => []Talk!OneChat
<1>1. Talk!Init => ChatInv
  <2>1. Talk!Init => OneTalks /\ NoChatYet /\ Talk!OneChat
    BY DEF Talk!Init, OneTalks, NoChatYet, Talk!OneChat, Talk!At, Talk!Idle
  <2> QED
    BY <2>1, InitRooms DEF ChatInv
<1>2. ChatInv /\ [Talk!Next]_(Talk!vars) => ChatInv'
  BY StepTalkTypes, StepRooms, StepChats DEF ChatInv
<1>3. ChatInv => Talk!OneChat
  BY DEF ChatInv
<1> QED
  BY <1>1, <1>2, <1>3, PTL DEF Talk!Spec

------------------------------------------------------------------------------
(* Rating.  The one open request has found no review (ReviewInv).          *)

\* No two requests are open, and the open one has found no review.
OneRates == \A q, r \in Requests : request[q] # Rate!Idle /\ request[r] # Rate!Idle => q = r
NoReviewYet == \A q \in Requests, u \in Users : request[q] = {u} => reviews[u] = 0
ReviewInv == Rate!TypeOK /\ OneRates /\ NoReviewYet /\ Rate!OneReview

\* Each step keeps the invariant when handlers do not overlap.
LEMMA StepReviews ==
    ASSUME Rate!Assumptions, Serial, ReviewInv, [Rate!Next]_(Rate!vars)
    PROVE  ReviewInv'
<1> USE DEF Rate!Assumptions, ReviewInv, Rate!TypeOK, Rate!Idle
<1>1. CASE UNCHANGED Rate!vars
  BY <1>1 DEF Rate!vars, OneRates, NoReviewYet, Rate!OneReview
<1>2. CASE Rate!RideMoves
  BY <1>2 DEF Rate!RideMoves, Rate!Moved, OneRates, NoReviewYet, Rate!OneReview
<1>3. ASSUME NEW u \in Users, Rate!Books(u) PROVE ReviewInv'
  BY <1>3 DEF Rate!Books, OneRates, NoReviewYet, Rate!OneReview
<1>4. ASSUME NEW u \in Users, NEW q \in Requests, Rate!RateRead(q, u) PROVE ReviewInv'
  <2>1. reviews[u] = 0 /\ \A r \in Requests : request[r] = Rate!Idle
    BY <1>4 DEF Rate!RateRead, Rate!MayRate
  <2>2. \A r \in Requests : request'[r] = IF r = q THEN {u} ELSE Rate!Idle
    BY <1>4, <2>1 DEF Rate!RateRead
  <2> QED
    BY <1>4, <2>1, <2>2 DEF Rate!RateRead, OneRates, NoReviewYet, Rate!OneReview
<1>5. ASSUME NEW u \in Users, NEW q \in Requests, Rate!RateCreate(q, u) PROVE ReviewInv'
  <2>1. reviews[u] = 0
    BY <1>5 DEF Rate!RateCreate, NoReviewYet
  <2>2. \A v \in Users : reviews'[v] = IF v = u THEN 1 ELSE reviews[v]
    BY <1>5, <2>1 DEF Rate!RateCreate
  <2>3. \A r \in Requests : r # q => request[r] = Rate!Idle
    BY <1>5 DEF Rate!RateCreate, OneRates
  <2>4. \A r \in Requests : request'[r] = Rate!Idle
    BY <1>5, <2>3 DEF Rate!RateCreate
  <2>5. Rate!TypeOK'
    BY <1>5, <2>1 DEF Rate!RateCreate
  <2>6. Rate!OneReview'
    BY <2>2 DEF Rate!OneReview
  <2> QED
    BY <2>4, <2>5, <2>6 DEF OneRates, NoReviewYet
<1>6. ASSUME NEW q \in Requests, Rate!Fail(q) PROVE ReviewInv'
  BY <1>6 DEF Rate!Fail, OneRates, NoReviewYet, Rate!OneReview
<1> QED
  BY <1>1, <1>2, <1>3, <1>4, <1>5, <1>6 DEF Rate!Next

\* The counts stay counts, and a request keeps its user, however requests overlap.
LEMMA ReviewTypes ==
    ASSUME Rate!Assumptions
    PROVE  Rate!Spec => []Rate!TypeOK
<1> USE DEF Rate!Assumptions, Rate!TypeOK, Rate!Idle
<1>1. Rate!Init => Rate!TypeOK
  BY DEF Rate!Init
<1>2. Rate!TypeOK /\ [Rate!Next]_(Rate!vars) => Rate!TypeOK'
  <2> SUFFICES ASSUME Rate!TypeOK, [Rate!Next]_(Rate!vars) PROVE Rate!TypeOK'
    OBVIOUS
  <2>1. CASE UNCHANGED Rate!vars
    BY <2>1 DEF Rate!vars
  <2>2. CASE Rate!RideMoves
    BY <2>2 DEF Rate!RideMoves, Rate!Moved
  <2>3. ASSUME NEW u \in Users, Rate!Books(u) PROVE Rate!TypeOK'
    BY <2>3 DEF Rate!Books
  <2>4. ASSUME NEW u \in Users, NEW q \in Requests, Rate!RateRead(q, u) PROVE Rate!TypeOK'
    BY <2>4 DEF Rate!RateRead
  <2>5. ASSUME NEW u \in Users, NEW q \in Requests, Rate!RateCreate(q, u) PROVE Rate!TypeOK'
    BY <2>5 DEF Rate!RateCreate
  <2>6. ASSUME NEW q \in Requests, Rate!Fail(q) PROVE Rate!TypeOK'
    BY <2>6 DEF Rate!Fail
  <2> QED
    BY <2>1, <2>2, <2>3, <2>4, <2>5, <2>6 DEF Rate!Next
<1> QED
  BY <1>1, <1>2, PTL DEF Rate!Spec

(* "Rating already submitted for this trip": one request at a time, however*)
(* many bookings of the ride a user has and however often it tries, it     *)
(* reviews the ride once.                                                  *)
THEOREM ReviewedOnce ==
    ASSUME Rate!Assumptions, Serial
    PROVE  Rate!Spec => []Rate!OneReview
<1>1. Rate!Init => ReviewInv
  BY DEF Rate!Init, ReviewInv, Rate!TypeOK, OneRates, NoReviewYet, Rate!OneReview, Rate!Idle,
         Rate!Assumptions
<1>2. ReviewInv /\ [Rate!Next]_(Rate!vars) => ReviewInv'
  BY StepReviews
<1>3. ReviewInv => Rate!OneReview
  BY DEF ReviewInv
<1> QED
  BY <1>1, <1>2, <1>3, PTL DEF Rate!Spec
==============================================================================
