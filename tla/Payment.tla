------------------------------- MODULE Payment -------------------------------
(***************************************************************************)
(* Payments of bookings (modules/payment): the passenger orders, pays at   *)
(* Razorpay and reports the payment, Razorpay reports it too by webhook,   *)
(* and a paid booking may be refunded or lost to a dispute.  The rows of   *)
(* Booking and Payment are two statements apart in every handler; Razorpay *)
(* keeps its own books, and its webhooks arrive late, twice or never.      *)
(*                                                                         *)
(* Requests of others than the passenger, and bodies whose signature does  *)
(* not match, are refused before anything is written: they are left out.   *)
(***************************************************************************)
EXTENDS Integers, FiniteSets

CONSTANTS
    Bookings,
    Orders,      \* bound: orders Razorpay creates, numbered as they are
    Attempts,    \* bound: payments tried at Razorpay, numbered as they are
    Requests,    \* bound: requests and webhooks handled at the same time
    Modes,       \* payment modes a booking may have
    Notice,      \* bound: the hours before departure time stops at
    Failures,    \* TRUE: a handler may stop at any await
    Redelivery,  \* TRUE: Razorpay may deliver an event again
    Serial,      \* TRUE: a handler starts only when none is open
    None

PaymentMode == {"COD", "ADVANCE"}
PaymentStatus == {"PENDING", "PAID", "FAILED", "REFUNDED"}
PaymentRow == [order: Orders, status: PaymentStatus, payId: Attempts \cup {None},
               refundStatus: {None, "PENDING", "PROCESSED"}]

Assumptions ==
    /\ Orders \subseteq Nat /\ Attempts \subseteq Nat
    /\ Notice \subseteq Nat /\ Notice # {}
    /\ Modes \subseteq PaymentMode
    /\ {Failures, Redelivery, Serial} \subseteq BOOLEAN
    /\ None \notin Orders /\ None \notin Attempts /\ None \notin Bookings
    /\ None \notin PaymentRow

VARIABLES
    booking,   \* Booking: mode, cancelled, paymentStatus, orderId
    payment,   \* Payment of a booking: order, status, payId, refund; or None
    orderOf,   \* Razorpay: the booking each order was created for
    offered,   \* orders whose createOrder answered: the passenger can pay them
    attempt,   \* Razorpay: order and result of each payment, and what went back
    events,    \* webhooks Razorpay still has to deliver: <<event, payment>>
    hours,     \* full hours left before the departure, in steps
    request    \* what each open request remembers at its current await

vars == <<booking, payment, orderOf, offered, attempt, events, hours, request>>
rows == <<booking, payment>>
razorpay == <<orderOf, offered, attempt>>

Price == 4
Idle == [at |-> "idle"]
Results == {"failed", "captured"}
Unpaid == [order |-> None, result |-> "failed", back |-> 0, lost |-> FALSE]

BookingRow == [mode: Modes, cancelled: BOOLEAN, paymentStatus: PaymentStatus,
               orderId: Orders \cup {None}]
Attempt == [order: Orders \cup {None}, result: Results, back: 0..Price, lost: BOOLEAN]
RequestState ==
    {Idle}
    \cup [at: {"orderSeen", "markPaid", "markRefunded", "refundMade", "cancel"},
          booking: Bookings]
    \cup [at: {"orderMade", "orderKept"}, booking: Bookings, order: Orders]
    \cup [at: {"verifySeen", "refundSeen"}, booking: Bookings, pay: Attempts]

\* One type invariant: rows, Razorpay's books and handlers have their shapes.
TypeOK ==
    /\ booking \in [Bookings -> BookingRow]
    /\ payment \in [Bookings -> PaymentRow \cup {None}]
    /\ orderOf \in [Orders -> Bookings \cup {None}]
    /\ offered \subseteq Orders
    /\ attempt \in [Attempts -> Attempt]
    /\ events \subseteq (Results \cup {"lost"}) \X Attempts
    /\ hours \in Notice
    /\ request \in [Requests -> RequestState]

Init ==
    /\ booking \in [Bookings -> {[mode |-> m, cancelled |-> FALSE,
           paymentStatus |-> "PENDING", orderId |-> None] : m \in Modes}]
    /\ payment = [b \in Bookings |-> None]
    /\ orderOf = [o \in Orders |-> None]
    /\ offered = {}
    /\ attempt = [p \in Attempts |-> Unpaid]
    /\ events = {}
    /\ hours \in Notice /\ \A h \in Notice : h <= hours
    /\ request = [q \in Requests |-> Idle]

------------------------------------------------------------------------------
(* Handlers: how a request opens, goes on to its next await, and ends.     *)
At(q, stage) == request[q].at = stage
Goes(q, state) == request' = [request EXCEPT ![q] = state]
Closes(q) == Goes(q, Idle)
Opens(q, state) ==
    /\ request[q] = Idle
    /\ Serial => \A other \in Requests : request[other] = Idle
    /\ Goes(q, state)
Of(q) == request[q].booking
Stage(stage, b) == [at |-> stage, booking |-> b]

Paid(b) == booking[b].paymentStatus = "PAID"
SetStatus_Never(b, status) == UNCHANGED booking
SetStatus(b, status) == booking' = [booking EXCEPT ![b].paymentStatus = status]

(* createOrder: the booking is read and checked ...                        *)
MayOrder(b) == ~Paid(b) /\ booking[b].mode # "COD"
\* Bound: no more requests than there are orders left to create.
OrdersLeft ==
    Cardinality({o \in Orders : orderOf[o] = None})
        > Cardinality({q \in Requests : At(q, "orderSeen")})
OrderRead(q, b) ==
    /\ MayOrder(b)
    /\ OrdersLeft
    /\ Opens(q, Stage("orderSeen", b))
    /\ UNCHANGED <<rows, razorpay, events, hours>>

\* ... Razorpay creates the order ...
OrderCreate(q, o) ==
    /\ At(q, "orderSeen")
    /\ orderOf[o] = None /\ \A n \in Orders : n < o => orderOf[n] # None
    /\ orderOf' = [orderOf EXCEPT ![o] = Of(q)]
    /\ Goes(q, [at |-> "orderMade", booking |-> Of(q), order |-> o])
    /\ UNCHANGED <<rows, offered, attempt, events, hours>>

\* ... the row is created, or loses what it had ...
OrderUpsert(q) ==
    /\ At(q, "orderMade")
    /\ payment' = [payment EXCEPT ![Of(q)] =
           [order |-> request[q].order, status |-> "PENDING", payId |-> None,
            refundStatus |-> None]]
    /\ Goes(q, [request[q] EXCEPT !.at = "orderKept"])
    /\ UNCHANGED <<booking, razorpay, events, hours>>

\* ... and the passenger gets the order id.
OrderAnswer(q) ==
    /\ At(q, "orderKept")
    /\ booking' = [booking EXCEPT ![Of(q)].orderId = request[q].order]
    /\ offered' = offered \cup {request[q].order}
    /\ Closes(q)
    /\ UNCHANGED <<payment, orderOf, attempt, events, hours>>

(* External: Razorpay tries a payment of an order, once captured no more,  *)
(* and announces the result.                                               *)
Captured(p) == attempt[p].order # None /\ attempt[p].result = "captured"
PayAttempt(p, o, result) ==
    /\ attempt[p].order = None /\ \A n \in Attempts : n < p => attempt[n].order # None
    /\ o \in offered
    /\ \A n \in Attempts : Captured(n) => attempt[n].order # o
    /\ attempt' = [attempt EXCEPT ![p].order = o, ![p].result = result]
    /\ events' = events \cup {<<result, p>>}
    /\ UNCHANGED <<rows, orderOf, offered, hours, request>>

\* External: the bank takes a captured payment back.
LoseDispute(p) ==
    /\ Captured(p) /\ ~attempt[p].lost
    /\ attempt' = [attempt EXCEPT ![p].lost = TRUE]
    /\ events' = events \cup {<<"lost", p>>}
    /\ UNCHANGED <<rows, orderOf, offered, hours, request>>

(* verifyPayment: the passenger reports a captured payment, as often as    *)
(* they like; the row must be of the payment's order.                      *)
RowMatches_AnyOrder(b, p) == payment[b] # None
RowMatches(b, p) == payment[b] # None /\ payment[b].order = attempt[p].order
VerifyRead(q, b, p) ==
    /\ Captured(p)
    /\ RowMatches(b, p)
    /\ Opens(q, [at |-> "verifySeen", booking |-> b, pay |-> p])
    /\ UNCHANGED <<rows, razorpay, events, hours>>

VerifyUpdate(q) ==
    /\ At(q, "verifySeen")
    /\ payment' = [payment EXCEPT ![Of(q)].payId = request[q].pay,
                                  ![Of(q)].status = "PAID"]
    /\ Goes(q, Stage("markPaid", Of(q)))
    /\ UNCHANGED <<booking, razorpay, events, hours>>

\* The second statement of verifyPayment and of a captured webhook.
MarkPaid(q) ==
    /\ At(q, "markPaid")
    /\ SetStatus(Of(q), "PAID")
    /\ Closes(q)
    /\ UNCHANGED <<payment, razorpay, events, hours>>

(* handleWebhook.  The answer is 200 whatever happens, so an event whose   *)
(* handler threw is not delivered again by Razorpay's retries.             *)
Delivered(e) == events' \in {events \ {e}} \cup (IF Redelivery THEN {events} ELSE {})

\* prisma.payment.update throws when no row has that order.
WebhookCaptured(q, p) ==
    /\ <<"captured", p>> \in events
    /\ Delivered(<<"captured", p>>)
    /\ \/ \E b \in Bookings :
              /\ RowMatches(b, p)
              /\ payment' = [payment EXCEPT ![b].payId = p, ![b].status = "PAID"]
              /\ Opens(q, Stage("markPaid", b))
       \/ /\ \A b \in Bookings : ~RowMatches(b, p)
          /\ Opens(q, Idle)
          /\ UNCHANGED payment
    /\ UNCHANGED <<booking, razorpay, hours>>

WebhookFailed_Booking(q, p) ==
    /\ <<"failed", p>> \in events
    /\ Delivered(<<"failed", p>>)
    /\ Opens(q, Idle)
    /\ booking' = [b \in Bookings |-> IF RowMatches(b, p)
           THEN [booking[b] EXCEPT !.paymentStatus = "FAILED"] ELSE booking[b]]
    /\ UNCHANGED <<payment, razorpay, hours>>

WebhookFailed(q, p) ==
    /\ <<"failed", p>> \in events
    /\ Delivered(<<"failed", p>>)
    /\ Opens(q, Idle)
    /\ payment' = [b \in Bookings |-> IF RowMatches(b, p)
           THEN [payment[b] EXCEPT !.status = "FAILED"] ELSE payment[b]]
    /\ UNCHANGED <<booking, razorpay, hours>>

HasPayId(b, p) == payment[b] # None /\ payment[b].payId = p
WebhookLost(q, p) ==
    /\ <<"lost", p>> \in events
    /\ Delivered(<<"lost", p>>)
    /\ \/ \E b \in Bookings :
              /\ HasPayId(b, p)
              /\ payment' = [payment EXCEPT ![b].status = "REFUNDED",
                                            ![b].refundStatus = "PROCESSED"]
              /\ Opens(q, Stage("markRefunded", b))
       \/ /\ \A b \in Bookings : ~HasPayId(b, p)
          /\ Opens(q, Idle)
          /\ UNCHANGED payment
    /\ UNCHANGED <<booking, razorpay, hours>>

MarkRefunded(q) ==
    /\ At(q, "markRefunded")
    /\ SetStatus(Of(q), "REFUNDED")
    /\ Closes(q)
    /\ UNCHANGED <<payment, razorpay, events, hours>>

(* processRefund.                                                          *)
MayRefund(b) == booking[b].mode # "COD" /\ Paid(b) /\ payment[b].payId # None
RefundRead(q, b) ==
    /\ payment[b] # None /\ MayRefund(b)
    /\ Opens(q, [at |-> "refundSeen", booking |-> b, pay |-> payment[b].payId])
    /\ UNCHANGED <<rows, razorpay, events, hours>>

\* calculateRefundAmount
RefundAmount(left) ==
    CASE left >= 24 -> Price
      [] left \in 12..23 -> (Price * 3) \div 4
      [] left \in 6..11 -> Price \div 2
      [] OTHER -> 0

\* External: Razorpay refunds some money of a payment, never more than it has.
Refundable(p, amount) == amount > 0 /\ attempt[p].back + amount <= Price
RefundCall(q) ==
    /\ At(q, "refundSeen")
    /\ LET p == request[q].pay
           amount == RefundAmount(hours)
       IN \/ /\ Refundable(p, amount)
             /\ attempt' = [attempt EXCEPT ![p].back = @ + amount]
             /\ Goes(q, Stage("refundMade", Of(q)))
          \/ /\ ~Refundable(p, amount)
             /\ Closes(q)
             /\ UNCHANGED attempt
    /\ UNCHANGED <<rows, orderOf, offered, events, hours>>

RefundUpdate(q) ==
    /\ At(q, "refundMade")
    /\ payment' = [payment EXCEPT ![Of(q)].refundStatus = "PENDING",
                                  ![Of(q)].status = "REFUNDED"]
    /\ Goes(q, Stage("cancel", Of(q)))
    /\ UNCHANGED <<booking, razorpay, events, hours>>

RefundCancel(q) ==
    /\ At(q, "cancel")
    /\ booking' = [booking EXCEPT ![Of(q)].cancelled = TRUE,
                                  ![Of(q)].paymentStatus = "REFUNDED"]
    /\ Closes(q)
    /\ UNCHANGED <<payment, razorpay, events, hours>>

\* A statement throws, Razorpay does, or the process stops.
Fail(q) ==
    /\ Failures
    /\ request[q] # Idle
    /\ Closes(q)
    /\ UNCHANGED <<rows, razorpay, events, hours>>

TimePasses ==
    /\ hours' \in Notice
    /\ hours' < hours
    /\ UNCHANGED <<rows, razorpay, events, request>>

Continue(q) ==
    \/ OrderUpsert(q) \/ OrderAnswer(q) \/ VerifyUpdate(q) \/ MarkPaid(q)
    \/ MarkRefunded(q) \/ RefundCall(q) \/ RefundUpdate(q) \/ RefundCancel(q)
Webhook(p) ==
    \E q \in Requests : WebhookCaptured(q, p) \/ WebhookFailed(q, p) \/ WebhookLost(q, p)

Next ==
    \/ \E q \in Requests, b \in Bookings : OrderRead(q, b) \/ RefundRead(q, b)
    \/ \E q \in Requests, o \in Orders : OrderCreate(q, o)
    \/ \E q \in Requests, b \in Bookings, p \in Attempts : VerifyRead(q, b, p)
    \/ \E q \in Requests : Continue(q) \/ Fail(q)
    \/ \E p \in Attempts, o \in Orders, r \in Results : PayAttempt(p, o, r)
    \/ \E p \in Attempts : LoseDispute(p) \/ Webhook(p)
    \/ TimePasses

Spec == Init /\ [][Next]_vars

\* Awaits return; Razorpay keeps trying to deliver an event.  Strong, because
\* the bound on requests may close the door to it again and again.
FairSpec ==
    /\ Spec
    /\ \A q \in Requests : WF_vars(Continue(q) \/ \E o \in Orders : OrderCreate(q, o))
    /\ \A p \in Attempts : SF_vars(Webhook(p))

------------------------------------------------------------------------------
PaidFor(b) == {p \in Attempts : Captured(p) /\ orderOf[attempt[p].order] = b}
MoneyBack(b) == \E p \in PaidFor(b) : attempt[p].back > 0 \/ attempt[p].lost

(* A booking is PAID, and a payment row names a payment, only because of   *)
(* money Razorpay captured for an order of that very booking, whichever    *)
(* report came first and whatever orders replaced each other meanwhile.    *)
PaidByItsOwnPayment ==
    \A b \in Bookings :
        /\ Paid(b) => PaidFor(b) # {}
        /\ payment[b] # None /\ payment[b].payId # None => payment[b].payId \in PaidFor(b)

(* Late, repeated and reordered events never take a booking out of PAID:   *)
(* it leaves that status only after money went back at Razorpay.           *)
UnpaidAfterMoneyBack == \A b \in Bookings : Paid(b) /\ ~Paid(b)' => MoneyBack(b)

(* When handlers do not overlap and all of them finish, the two rows agree *)
(* whenever none is open: a refunded row belongs to a refunded booking,    *)
(* and an unpaid booking has no paid row.                                  *)
Quiet == \A q \in Requests : request[q] = Idle
RowsAgree ==
    Quiet => \A b \in Bookings : payment[b] # None =>
        /\ payment[b].order = booking[b].orderId
        /\ payment[b].status = "PAID" => Paid(b)
        /\ payment[b].status = "REFUNDED" => booking[b].paymentStatus = "REFUNDED"

(* A captured payment is recorded, by the passenger's report or Razorpay's *)
(* webhook, unless a later order has taken its row.                        *)
Recorded(p) == \E b \in Bookings :
    /\ p \in PaidFor(b)
    /\ booking[b].paymentStatus \in {"PAID", "REFUNDED"} \/ ~RowMatches(b, p)
CapturedIsRecorded == \A p \in Attempts : Captured(p) ~> Recorded(p)

(* processRefund throws PAYMENT_NOT_MADE unless the booking is PAID: when  *)
(* the refund is made, it still should be.                                 *)
RefundsPaidBooking ==
    [][\A q \in Requests :
          At(q, "refundSeen") /\ request'[q].at = "refundMade" => Paid(Of(q))]_vars

(* createOrder throws PAYMENT_ALREADY_MADE for a PAID booking: its upsert  *)
(* should not unpay the row of one.                                        *)
OrderLeavesPaidRow ==
    [][\A b \in Bookings :
          Paid(b) /\ payment[b].status = "PAID" => payment'[b].status # "PENDING"]_vars
==============================================================================
