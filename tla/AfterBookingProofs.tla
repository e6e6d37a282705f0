-------------------------- MODULE AfterBookingProofs --------------------------
(***************************************************************************)
(* What follows a booking: what the run of MCAfterBooking checks, for any  *)
(* values of its constants, concluded from the theorems of its components  *)
(* in FollowUpProofs.                                                      *)
(***************************************************************************)
EXTENDS MCAfterBooking, TLAPS

------------------------------------------------------------------------------
(* The scenarios: a behaviour plays one of them from beginning to end, and *)
(* is then a behaviour of its component.                                   *)
LEMMA OneScenario ==
    ASSUME [Next]_vars
    PROVE  /\ \A name : Plays(name)' <=> Plays(name)
           /\ Plays("paidInTurn") => [InTurn!Next]_(InTurn!vars)
           /\ Plays("twoAtOnce") => [AtOnce!Next]_(AtOnce!vars)
           /\ Plays("lateEvents") => [Late!Next]_(Late!vars)
           /\ Plays("anyAnswer") => [AtOnce!Post!Next]_(AtOnce!Post!vars)
           /\ Plays("plainAnswer") => [InTurn!Post!Next]_(InTurn!Post!vars)
           /\ Plays("chatRows") => [InTurn!Talk!Next]_(InTurn!Talk!vars)
           /\ Plays("chatRoom") => [AtOnce!Talk!Next]_(AtOnce!Talk!vars)
           /\ Plays("reviews") => [InTurn!Rate!Next]_(InTurn!Rate!vars)
<1> USE DEF Plays, Next, PaymentStep, EmailStep, ChatStep, RatingStep, vars,
            paymentVars, emailVars, chatVars, ratingVars
<1>1. \A name : Plays(name)' <=> Plays(name)
  OBVIOUS
<1>2. Plays("paidInTurn") => [InTurn!Next]_(InTurn!vars)
  BY DEF InTurn!vars
<1>3. Plays("twoAtOnce") => [AtOnce!Next]_(AtOnce!vars)
  BY DEF AtOnce!vars
<1>4. Plays("lateEvents") => [Late!Next]_(Late!vars)
  BY DEF Late!vars
<1>5. Plays("anyAnswer") => [AtOnce!Post!Next]_(AtOnce!Post!vars)
  BY DEF AtOnce!Post!vars
<1>6. Plays("plainAnswer") => [InTurn!Post!Next]_(InTurn!Post!vars)
  BY DEF InTurn!Post!vars
<1>7. Plays("chatRows") => [InTurn!Talk!Next]_(InTurn!Talk!vars)
  BY DEF InTurn!Talk!vars
<1>8. Plays("chatRoom") => [AtOnce!Talk!Next]_(AtOnce!Talk!vars)
  BY DEF AtOnce!Talk!vars
<1>9. Plays("reviews") => [InTurn!Rate!Next]_(InTurn!Rate!vars)
  BY DEF InTurn!Rate!vars
<1> QED
  BY <1>1, <1>2, <1>3, <1>4, <1>5, <1>6, <1>7, <1>8, <1>9

\* With OneScenario, a behaviour either is one of the component or never plays it.
LEMMA InTurnPaymentPlay ==
    Spec => \/ Plays("paidInTurn") /\ InTurn!Spec
            \/ []~Plays("paidInTurn")
<1>1. Init /\ Plays("paidInTurn") => InTurn!Init
  BY DEF Init, Plays
<1>2. [Next]_vars /\ Plays("paidInTurn") => [InTurn!Next]_(InTurn!vars)
  BY OneScenario
<1>3. [Next]_vars => (Plays("paidInTurn")' <=> Plays("paidInTurn"))
  BY OneScenario
<1> QED
  BY <1>1, <1>2, <1>3, PTL DEF Spec, InTurn!Spec

\* The same of the others.
LEMMA AtOncePaymentPlay ==
    Spec => \/ Plays("twoAtOnce") /\ AtOnce!Spec
            \/ []~Plays("twoAtOnce")
<1>1. Init /\ Plays("twoAtOnce") => AtOnce!Init
  BY DEF Init, Plays
<1>2. [Next]_vars /\ Plays("twoAtOnce") => [AtOnce!Next]_(AtOnce!vars)
  BY OneScenario
<1>3. [Next]_vars => (Plays("twoAtOnce")' <=> Plays("twoAtOnce"))
  BY OneScenario
<1> QED
  BY <1>1, <1>2, <1>3, PTL DEF Spec, AtOnce!Spec

LEMMA LatePaymentPlay ==
    Spec => \/ Plays("lateEvents") /\ Late!Spec
            \/ []~Plays("lateEvents")
<1>1. Init /\ Plays("lateEvents") => Late!Init
  BY DEF Init, Plays
<1>2. [Next]_vars /\ Plays("lateEvents") => [Late!Next]_(Late!vars)
  BY OneScenario
<1>3. [Next]_vars => (Plays("lateEvents")' <=> Plays("lateEvents"))
  BY OneScenario
<1> QED
  BY <1>1, <1>2, <1>3, PTL DEF Spec, Late!Spec

LEMMA AnyAnswerPlay ==
    Spec => \/ Plays("anyAnswer") /\ AtOnce!Post!Spec
            \/ []~Plays("anyAnswer")
<1>1. Init /\ Plays("anyAnswer") => AtOnce!Post!Init
  BY DEF Init, Plays
<1>2. [Next]_vars /\ Plays("anyAnswer") => [AtOnce!Post!Next]_(AtOnce!Post!vars)
  BY OneScenario
<1>3. [Next]_vars => (Plays("anyAnswer")' <=> Plays("anyAnswer"))
  BY OneScenario
<1> QED
  BY <1>1, <1>2, <1>3, PTL DEF Spec, AtOnce!Post!Spec

LEMMA PlainAnswerPlay ==
    Spec => \/ Plays("plainAnswer") /\ InTurn!Post!Spec
            \/ []~Plays("plainAnswer")
<1>1. Init /\ Plays("plainAnswer") => InTurn!Post!Init
  BY DEF Init, Plays
<1>2. [Next]_vars /\ Plays("plainAnswer") => [InTurn!Post!Next]_(InTurn!Post!vars)
  BY OneScenario
<1>3. [Next]_vars => (Plays("plainAnswer")' <=> Plays("plainAnswer"))
  BY OneScenario
<1> QED
  BY <1>1, <1>2, <1>3, PTL DEF Spec, InTurn!Post!Spec

LEMMA ChatRowsPlay ==
    Spec => \/ Plays("chatRows") /\ InTurn!Talk!Spec
            \/ []~Plays("chatRows")
<1>1. Init /\ Plays("chatRows") => InTurn!Talk!Init
  BY DEF Init, Plays
<1>2. [Next]_vars /\ Plays("chatRows") => [InTurn!Talk!Next]_(InTurn!Talk!vars)
  BY OneScenario
<1>3. [Next]_vars => (Plays("chatRows")' <=> Plays("chatRows"))
  BY OneScenario
<1> QED
  BY <1>1, <1>2, <1>3, PTL DEF Spec, InTurn!Talk!Spec

LEMMA ChatRoomPlay ==
    Spec => \/ Plays("chatRoom") /\ AtOnce!Talk!Spec
            \/ []~Plays("chatRoom")
<1>1. Init /\ Plays("chatRoom") => AtOnce!Talk!Init
  BY DEF Init, Plays
<1>2. [Next]_vars /\ Plays("chatRoom") => [AtOnce!Talk!Next]_(AtOnce!Talk!vars)
  BY OneScenario
<1>3. [Next]_vars => (Plays("chatRoom")' <=> Plays("chatRoom"))
  BY OneScenario
<1> QED
  BY <1>1, <1>2, <1>3, PTL DEF Spec, AtOnce!Talk!Spec

LEMMA ReviewsPlay ==
    Spec => \/ Plays("reviews") /\ InTurn!Rate!Spec
            \/ []~Plays("reviews")
<1>1. Init /\ Plays("reviews") => InTurn!Rate!Init
  BY DEF Init, Plays
<1>2. [Next]_vars /\ Plays("reviews") => [InTurn!Rate!Next]_(InTurn!Rate!vars)
  BY OneScenario
<1>3. [Next]_vars => (Plays("reviews")' <=> Plays("reviews"))
  BY OneScenario
<1> QED
  BY <1>1, <1>2, <1>3, PTL DEF Spec, InTurn!Rate!Spec

------------------------------------------------------------------------------
(* Every row, payment, event, email, message and review keeps its type,    *)
(* for any bookings, emails, chats and users, any overlap and any failure. *)
THEOREM TypeCorrect ==
    ASSUME Assumptions
    PROVE  Spec => []TypeOK
<1>1. /\ InTurn!Spec => []InTurn!TypeOK
      /\ AtOnce!Spec => []AtOnce!TypeOK
      /\ Late!Spec => []Late!TypeOK
  BY InTurn!TypeCorrect, AtOnce!TypeCorrect, Late!TypeCorrect DEF Assumptions
<1>2. /\ AtOnce!Post!Spec => []AtOnce!Post!TypeOK
      /\ InTurn!Post!Spec => []InTurn!Post!TypeOK
  BY AtOnce!MailTypeCorrect, InTurn!MailTypeCorrect DEF Assumptions
<1>3. /\ InTurn!Talk!Spec => []InTurn!Talk!TypeOK
      /\ AtOnce!Talk!Spec => []AtOnce!Talk!TypeOK
  BY InTurn!TalkTypeCorrect, AtOnce!TalkTypeCorrect DEF Assumptions
<1>4. InTurn!Rate!Spec => []InTurn!Rate!TypeOK
  BY InTurn!ReviewTypes DEF Assumptions
<1> QED
  BY <1>1, <1>2, <1>3, <1>4, InTurnPaymentPlay, AtOncePaymentPlay, LatePaymentPlay,
     AnyAnswerPlay, PlainAnswerPlay, ChatRowsPlay, ChatRoomPlay, ReviewsPlay, PTL DEF TypeOK

(* The rows of booking and payment agree once every handler has finished,  *)
(* whatever is ordered, paid, reported twice, disputed or refunded.        *)
THEOREM RowsDoAgree ==
    ASSUME Assumptions
    PROVE  Spec => []RowsAgree
<1>1. InTurn!Spec => []InTurn!RowsAgree
  BY InTurn!SerialRowsAgree DEF Assumptions
<1> QED
  BY <1>1, InTurnPaymentPlay, PTL DEF RowsAgree

(* Only money captured for a booking makes that booking paid, with any     *)
(* number of them ordered, verified and reported at the same time.         *)
THEOREM BookingsPayForThemselves ==
    ASSUME Assumptions
    PROVE  Spec => []PaidByItsOwnPayment
<1>1. AtOnce!Spec => []AtOnce!PaidByItsOwnPayment
  BY AtOnce!PaidByOwnPayment DEF Assumptions
<1> QED
  BY <1>1, AtOncePaymentPlay, PTL DEF PaidByItsOwnPayment

(* No late or repeated event unpays a booking, for any attempts to pay it. *)
THEOREM PaidStaysPaid ==
    ASSUME Assumptions
    PROVE  Spec => PaidUntilMoneyBack
<1>1. Late!Spec => [][Late!UnpaidAfterMoneyBack]_Late!vars
  BY Late!UnpaidOnlyAfterMoneyBack DEF Assumptions
<1>2. UNCHANGED Late!vars => Late!UnpaidAfterMoneyBack
  BY DEF Late!vars, Late!UnpaidAfterMoneyBack, Late!Paid
<1> QED
  BY <1>1, <1>2, LatePaymentPlay, PTL DEF PaidUntilMoneyBack

(* Neither fallbacks nor retries of the email producer and worker repeat a *)
(* mail that was taken while Redis and the process stay up, and the first  *)
(* outage of Redis loses none, for any emails and any cooldown.            *)
THEOREM MailIsNeitherTwiceNorLost ==
    ASSUME Assumptions
    PROVE  Spec => []EmailsNeitherTwiceNorLost
<1>1. InTurn!Post!Spec => []InTurn!Post!AtMostOneCopy
  BY InTurn!OneCopy DEF Assumptions
<1>2. AtOnce!Post!Spec => []AtOnce!Post!LostOnlyIfRefused
  BY AtOnce!LostAreRefused DEF Assumptions
<1> QED
  BY <1>1, <1>2, PlainAnswerPlay, AnyAnswerPlay, PTL DEF EmailsNeitherTwiceNorLost

(* A socket in a room is sent every message of its chat, for any sockets,  *)
(* rooms and messages and any length of the history.                       *)
THEOREM RoomsMissNothing ==
    ASSUME Assumptions
    PROVE  Spec => []NothingMissed
<1>1. AtOnce!Talk!Spec => []AtOnce!Talk!NothingMissed
  BY AtOnce!SocketsMissNothing DEF Assumptions
<1> QED
  BY <1>1, ChatRoomPlay, PTL DEF NothingMissed

(* createChat and submitRating, one at a time, make no second row, for any *)
(* rides, passengers and bookings.                                         *)
THEOREM RowsAreUnique ==
    ASSUME Assumptions
    PROVE  Spec => []NoSecondRow
<1>1. InTurn!Talk!Spec => []InTurn!Talk!OneChat
  BY InTurn!ChatsAreUnique DEF Assumptions
<1>2. InTurn!Rate!Spec => []InTurn!Rate!OneReview
  BY InTurn!ReviewedOnce DEF Assumptions
<1> QED
  BY <1>1, <1>2, ChatRowsPlay, ReviewsPlay, PTL DEF NoSecondRow
==============================================================================
