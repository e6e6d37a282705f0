---------------------------- MODULE MCRideBooking ----------------------------
(* Values of RideBooking's constants for TLC.                               *)
EXTENDS RideBooking, TLC

\* Every answer the driver's API accepts: five statuses from any status, and
\* a pickup of any booking that is not completed.
AllMoves ==
    (BookingStatus \X (BookingStatus \ {"PICKEDUP"}))
    \cup ((BookingStatus \ {"COMPLETED"}) \X {"PICKEDUP"})

\* The answers to a booking in the order its life goes.
UsualMoves ==
    {<<"PENDING", "ACCEPTED">>, <<"PENDING", "REJECTED">>,
     <<"ACCEPTED", "PICKEDUP">>, <<"PICKEDUP", "COMPLETED">>}

\* As UsualMoves, and the driver may cancel a booking that is not over.
UsualMovesAndCancel ==
    UsualMoves \cup {<<"PENDING", "CANCELLED">>, <<"ACCEPTED", "CANCELLED">>}

\* Answers that race with passengers and may take back what they did.
RacingMoves ==
    {<<"PENDING", "ACCEPTED">>, <<"ACCEPTED", "CANCELLED">>,
     <<"CANCELLED", "ACCEPTED">>, <<"ACCEPTED", "PICKEDUP">>}

NoMoves == {}

OneSeat == {1}
OneOrTwoSeats == {1, 2}

UpTo1 == 1..1
UpTo2 == 1..2
UpTo3 == 1..3
UpTo4 == 1..4

Symmetry == Permutations(Passengers) \cup Permutations(Requests)
==============================================================================
