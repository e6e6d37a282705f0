----------------------------- MODULE SeatAccount -----------------------------
(***************************************************************************)
(* What the booking code promises about the seats of a ride, in two        *)
(* counters: seats are taken only out of the free ones, seats given back   *)
(* were held, and held seats that lapse (their booking ends without being  *)
(* given back) are lost to the ride.                                       *)
(***************************************************************************)
EXTENDS Naturals

CONSTANTS Rides, Capacity

VARIABLES free, held

account == <<free, held>>

Init ==
    /\ free = [r \in Rides |-> Capacity]
    /\ held = [r \in Rides |-> 0]

\* A booking or a promotion.
Take(r, n) ==
    /\ n <= free[r]
    /\ free' = [free EXCEPT ![r] = @ - n]
    /\ held' = [held EXCEPT ![r] = @ + n]

\* A cancellation by the passenger.
Give(r, n) ==
    /\ n <= held[r]
    /\ free' = [free EXCEPT ![r] = @ + n]
    /\ held' = [held EXCEPT ![r] = @ - n]

\* Bookings, of any number of rides, end without giving their seats back.
Lapse ==
    /\ UNCHANGED free
    /\ held' = [r \in Rides |-> held'[r]]
    /\ \A r \in Rides : held'[r] \in 0..held[r]

Next ==
    \/ \E r \in Rides, n \in 1..Capacity : Take(r, n) \/ Give(r, n)
    \/ Lapse

Spec == Init /\ [][Next]_account
==============================================================================
