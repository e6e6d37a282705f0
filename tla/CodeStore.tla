------------------------------ MODULE CodeStore ------------------------------
(***************************************************************************)
(* What a store of one-time codes promises its callers: a key has at most  *)
(* one code, a new one replaces it, and it goes with the first use, on     *)
(* expiry, or whenever the store loses it.  A code that is gone never      *)
(* comes back.                                                             *)
(***************************************************************************)
EXTENDS Naturals

CONSTANTS Keys, Codes, NoCode

NoCodeAssumption == NoCode \notin Codes

VARIABLES
    live,   \* the code a key has now, or NoCode
    uses,   \* how often each code was accepted
    made    \* the codes that were ever given to a key

vars == <<live, uses, made>>

Init ==
    /\ live = [k \in Keys |-> NoCode]
    /\ uses = [c \in Codes |-> 0]
    /\ made = {}

Issue(k, c) ==
    /\ c \notin made
    /\ live' = [live EXCEPT ![k] = c]
    /\ made' = made \cup {c}
    /\ UNCHANGED uses

Use(k) ==
    /\ live[k] # NoCode
    /\ uses' = [uses EXCEPT ![live[k]] = @ + 1]
    /\ live' = [live EXCEPT ![k] = NoCode]
    /\ UNCHANGED made

Expire(some) ==
    /\ live' = [k \in Keys |-> IF k \in some THEN NoCode ELSE live[k]]
    /\ UNCHANGED <<uses, made>>

\* A code may be lost before it reaches the store.
Drop(c) ==
    /\ made' = made \cup {c}
    /\ UNCHANGED <<live, uses>>

Next ==
    \/ \E k \in Keys, c \in Codes : Issue(k, c)
    \/ \E k \in Keys : Use(k)
    \/ \E some \in SUBSET Keys : Expire(some)
    \/ \E c \in Codes : Drop(c)

Spec == Init /\ [][Next]_vars

(* No code is accepted twice: what makes a one-time code one-time.  The    *)
(* implementation inherits it when it compares and deletes a code without  *)
(* another verification in between.                                        *)
UsedOnce == \A c \in Codes : uses[c] <= 1

(* Why: a live code is unused and of one key, and was made.                *)
LiveIsFresh ==
    /\ \A k \in Keys : live[k] # NoCode => live[k] \in made /\ uses[live[k]] = 0
    /\ \A k, l \in Keys : live[k] # NoCode /\ live[k] = live[l] => k = l
    /\ \A c \in Codes \ made : uses[c] = 0

TypeOK ==
    /\ live \in [Keys -> Codes \cup {NoCode}]
    /\ uses \in [Codes -> Nat]
    /\ made \subseteq Codes
IInv == TypeOK /\ LiveIsFresh /\ UsedOnce
==============================================================================
