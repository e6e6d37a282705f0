------------------------------- MODULE Account -------------------------------
(***************************************************************************)
(* Accounts (modules/auth), their sessions, and the restriction of users   *)
(* by an administrator (modules/admin/users).  An account is created with  *)
(* a code from the store of registration codes, which is taken here for    *)
(* what CodeStore promises; a session is the one refresh token its row     *)
(* keeps; a restriction is a flag of the row and a member of a Redis set,  *)
(* of which the middleware of every request reads only the second.         *)
(***************************************************************************)
EXTENDS Naturals, FiniteSets

CONSTANTS
    Users,      \* by the email they register with
    Tokens,     \* bound: refresh tokens signed, numbered in the order of their
                \* signing; a JWT carries the second it was signed in, and no
                \* user signs two in the same second
    Requests,   \* bound: requests open at the same time
    Failing,    \* Redis commands that may be refused
    Failures,   \* TRUE: a handler may stop at any await
    Serial,     \* TRUE: a handler starts only when none is open
    None

AccountRow == [verified: BOOLEAN, refreshToken: Tokens \cup {None}]

Assumptions ==
    /\ Tokens \subseteq Nat
    /\ Failing \subseteq {"sadd", "srem", "sismember"}
    /\ {Failures, Serial} \subseteq BOOLEAN
    /\ None \notin Users /\ None \notin Tokens /\ None \notin AccountRow

VARIABLES
    account,     \* User rows by email: verified, refreshToken; or None
    coded,       \* addresses a registration code is live for
    holder,      \* whose each signed refresh token is, or None
    valid,       \* refresh tokens whose seven days are not over
    cut,         \* history: refresh tokens signed before their user was restricted
    access,      \* users with an access token whose hour is not over
    restricted,  \* the Redis set
    request      \* what each open request remembers at its current await

vars == <<account, coded, holder, valid, cut, access, restricted, request>>
tokens == <<holder, valid>>

Idle == [at |-> "idle"]
RequestState ==
    {Idle}
    \cup [at: {"registerSeen", "registerMatched", "registerVerified", "loginSeen",
               "sadd", "srem"}, user: Users]
    \cup [at: {"signed"}, user: Users, token: Tokens]

\* One type invariant: rows, tokens and handlers have their shapes.
TypeOK ==
    /\ account \in [Users -> AccountRow \cup {None}]
    /\ coded \subseteq Users /\ access \subseteq Users /\ restricted \subseteq Users
    /\ holder \in [Tokens -> Users \cup {None}]
    /\ valid \subseteq Tokens /\ cut \subseteq Tokens
    /\ request \in [Requests -> RequestState]

Init ==
    /\ account = [u \in Users |-> None]
    /\ coded = {} /\ access = {} /\ restricted = {}
    /\ holder = [t \in Tokens |-> None]
    /\ valid = {} /\ cut = {}
    /\ request = [q \in Requests |-> Idle]

------------------------------------------------------------------------------
At(q, stage) == request[q].at = stage
Goes(q, state) == request' = [request EXCEPT ![q] = state]
Closes(q) == Goes(q, Idle)
Of(q) == request[q].user
Stage(stage, u) == [at |-> stage, user |-> u]
Opens(q, state) ==
    /\ request[q] = Idle
    /\ Serial => \A other \in Requests : request[other] = Idle
    /\ Goes(q, state)

HasAccount(u) == account[u] # None

\* generateTokens: a refresh token, and an access token for the answer.
Signs(q, u, t) ==
    /\ holder[t] = None /\ \A n \in Tokens : n < t => holder[n] # None
    /\ holder' = [holder EXCEPT ![t] = u]
    /\ valid' = valid \cup {t}
    /\ Goes(q, [at |-> "signed", user |-> u, token |-> t])

(* sendRegistrationOtp: a new code replaces the one before.                *)
SendRegistrationOtp(u) ==
    /\ ~HasAccount(u)
    /\ coded' = coded \cup {u}
    /\ UNCHANGED <<account, tokens, cut, access, restricted, request>>

\* A code expires, or its store loses it.
CodeExpires(u) ==
    /\ coded' = coded \ {u}
    /\ UNCHANGED <<account, tokens, cut, access, restricted, request>>

(* registerUser: the address must be free ...                              *)
RegisterRead(q, u) ==
    /\ ~HasAccount(u)
    /\ Opens(q, Stage("registerSeen", u))
    /\ UNCHANGED <<account, coded, tokens, cut, access, restricted>>

\* ... the code right, or the request is refused ...
RegisterMatch(q) ==
    /\ At(q, "registerSeen")
    /\ \/ Of(q) \in coded /\ Goes(q, Stage("registerMatched", Of(q)))
       \/ Closes(q)
    /\ UNCHANGED <<account, coded, tokens, cut, access, restricted>>

\* ... spent, whichever code is there by now ...
RegisterSpend(q) ==
    /\ At(q, "registerMatched")
    /\ coded' = coded \ {Of(q)}
    /\ Goes(q, Stage("registerVerified", Of(q)))
    /\ UNCHANGED <<account, tokens, cut, access, restricted>>

\* ... and the row created; the unique keys on email and phone may refuse it.
RegisterCreate(q, t) ==
    /\ At(q, "registerVerified")
    /\ ~HasAccount(Of(q))
    /\ account' = [account EXCEPT ![Of(q)] = [verified |-> TRUE, refreshToken |-> None]]
    /\ Signs(q, Of(q), t)
    /\ UNCHANGED <<coded, cut, access, restricted>>
RegisterRefused(q) ==
    /\ At(q, "registerVerified")
    /\ Closes(q)
    /\ UNCHANGED <<account, coded, tokens, cut, access, restricted>>

(* loginUser reads the row and compares the password, which we take to be  *)
(* right; verified it does not look at.                                    *)
LoginRead(q, u) ==
    /\ HasAccount(u)
    /\ Opens(q, Stage("loginSeen", u))
    /\ UNCHANGED <<account, coded, tokens, cut, access, restricted>>
LoginSign(q, t) ==
    /\ At(q, "loginSeen")
    /\ Signs(q, Of(q), t)
    /\ UNCHANGED <<account, coded, cut, access, restricted>>

\* Both write the token they signed to the row, and answer.
KeepToken(q) ==
    /\ At(q, "signed")
    /\ account' = [account EXCEPT ![Of(q)].refreshToken = request[q].token]
    /\ access' = access \cup {Of(q)}
    /\ Closes(q)
    /\ UNCHANGED <<coded, tokens, cut, restricted>>

(* refreshAccessToken: a signed token that is the one the row keeps.       *)
Accepted(t) ==
    /\ t \in valid
    /\ HasAccount(holder[t])
    /\ account[holder[t]].refreshToken = t
RefreshAccessToken(t) ==
    /\ Accepted(t)
    /\ access' = access \cup {holder[t]}
    /\ UNCHANGED <<account, coded, tokens, cut, restricted, request>>

\* Tokens expire: access tokens after an hour, refresh tokens after a week.
AccessExpires(u) ==
    /\ access' = access \ {u}
    /\ UNCHANGED <<account, coded, tokens, cut, restricted, request>>
RefreshExpires(t) ==
    /\ valid' = valid \ {t}
    /\ UNCHANGED <<account, coded, holder, cut, access, restricted, request>>

(* restrictUser and unrestrictUser: the row, then the Redis set, whose     *)
(* error is only logged.                                                   *)
Restrict_KeepsSession(q, u) ==
    /\ HasAccount(u)
    /\ account' = [account EXCEPT ![u].verified = FALSE]
    /\ cut' = cut \cup {t \in Tokens : holder[t] = u}
    /\ Opens(q, Stage("sadd", u))
    /\ UNCHANGED <<coded, tokens, access, restricted>>
Restrict(q, u) ==
    /\ HasAccount(u)
    /\ account' = [account EXCEPT ![u] = [verified |-> FALSE, refreshToken |-> None]]
    /\ cut' = cut \cup {t \in Tokens : holder[t] = u}
    /\ Opens(q, Stage("sadd", u))
    /\ UNCHANGED <<coded, tokens, access, restricted>>

Unrestrict(q, u) ==
    /\ HasAccount(u)
    /\ account' = [account EXCEPT ![u].verified = TRUE]
    /\ Opens(q, Stage("srem", u))
    /\ UNCHANGED <<coded, tokens, cut, access, restricted>>

Added_Nobody(u) == restricted
Added(u) == restricted \cup {u}
RedisSet(q) ==
    /\ \/ At(q, "sadd") /\ restricted' = Added(Of(q))
       \/ At(q, "srem") /\ restricted' = restricted \ {Of(q)}
       \/ request[q].at \in Failing /\ UNCHANGED restricted
    /\ Closes(q)
    /\ UNCHANGED <<account, coded, tokens, cut, access>>

\* updateDocumentStatus sets the same flag when a driver's documents are approved.
ApproveDocuments(u) ==
    /\ HasAccount(u)
    /\ account' = [account EXCEPT ![u].verified = TRUE]
    /\ UNCHANGED <<coded, tokens, cut, access, restricted, request>>

(* authenticate: whether a request of the user gets past the middleware,   *)
(* which skips the restriction when Redis does not answer.                 *)
Passes(u) == u \in access /\ (u \notin restricted \/ "sismember" \in Failing)

\* A statement throws, or the process stops.
Fail(q) ==
    /\ Failures
    /\ request[q] # Idle
    /\ Closes(q)
    /\ UNCHANGED <<account, coded, tokens, cut, access, restricted>>

Continue(q) ==
    \/ RegisterMatch(q) \/ RegisterSpend(q) \/ RegisterRefused(q)
    \/ KeepToken(q) \/ RedisSet(q) \/ Fail(q)
    \/ \E t \in Tokens : RegisterCreate(q, t) \/ LoginSign(q, t)

Next ==
    \/ \E u \in Users : \/ SendRegistrationOtp(u) \/ CodeExpires(u)
                        \/ AccessExpires(u) \/ ApproveDocuments(u)
    \/ \E q \in Requests, u \in Users :
           RegisterRead(q, u) \/ LoginRead(q, u) \/ Restrict(q, u) \/ Unrestrict(q, u)
    \/ \E q \in Requests : Continue(q)
    \/ \E t \in Tokens : RefreshAccessToken(t) \/ RefreshExpires(t)

Spec == Init /\ [][Next]_vars

------------------------------------------------------------------------------
(* A restriction ends every session of its user: a refresh token signed    *)
(* before it is not accepted after it, whatever logins, later restrictions *)
(* and their lifting follow.  A login signs its token an await before it   *)
(* writes it, so this is for handlers that do not overlap.                 *)
RestrictionCutsSessions == \A t \in cut : ~Accepted(t)

(* "Add user ID to Redis set for restricted users": with an administrator  *)
(* at a time, a user whose row says restricted is refused by the middleware*)
(* of every request, even with an access token signed before.              *)
RestrictedRefused ==
    (\A q \in Requests : request[q] = Idle) =>
        \A u \in Users : HasAccount(u) /\ ~account[u].verified => ~Passes(u)
==============================================================================
