------------------------------- MODULE MCAccess -------------------------------
(***************************************************************************)
(* Who may act: one-time codes (OtpStore), accounts and restrictions       *)
(* (Account), and the limits before every handler (HttpServer), for TLC.   *)
(* The three share no state here, so a behaviour is about one of them: it  *)
(* plays one scenario, a component under one choice of what may go wrong,  *)
(* and the variables of the others are None.  The components come with     *)
(* their theorems, so that AccessProofs can conclude from them.            *)
(***************************************************************************)
EXTENDS Naturals, FiniteSets

CONSTANTS
    Keys, Codes, TTL,            \* of OtpStore
    FewerCodes,                  \* its Codes when Redis fails
    Users, Tokens,               \* of Account
    Clients, GeneralMax, AuthMax,    \* of HttpServer
    Requests,
    None

VARIABLES
    scenario,
    request,
    redis, memory, owner, mailed, stored, uses,
    account, coded, holder, valid, cut, access, restricted,
    database, jobs, hits, handled, answer

otpVars == <<redis, memory, owner, mailed, stored, uses>>
accountVars == <<account, coded, holder, valid, cut, access, restricted>>
httpVars == <<database, jobs, hits, handled, answer>>
vars == <<scenario, request, otpVars, accountVars, httpVars>>

\* Redis answers, but lifting a restriction may fail; the process may be restarted.
Answering == INSTANCE CredentialProofs WITH
    AwaitsStore <- TRUE, Failing <- {}, Unanswered <- {}, Restarts <- TRUE, Serial <- TRUE,
    Losing <- {"srem"}, Failures <- FALSE, NoCode <- None, NoKey <- None
\* Redis refuses the second command of a store, or of a use, and both writes of
\* a restriction, or applies a command of the store without an answer; any
\* handler of an account may stop at an await.
HalfDone == INSTANCE CredentialProofs WITH
    Codes <- FewerCodes, AwaitsStore <- TRUE,
    Failing <- {"expire", "del"}, Unanswered <- {"set", "expire"},
    Restarts <- FALSE, Serial <- TRUE,
    Losing <- {"sadd", "srem"}, Failures <- TRUE, NoCode <- None, NoKey <- None
\* Redis refuses everything but EXPIRE, now and then, and applies an EXPIRE
\* without an answer.  A SET that it applies is answered: one that is not, like
\* an EXPIRE it refuses, leaves a code in Redis for ever.
Outage == INSTANCE CredentialProofs WITH
    Codes <- FewerCodes, AwaitsStore <- TRUE,
    Failing <- {"set", "get", "del"}, Unanswered <- {"expire"}, Restarts <- TRUE, Serial <- TRUE,
    Losing <- {"sadd", "srem"}, Failures <- FALSE, NoCode <- None, NoKey <- None
Limits == INSTANCE HttpServer

ASSUME Assumptions ==
    /\ Answering!Assumptions /\ Answering!Accounts!Assumptions
    /\ HalfDone!Assumptions /\ HalfDone!Accounts!Assumptions
    /\ Outage!Assumptions /\ Limits!Assumptions

------------------------------------------------------------------------------
Plays(name) == scenario = name

NoOtp == /\ redis = None /\ memory = None /\ owner = None
         /\ mailed = None /\ stored = None /\ uses = None
NoAccount == /\ account = None /\ coded = None /\ holder = None /\ valid = None
             /\ cut = None /\ access = None /\ restricted = None
NoHttp == database = None /\ jobs = None /\ hits = None /\ handled = None /\ answer = None

Init ==
    \/ Plays("codes") /\ Answering!Init /\ NoAccount /\ NoHttp
    \/ Plays("halfStored") /\ HalfDone!Init /\ NoAccount /\ NoHttp
    \/ Plays("outage") /\ Outage!Init /\ NoAccount /\ NoHttp
    \/ Plays("accounts") /\ Answering!Accounts!Init /\ NoOtp /\ NoHttp
    \/ Plays("unreliable") /\ HalfDone!Accounts!Init /\ NoOtp /\ NoHttp
    \/ Plays("limits") /\ Limits!Init /\ NoOtp /\ NoAccount /\ request = None

Next ==
    /\ UNCHANGED scenario
    /\ \/ Plays("codes") /\ Answering!Next /\ UNCHANGED <<accountVars, httpVars>>
       \/ Plays("halfStored") /\ HalfDone!Next /\ UNCHANGED <<accountVars, httpVars>>
       \/ Plays("outage") /\ Outage!Next /\ UNCHANGED <<accountVars, httpVars>>
       \/ Plays("accounts") /\ Answering!Accounts!Next /\ UNCHANGED <<otpVars, httpVars>>
       \/ Plays("unreliable") /\ HalfDone!Accounts!Next /\ UNCHANGED <<otpVars, httpVars>>
       \/ Plays("limits") /\ Limits!Next /\ UNCHANGED <<otpVars, accountVars, request>>

Spec == Init /\ [][Next]_vars

------------------------------------------------------------------------------
(* The type invariants of the three components.                            *)
TypeOK ==
    /\ Plays("codes") => Answering!TypeOK
    /\ Plays("halfStored") => HalfDone!TypeOK
    /\ Plays("outage") => Outage!TypeOK
    /\ Plays("accounts") => Answering!Accounts!TypeOK
    /\ Plays("unreliable") => HalfDone!Accounts!TypeOK
    /\ Plays("limits") => Limits!TypeOK

(* storeOTP puts the newest code of a key where verifyOTP looks first.     *)
MailedCodeAccepted == Plays("codes") => Answering!MailedCodeAccepted

(* The store, its two copies and its handlers are the one-time store of    *)
(* CodeStore, in which a code is accepted once.                            *)
ImplementsCodeStore ==
    /\ Plays("codes") => Answering!Abstract!Init
    /\ [][Plays("codes") => [Answering!Abstract!Next]_(Answering!Abstract!vars)]_vars

(* verifyOTP accepts no code that a newer one replaced, however half the   *)
(* newer one was stored; and none whose ten minutes are over, although     *)
(* Redis refuses commands, as long as no copy of SET is left without its   *)
(* EXPIRE (EXPIRE refused, or SET applied but its answer lost).            *)
StaleCodeRefused ==
    [][/\ Plays("halfStored") => HalfDone!AcceptsNewest
       /\ Plays("outage") => Outage!AcceptsUnexpired]_vars

(* restrictUser takes effect in the middleware of every request.           *)
RestrictedRefused == Plays("accounts") => Answering!Accounts!RestrictedRefused

(* restrictUser ends every session its user has, whatever of it failed.    *)
RestrictionCutsSessions == Plays("unreliable") => HalfDone!Accounts!RestrictionCutsSessions

(* The limiters of index.ts: logins and registrations have a stricter one. *)
AuthIsLimited == Plays("limits") => Limits!AuthIsLimited
==============================================================================
