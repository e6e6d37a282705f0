----------------------------- MODULE AccessProofs -----------------------------
(***************************************************************************)
(* Who may act, for any values of the constants of MCAccess: the rate      *)
(* limiters and the answers of HttpServer, the promise of CodeStore, and   *)
(* what the runs of MCAccess check, concluded from the theorems of its     *)
(* components: CredentialProofs, and the limiters' below.                  *)
(***************************************************************************)
EXTENDS MCAccess, TLAPS

VARIABLES live, made    \* of CodeStore

Store == INSTANCE CodeStore WITH NoCode <- None

------------------------------------------------------------------------------
(* HttpServer: the limiters and the answers.                              *)

\* Whatever a handler counted, its limiter counted too.
CountedByLimiter ==
    /\ hits \in [Limits!Limiters -> [Clients -> Nat]]
    /\ handled \in [Limits!Kinds -> [Clients -> Nat]]
    /\ \A c \in Clients :
           /\ handled["auth"][c] <= hits["auth"][c]
           /\ handled["webhook"][c] + handled["other"][c] <= hits["general"][c]
LimitInv == CountedByLimiter /\ Limits!AuthIsLimited

\* A limiter counts a request before it lets it through.
LEMMA CountsWithin ==
    ASSUME Limits!Assumptions, CountedByLimiter, NEW c \in Clients,
           NEW limiters \in SUBSET Limits!Limiters, Limits!Counts(limiters, c)
    PROVE  /\ hits' \in [Limits!Limiters -> [Clients -> Nat]]
           /\ \A l \in Limits!Limiters, d \in Clients :
                  /\ hits[l][d] <= hits'[l][d]
                  /\ (d = c /\ l \in limiters /\ ~Limits!Exceeded(l, c)) =>
                         hits'[l][d] = hits[l][d] + 1
<1> USE DEF Limits!Assumptions, Limits!Limiters
<1>1. {Limits!Limit("general"), Limits!Limit("auth")} \subseteq Nat
  BY DEF Limits!Limit
<1>2. \A l \in Limits!Limiters, d \in Clients :
        hits'[l][d] = IF d = c /\ l \in limiters /\ hits[l][d] <= Limits!Limit(l)
                      THEN hits[l][d] + 1 ELSE hits[l][d]
  BY DEF Limits!Counts, Limits!Counted, CountedByLimiter
<1>3. \A l \in Limits!Limiters, d \in Clients : hits[l][d] \in Nat
  BY DEF CountedByLimiter
<1>4. hits' \in [Limits!Limiters -> [Clients -> Nat]]
  <2>1. \A l \in Limits!Limiters : hits'[l] \in [Clients -> Nat]
    BY <1>1, <1>3 DEF Limits!Counts, Limits!Counted, CountedByLimiter
  <2> QED
    BY <2>1 DEF Limits!Counts
<1> QED
  BY <1>1, <1>2, <1>3, <1>4 DEF Limits!Exceeded

\* Every step keeps what was handled within what was counted.
LEMMA StepLimit ==
    ASSUME Limits!Assumptions, LimitInv, [Limits!Next]_(Limits!vars)
    PROVE  LimitInv'
<1> USE DEF LimitInv, Limits!AuthIsLimited
<1>1. CASE UNCHANGED Limits!vars
  BY <1>1 DEF Limits!vars, CountedByLimiter
<1>2. CASE Limits!Connect
  BY <1>2 DEF Limits!Connect, CountedByLimiter
<1>3. ASSUME NEW c \in Clients, NEW kind \in Limits!Kinds, Limits!Limited(c, kind) PROVE LimitInv'
  <2>1. PICK limiters \in SUBSET Limits!Limiters :
          Limits!Counts(limiters, c) /\ UNCHANGED handled
    BY <1>3 DEF Limits!Limited, Limits!Limiters
  <2>2. /\ hits' \in [Limits!Limiters -> [Clients -> Nat]]
        /\ \A l \in Limits!Limiters, d \in Clients : hits[l][d] <= hits'[l][d]
    BY <2>1, CountsWithin
  <2> QED
    BY <2>1, <2>2 DEF CountedByLimiter, Limits!Limiters, Limits!Kinds
<1>4. ASSUME NEW c \in Clients, NEW kind \in Limits!Kinds, NEW outcome, NEW code,
             Limits!Handled(c, kind, outcome, code)
      PROVE  LimitInv'
  <2> DEFINE L == Limits!LimitersOf(kind)
  <2>1. L \in SUBSET Limits!Limiters /\ \A l \in L : ~Limits!Exceeded(l, c)
    BY <1>4 DEF Limits!Handled, Limits!LimitersOf, Limits!Limiters
  <2>2. /\ hits' \in [Limits!Limiters -> [Clients -> Nat]]
        /\ \A l \in Limits!Limiters, d \in Clients : hits[l][d] <= hits'[l][d]
        /\ \A l \in L : hits'[l][c] = hits[l][c] + 1
    BY <1>4, <2>1, CountsWithin DEF Limits!Handled
  <2>3. \A l \in L : hits'[l][c] <= Limits!Limit(l)
    BY <2>1, <2>2 DEF Limits!Exceeded, Limits!Limit, Limits!Assumptions, CountedByLimiter,
                        Limits!Limiters
  <2>4. handled' \in [Limits!Kinds -> [Clients -> Nat]]
    BY <1>4 DEF Limits!Handled, CountedByLimiter
  <2>5. \A k \in Limits!Kinds, d \in Clients :
          handled'[k][d] = IF k = kind /\ d = c /\ kind # "health"
                           THEN handled[k][d] + 1 ELSE handled[k][d]
    BY <1>4 DEF Limits!Handled, CountedByLimiter
  <2>6. /\ kind \in {"webhook", "other", "auth"} => "general" \in L
        /\ kind = "auth" => "auth" \in L
    BY DEF Limits!LimitersOf
  <2>7. "auth" \in L => kind = "auth"
    BY DEF Limits!LimitersOf, Limits!Kinds
  <2> HIDE DEF L
  <2>8. \A d \in Clients : /\ handled'["auth"][d] <= hits'["auth"][d]
                           /\ handled'["auth"][d] <= AuthMax
    BY <2>2, <2>3, <2>5, <2>6
       DEF CountedByLimiter, Limits!Limiters, Limits!Kinds, Limits!Limit, Limits!Assumptions
  <2>9. \A d \in Clients :
          /\ handled'["webhook"][d] + handled'["other"][d] <= hits'["general"][d]
          /\ handled'["webhook"][d] + handled'["other"][d] <= GeneralMax
    <3> TAKE d \in Clients
    <3>1. CASE d = c /\ kind \in {"webhook", "other"}
      BY <3>1, <2>2, <2>3, <2>5, <2>6
         DEF CountedByLimiter, Limits!Limiters, Limits!Kinds, Limits!Limit, Limits!Assumptions
    <3>2. CASE ~(d = c /\ kind \in {"webhook", "other"})
      <4>1. handled'["webhook"][d] = handled["webhook"][d]
            /\ handled'["other"][d] = handled["other"][d]
        BY <3>2, <2>5 DEF Limits!Kinds
      <4> QED
        BY <4>1, <2>2 DEF CountedByLimiter, Limits!Limiters, Limits!Kinds, Limits!Assumptions
    <3> QED
      BY <3>1, <3>2
  <2> QED
    BY <2>2, <2>4, <2>8, <2>9 DEF CountedByLimiter
<1>5. ASSUME NEW l \in Limits!Limiters, NEW c \in Clients, Limits!WindowEnds(l, c) PROVE LimitInv'
  <2>1. hits' \in [Limits!Limiters -> [Clients -> Nat]]
    BY <1>5 DEF Limits!WindowEnds, CountedByLimiter
  <2>2. \A k \in Limits!Limiters, d \in Clients :
          hits'[k][d] = IF k = l /\ d = c THEN 0 ELSE hits[k][d]
    BY <1>5 DEF Limits!WindowEnds, CountedByLimiter
  <2>3. \A k \in Limits!Kinds, d \in Clients :
          handled'[k][d] = IF d = c /\ ((k = "auth") = (l = "auth")) THEN 0 ELSE handled[k][d]
    BY <1>5 DEF Limits!WindowEnds, CountedByLimiter
  <2>4. handled' \in [Limits!Kinds -> [Clients -> Nat]]
    <3>1. \A k \in Limits!Kinds : handled'[k] \in [Clients -> Nat]
      BY <1>5 DEF Limits!WindowEnds, CountedByLimiter
    <3> QED
      BY <1>5, <3>1 DEF Limits!WindowEnds
  <2>5. \A d \in Clients : /\ handled'["auth"][d] <= hits'["auth"][d]
                           /\ handled'["auth"][d] <= AuthMax
    BY <2>2, <2>3 DEF CountedByLimiter, Limits!Limiters, Limits!Kinds, Limits!Assumptions
  <2>6. \A d \in Clients :
          /\ handled'["webhook"][d] + handled'["other"][d] <= hits'["general"][d]
          /\ handled'["webhook"][d] + handled'["other"][d] <= GeneralMax
    BY <2>2, <2>3 DEF CountedByLimiter, Limits!Limiters, Limits!Kinds, Limits!Assumptions
  <2> QED
    BY <2>1, <2>4, <2>5, <2>6 DEF CountedByLimiter
<1> QED
  BY <1>1, <1>2, <1>3, <1>4, <1>5 DEF Limits!Next, Limits!Succeeds, Limits!Throws

\* Nothing was counted or handled at first.
LEMMA InitLimit ==
    ASSUME Limits!Assumptions, Limits!Init
    PROVE  LimitInv
BY DEF Limits!Assumptions, Limits!Init, LimitInv, CountedByLimiter, Limits!AuthIsLimited,
       Limits!Limiters, Limits!Kinds

(* "Auth routes have stricter rate limits than general API routes": within *)
(* a window a client gets no more logins and registrations handled than the*)
(* auth limiter allows, nor more of the rest than the general one allows,  *)
(* for any clients and limits.                                             *)
THEOREM RequestsAreLimited ==
    ASSUME Limits!Assumptions
    PROVE  Limits!Spec => []Limits!AuthIsLimited
<1>1. Limits!Init => LimitInv
  BY InitLimit
<1>2. LimitInv /\ [Limits!Next]_(Limits!vars) => LimitInv'
  BY StepLimit
<1>3. LimitInv => Limits!AuthIsLimited
  BY DEF LimitInv
<1> QED
  BY <1>1, <1>2, <1>3, PTL DEF Limits!Spec

\* Each step answers with a status, and the health check well.
LEMMA StepAnswers ==
    ASSUME Limits!Assumptions, Limits!TypeOK, Limits!HealthIsAnswered, LimitInv, LimitInv',
           [Limits!Next]_(Limits!vars)
    PROVE  Limits!TypeOK' /\ Limits!HealthIsAnswered'
<1> USE DEF Limits!TypeOK, Limits!HealthIsAnswered
<1>1. handled' \in [Limits!Kinds -> [Clients -> Nat]]
  BY DEF LimitInv, CountedByLimiter
<1>2. ASSUME NEW c \in Clients, NEW limiters \in SUBSET Limits!Limiters, Limits!Counts(limiters, c)
      PROVE  /\ hits'["general"] \in [Clients -> 0 .. GeneralMax + 1]
             /\ hits'["auth"] \in [Clients -> 0 .. AuthMax + 1]
  BY <1>2 DEF Limits!Assumptions, Limits!Counts, Limits!Counted, Limits!Limit, Limits!Limiters
<1>3. CASE UNCHANGED Limits!vars
  BY <1>3 DEF Limits!vars
<1>4. CASE Limits!Connect
  BY <1>4 DEF Limits!Connect
<1>5. ASSUME NEW c \in Clients, NEW kind \in Limits!Kinds, Limits!Limited(c, kind)
      PROVE  Limits!TypeOK' /\ Limits!HealthIsAnswered'
  <2>1. kind # "health"
    BY <1>5 DEF Limits!Limited, Limits!LimitersOf
  <2>2. PICK limiters \in SUBSET Limits!Limiters : Limits!Counts(limiters, c)
    BY <1>5 DEF Limits!Limited, Limits!Limiters
  <2>3. /\ answer' = [client |-> c, kind |-> kind, outcome |-> "limited", status |-> 429]
        /\ UNCHANGED <<database, jobs>>
    BY <1>5 DEF Limits!Limited
  <2> QED
    BY <1>1, <1>2, <2>1, <2>2, <2>3 DEF Limits!Answer
<1>6. ASSUME NEW c \in Clients, NEW kind \in Limits!Kinds, Limits!Succeeds(c, kind)
      PROVE  Limits!TypeOK' /\ Limits!HealthIsAnswered'
  <2>1. PICK code \in {200, 201} : Limits!Handled(c, kind, "ok", code)
    BY <1>6 DEF Limits!Succeeds
  <2>2. Limits!LimitersOf(kind) \in SUBSET Limits!Limiters
    BY DEF Limits!LimitersOf, Limits!Limiters
  <2>3. /\ answer' = [client |-> c, kind |-> kind, outcome |-> "ok", status |-> code]
        /\ Limits!Counts(Limits!LimitersOf(kind), c)
        /\ UNCHANGED <<database, jobs>>
    BY <2>1 DEF Limits!Handled
  <2> QED
    BY <1>1, <1>2, <2>2, <2>3 DEF Limits!Answer
<1>7. ASSUME NEW c \in Clients, NEW kind \in Limits!Kinds, Limits!Throws(c, kind)
      PROVE  Limits!TypeOK' /\ Limits!HealthIsAnswered'
  <2>1. PICK error \in Limits!Errors :
          \E code \in Limits!ErrorStatuses(kind, error) : Limits!Handled(c, kind, error, code)
    BY <1>7 DEF Limits!Throws
  <2> PICK code \in Limits!ErrorStatuses(kind, error) : Limits!Handled(c, kind, error, code)
    BY <2>1
  <2>2. code \in {200, 400, 401, 403, 404, 409, 422, 500}
    BY DEF Limits!ErrorStatuses, Limits!Status
  <2>3. Limits!LimitersOf(kind) \in SUBSET Limits!Limiters
    BY DEF Limits!LimitersOf, Limits!Limiters
  <2>4. /\ answer' = [client |-> c, kind |-> kind, outcome |-> error, status |-> code]
        /\ Limits!Counts(Limits!LimitersOf(kind), c)
        /\ UNCHANGED <<database, jobs>>
    BY DEF Limits!Handled
  <2>5. answer' \in Limits!Answer /\ answer'.kind = kind
    BY <2>2, <2>4 DEF Limits!Answer
  <2>6. kind # "health"
    BY <1>7 DEF Limits!Throws
  <2> QED
    BY <1>1, <1>2, <2>3, <2>4, <2>5, <2>6
<1>8. ASSUME NEW l \in Limits!Limiters, NEW c \in Clients, Limits!WindowEnds(l, c)
      PROVE  Limits!TypeOK' /\ Limits!HealthIsAnswered'
  <2>1. /\ hits'["general"] \in [Clients -> 0 .. GeneralMax + 1]
        /\ hits'["auth"] \in [Clients -> 0 .. AuthMax + 1]
    BY <1>8 DEF Limits!Assumptions, Limits!WindowEnds, Limits!Limiters, LimitInv, CountedByLimiter
  <2> QED
    BY <1>1, <1>8, <2>1 DEF Limits!WindowEnds
<1> QED
  BY <1>3, <1>4, <1>5, <1>6, <1>7, <1>8 DEF Limits!Next

(* "Open 24/7 Keep-Alive Health Check": the health check answers well,     *)
(* whatever the client used up and whatever the database does, and every   *)
(* error of every handler has one of the statuses of errorResponseStandard,*)
(* or 200 when it is the webhook's.                                        *)
THEOREM HealthAlwaysAnswers ==
    ASSUME Limits!Assumptions
    PROVE  Limits!Spec => [](Limits!TypeOK /\ Limits!HealthIsAnswered)
<1> DEFINE Inv == Limits!TypeOK /\ Limits!HealthIsAnswered /\ LimitInv
<1>1. Limits!Init => Inv
  <2>1. Limits!Init => LimitInv
    BY InitLimit
  <2>2. Limits!Init => Limits!TypeOK /\ Limits!HealthIsAnswered
    <3>1. 0 \in 0 .. GeneralMax + 1 /\ 0 \in 0 .. AuthMax + 1
      BY DEF Limits!Assumptions
    <3>2. Limits!Init => /\ hits["general"] = [c \in Clients |-> 0]
                      /\ hits["auth"] = [c \in Clients |-> 0]
      BY DEF Limits!Init, Limits!Limiters
    <3>3. Limits!Init => handled \in [Limits!Kinds -> [Clients -> Nat]]
      BY DEF Limits!Init
    <3>4. Limits!Init => jobs \in BOOLEAN
      BY DEF Limits!Init
    <3>5. Limits!Init => Limits!HealthIsAnswered
      BY DEF Limits!Init, Limits!HealthIsAnswered
    <3>6. /\ [c \in Clients |-> 0] \in [Clients -> 0 .. GeneralMax + 1]
          /\ [c \in Clients |-> 0] \in [Clients -> 0 .. AuthMax + 1]
      BY <3>1
    <3> QED
      BY <3>2, <3>3, <3>4, <3>5, <3>6 DEF Limits!Init, Limits!TypeOK
  <2> QED
    BY <2>1, <2>2
<1>2. Inv /\ [Limits!Next]_(Limits!vars) => Inv'
  BY StepLimit, StepAnswers
<1> QED
  BY <1>1, <1>2, PTL DEF Limits!Spec

------------------------------------------------------------------------------
(* CodeStore: what a store of one-time codes promises.                     *)
\* A store begins empty.
LEMMA InitStore ==
    ASSUME Store!NoCodeAssumption, Store!Init
    PROVE  Store!IInv
BY DEF Store!NoCodeAssumption, Store!Init, Store!IInv, Store!TypeOK, Store!LiveIsFresh,
       Store!UsedOnce

\* A code is made once, so it is fresh when it goes live.
LEMMA IssueStore ==
    ASSUME Store!NoCodeAssumption, Store!IInv, NEW k \in Keys, NEW c \in Codes, Store!Issue(k, c)
    PROVE  Store!IInv'
<1> USE DEF Store!NoCodeAssumption, Store!IInv, Store!Issue
<1>1. Store!TypeOK'
  BY DEF Store!TypeOK
<1>2. Store!LiveIsFresh'
  <2>1. \A l \in Keys : live'[l] = IF l = k THEN c ELSE live[l]
    BY DEF Store!TypeOK
  <2> QED
    BY <2>1 DEF Store!TypeOK, Store!LiveIsFresh
<1>3. Store!UsedOnce'
  BY DEF Store!UsedOnce
<1> QED
  BY <1>1, <1>2, <1>3

\* The code a use accepts is unused, and no other key has it.
LEMMA UseStore ==
    ASSUME Store!NoCodeAssumption, Store!IInv, NEW k \in Keys, Store!Use(k)
    PROVE  Store!IInv'
<1> USE DEF Store!NoCodeAssumption, Store!IInv, Store!Use
<1>1. live[k] \in Codes /\ uses[live[k]] = 0 /\ live[k] \in made
  BY DEF Store!TypeOK, Store!LiveIsFresh
<1>2. \A c \in Codes : uses'[c] = IF c = live[k] THEN 1 ELSE uses[c]
  BY <1>1 DEF Store!TypeOK
<1>3. \A l \in Keys : live'[l] = IF l = k THEN None ELSE live[l]
  BY DEF Store!TypeOK
<1>4. Store!TypeOK'
  BY <1>1, <1>2 DEF Store!TypeOK
<1>5. Store!LiveIsFresh'
  <2>1. \A l \in Keys : live'[l] # None => live'[l] \in Codes /\ live'[l] # live[k]
    BY <1>3 DEF Store!TypeOK, Store!LiveIsFresh
  <2> QED
    BY <1>1, <1>2, <1>3, <2>1 DEF Store!TypeOK, Store!LiveIsFresh
<1>6. Store!UsedOnce'
  BY <1>1, <1>2 DEF Store!UsedOnce
<1> QED
  BY <1>4, <1>5, <1>6

\* What is lost or expires is not live, and stays made.
LEMMA ExpireStore ==
    ASSUME Store!NoCodeAssumption, Store!IInv, NEW some \in SUBSET Keys, Store!Expire(some)
    PROVE  Store!IInv'
<1> USE DEF Store!NoCodeAssumption, Store!IInv, Store!Expire
<1>1. \A l \in Keys : live'[l] = IF l \in some THEN None ELSE live[l]
  OBVIOUS
<1> QED
  BY <1>1 DEF Store!TypeOK, Store!LiveIsFresh, Store!UsedOnce

\* A dropped code leaves the others as they are.
LEMMA DropStore ==
    ASSUME Store!NoCodeAssumption, Store!IInv, NEW c \in Codes, Store!Drop(c)
    PROVE  Store!IInv'
BY DEF Store!IInv, Store!Drop, Store!TypeOK, Store!LiveIsFresh, Store!UsedOnce

(* The store's codes are one-time codes: no code is ever accepted twice,   *)
(* whatever keys and codes there are, if the empty mark is none of them.   *)
THEOREM OneTime ==
    ASSUME Store!NoCodeAssumption
    PROVE  Store!Spec => []Store!UsedOnce
<1>1. Store!Init => Store!IInv
  BY InitStore
<1>2. Store!IInv /\ [Store!Next]_(Store!vars) => Store!IInv'
  <2> SUFFICES ASSUME Store!IInv, [Store!Next]_(Store!vars) PROVE Store!IInv'
    OBVIOUS
  <2>1. CASE UNCHANGED Store!vars
    BY <2>1 DEF Store!IInv, Store!TypeOK, Store!LiveIsFresh, Store!UsedOnce, Store!vars
  <2>2. CASE Store!Next
    BY <2>2, IssueStore, UseStore, ExpireStore, DropStore DEF Store!Next
  <2> QED
    BY <2>1, <2>2
<1>3. Store!IInv => Store!UsedOnce
  BY DEF Store!IInv
<1> QED
  BY <1>1, <1>2, <1>3, PTL DEF Store!Spec

------------------------------------------------------------------------------
(* The scenarios of MCAccess: a behaviour plays one of them from beginning *)
(* to end, and is then a behaviour of its component.                       *)
LEMMA CodesPlay ==
    Spec => \/ Plays("codes") /\ Answering!Spec
            \/ []~Plays("codes")
<1>1. Init /\ Plays("codes") => Answering!Init
  BY DEF Init, Plays
<1>2. [Next]_vars /\ Plays("codes") => [Answering!Next]_(Answering!vars)
  BY DEF Next, Plays, vars, otpVars, Answering!vars
<1>3. [Next]_vars => (Plays("codes")' <=> Plays("codes"))
  BY DEF Next, Plays, vars
<1> QED
  BY <1>1, <1>2, <1>3, PTL DEF Spec, Answering!Spec

\* The same of the other scenarios.
LEMMA HalfStoredPlay ==
    Spec => \/ Plays("halfStored") /\ HalfDone!Spec
            \/ []~Plays("halfStored")
<1>1. Init /\ Plays("halfStored") => HalfDone!Init
  BY DEF Init, Plays
<1>2. [Next]_vars /\ Plays("halfStored") => [HalfDone!Next]_(HalfDone!vars)
  BY DEF Next, Plays, vars, otpVars, HalfDone!vars
<1>3. [Next]_vars => (Plays("halfStored")' <=> Plays("halfStored"))
  BY DEF Next, Plays, vars
<1> QED
  BY <1>1, <1>2, <1>3, PTL DEF Spec, HalfDone!Spec

LEMMA OutagePlay ==
    Spec => \/ Plays("outage") /\ Outage!Spec
            \/ []~Plays("outage")
<1>1. Init /\ Plays("outage") => Outage!Init
  BY DEF Init, Plays
<1>2. [Next]_vars /\ Plays("outage") => [Outage!Next]_(Outage!vars)
  BY DEF Next, Plays, vars, otpVars, Outage!vars
<1>3. [Next]_vars => (Plays("outage")' <=> Plays("outage"))
  BY DEF Next, Plays, vars
<1> QED
  BY <1>1, <1>2, <1>3, PTL DEF Spec, Outage!Spec

LEMMA AccountsPlay ==
    Spec => \/ Plays("accounts") /\ Answering!Accounts!Spec
            \/ []~Plays("accounts")
<1>1. Init /\ Plays("accounts") => Answering!Accounts!Init
  BY DEF Init, Plays
<1>2. [Next]_vars /\ Plays("accounts") => [Answering!Accounts!Next]_(Answering!Accounts!vars)
  BY DEF Next, Plays, vars, accountVars, Answering!Accounts!vars
<1>3. [Next]_vars => (Plays("accounts")' <=> Plays("accounts"))
  BY DEF Next, Plays, vars
<1> QED
  BY <1>1, <1>2, <1>3, PTL DEF Spec, Answering!Accounts!Spec

LEMMA UnreliablePlay ==
    Spec => \/ Plays("unreliable") /\ HalfDone!Accounts!Spec
            \/ []~Plays("unreliable")
<1>1. Init /\ Plays("unreliable") => HalfDone!Accounts!Init
  BY DEF Init, Plays
<1>2. [Next]_vars /\ Plays("unreliable") => [HalfDone!Accounts!Next]_(HalfDone!Accounts!vars)
  BY DEF Next, Plays, vars, accountVars, HalfDone!Accounts!vars
<1>3. [Next]_vars => (Plays("unreliable")' <=> Plays("unreliable"))
  BY DEF Next, Plays, vars
<1> QED
  BY <1>1, <1>2, <1>3, PTL DEF Spec, HalfDone!Accounts!Spec

LEMMA LimitsPlay ==
    Spec => \/ Plays("limits") /\ Limits!Spec
            \/ []~Plays("limits")
<1>1. Init /\ Plays("limits") => Limits!Init
  BY DEF Init, Plays
<1>2. [Next]_vars /\ Plays("limits") => [Limits!Next]_(Limits!vars)
  BY DEF Next, Plays, vars, httpVars, Limits!vars
<1>3. [Next]_vars => (Plays("limits")' <=> Plays("limits"))
  BY DEF Next, Plays, vars
<1> QED
  BY <1>1, <1>2, <1>3, PTL DEF Spec, Limits!Spec

(* Every store, row, handler and answer of the three components keeps its  *)
(* type, for any keys, codes, users, tokens, clients and limits, and any   *)
(* number of requests.                                                     *)
THEOREM TypeCorrect ==
    ASSUME Assumptions
    PROVE  Spec => []TypeOK
<1>1. /\ Answering!Spec => []Answering!TypeOK
      /\ HalfDone!Spec => []HalfDone!TypeOK
      /\ Outage!Spec => []Outage!TypeOK
  BY Answering!TypeCorrect, HalfDone!TypeCorrect, Outage!TypeCorrect DEF Assumptions
<1>2. /\ Answering!Accounts!Spec => []Answering!Accounts!TypeOK
      /\ HalfDone!Accounts!Spec => []HalfDone!Accounts!TypeOK
  BY Answering!AccountTypeCorrect, HalfDone!AccountTypeCorrect DEF Assumptions
<1>3. Limits!Spec => [](Limits!TypeOK /\ Limits!HealthIsAnswered)
  BY HealthAlwaysAnswers DEF Assumptions
<1> QED
  BY <1>1, <1>2, <1>3, CodesPlay, HalfStoredPlay, OutagePlay, AccountsPlay, UnreliablePlay,
     LimitsPlay, PTL DEF TypeOK

(* storeOTP puts the newest code of a key where verifyOTP looks first,     *)
(* until it is used or expires, restarts included, as long as Redis        *)
(* answers: for any keys, codes and lifetimes.                             *)
THEOREM NewestIsFound ==
    ASSUME Assumptions
    PROVE  Spec => []MailedCodeAccepted
<1>1. Answering!Spec => []Answering!MailedCodeAccepted
  BY Answering!NewestIsFound DEF Assumptions
<1> QED
  BY <1>1, CodesPlay, PTL DEF MailedCodeAccepted

(* storeOTP and verifyOTP, with Redis and the Map they fall back to, do to *)
(* a code what the store of one-time codes of CodeStore may do.            *)
THEOREM CodesAreStored ==
    ASSUME Assumptions
    PROVE  Spec => ImplementsCodeStore
<1>1. Answering!Spec => Answering!Abstract!Spec
  BY Answering!ImplementsCodeStore DEF Assumptions
<1> QED
  BY <1>1, CodesPlay, PTL DEF ImplementsCodeStore, Answering!Abstract!Spec

(* verifyOTP accepts no code that a newer one replaced, however half the   *)
(* newer one was stored; and none whose ten minutes are over, although     *)
(* Redis refuses commands, as long as no copy of SET is left without its   *)
(* EXPIRE (EXPIRE refused, or SET applied but its answer lost).            *)
THEOREM StaleIsRefused ==
    ASSUME Assumptions
    PROVE  Spec => StaleCodeRefused
<1>1. HalfDone!Spec => [][HalfDone!AcceptsNewest]_HalfDone!vars
  BY HalfDone!OnlyNewestAccepted DEF Assumptions
<1>2. Outage!Spec => [][Outage!AcceptsUnexpired]_Outage!vars
  BY Outage!OnlyUnexpiredAccepted DEF Assumptions
<1>3. /\ UNCHANGED HalfDone!vars => HalfDone!AcceptsNewest
      /\ UNCHANGED Outage!vars => Outage!AcceptsUnexpired
  BY DEF HalfDone!vars, HalfDone!AcceptsNewest, HalfDone!Accepts, HalfDone!At,
         Outage!vars, Outage!AcceptsUnexpired, Outage!Accepts, Outage!At
<1> QED
  BY <1>1, <1>2, <1>3, HalfStoredPlay, OutagePlay, PTL DEF StaleCodeRefused

(* restrictUser takes effect in the middleware of every request once it    *)
(* has answered, although a lost SREM is only logged.                      *)
THEOREM RestrictedIsRefused ==
    ASSUME Assumptions
    PROVE  Spec => []RestrictedRefused
<1>1. Answering!Accounts!Spec => []Answering!Accounts!RestrictedRefused
  BY Answering!RestrictionIsAnnounced DEF Assumptions
<1> QED
  BY <1>1, AccountsPlay, PTL DEF RestrictedRefused

(* restrictUser ends every session its user has, whatever of it failed.    *)
THEOREM SessionsAreCut ==
    ASSUME Assumptions
    PROVE  Spec => []RestrictionCutsSessions
<1>1. HalfDone!Accounts!Spec => []HalfDone!Accounts!RestrictionCutsSessions
  BY HalfDone!RestrictionIsFinal DEF Assumptions
<1> QED
  BY <1>1, UnreliablePlay, PTL DEF RestrictionCutsSessions

(* The limiters of index.ts, as RequestsAreLimited has it.                 *)
THEOREM LoginsAreLimited ==
    ASSUME Assumptions
    PROVE  Spec => []AuthIsLimited
<1>1. Limits!Spec => []Limits!AuthIsLimited
  BY RequestsAreLimited DEF Assumptions
<1> QED
  BY <1>1, LimitsPlay, PTL DEF AuthIsLimited
==============================================================================
