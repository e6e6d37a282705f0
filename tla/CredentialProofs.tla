--------------------------- MODULE CredentialProofs ---------------------------
(***************************************************************************)
(* What a one-time code (OtpStore) and a session (Account) are worth, for  *)
(* any values of the constants, when handlers do not overlap.  The two     *)
(* share no state but the requests, so each part is about one of them.     *)
(***************************************************************************)
EXTENDS OtpStore, TLAPS

CONSTANTS
    Users, Tokens, Failures, None,    \* of Account
    Losing                            \* its Failing

VARIABLES account, coded, holder, valid, cut, access, restricted

Accounts == INSTANCE Account WITH Failing <- Losing

------------------------------------------------------------------------------
(* OtpStore.  Which failures of Redis leave a code a one-time code, the    *)
(* only one of its key, no older than its ten minutes and, with Redis      *)
(* answering, the code of an abstract CodeStore.  Each action is summed up *)
(* once, point by point (SetStep and those after it), and every invariant  *)
(* is proved from the summaries.                                           *)

Has(q, stage, k, c) == request[q] = [at |-> stage, key |-> k, code |-> c]
Others(q) == \A r \in Requests : r # q => request'[r] = request[r]
Awaited == Commands \cup {"mail"}

\* An open handler remembers its key and its code.
LEMMA Remembers ==
    ASSUME TypeOK, NEW q \in Requests
    PROVE  \/ request[q] = Idle /\ request[q].at = "idle"
           \/ /\ request[q].at \in Awaited
              /\ \E k \in Keys, c \in Codes : Has(q, request[q].at, k, c)
BY DEF TypeOK, RequestState, Idle, Awaited, Has

\* How a handler opens, goes on and closes.
LEMMA Opened ==
    ASSUME TypeOK, NEW q \in Requests, NEW stage \in Awaited, NEW k \in Keys, NEW c \in Codes,
           request' = [request EXCEPT ![q] = [at |-> stage, key |-> k, code |-> c]]
    PROVE  Has(q, stage, k, c)' /\ Others(q) /\ request' \in [Requests -> RequestState]
BY DEF TypeOK, RequestState, Awaited, Has, Others

LEMMA Gone ==
    ASSUME TypeOK, NEW q \in Requests, NEW stage, NEW k \in Keys, NEW c \in Codes,
           Has(q, stage, k, c), NEW next \in Awaited, Goes(q, next)
    PROVE  Has(q, next, k, c)' /\ Others(q) /\ request' \in [Requests -> RequestState]
<1>1. [request[q] EXCEPT !.at = next] = [at |-> next, key |-> k, code |-> c]
  BY DEF Has
<1>2. request' = [request EXCEPT ![q] = [at |-> next, key |-> k, code |-> c]]
  BY <1>1 DEF Goes
<1> QED
  BY <1>2, Opened

LEMMA Closed ==
    ASSUME TypeOK, NEW q \in Requests, Closes(q)
    PROVE  request'[q] = Idle /\ Others(q) /\ request' \in [Requests -> RequestState]
BY DEF Closes, TypeOK, RequestState, Others

------------------------------------------------------------------------------
(* The actions, point by point.                                            *)
LEMMA SendStep ==
    ASSUME TypeOK, NEW q \in Requests, NEW k \in Keys, NEW c \in Codes, SendOtp(q, k, c)
    PROVE  /\ MayOpen(q) /\ Has(q, "set", k, c)' /\ Others(q)
           /\ request' \in [Requests -> RequestState]
           /\ owner[c] = NoKey /\ owner'[c] = k
           /\ \A d \in Codes : d < c => owner[d] # NoKey
           /\ \A d \in Codes : d # c => owner'[d] = owner[d]
           /\ owner' \in [Codes -> Keys \cup {NoKey}]
           /\ UNCHANGED <<redis, memory, mailed, stored, uses>>
<1>1. "set" \in Awaited
  BY DEF Awaited, Commands
<1> QED
  BY <1>1, Opened DEF SendOtp, TypeOK

LEMMA VerifyStep ==
    ASSUME TypeOK, NEW q \in Requests, NEW k \in Keys, NEW c \in Codes, VerifyOtp(q, k, c)
    PROVE  /\ MayOpen(q) /\ Has(q, "get", k, c)' /\ Others(q)
           /\ request' \in [Requests -> RequestState]
           /\ UNCHANGED <<redis, memory, owner, mailed, stored, uses>>
<1>1. "get" \in Awaited
  BY DEF Awaited, Commands
<1> QED
  BY <1>1, Opened DEF VerifyOtp

LEMMA SetStep ==
    ASSUME Assumptions, TypeOK, NEW q \in Requests, RedisSet(q)
    PROVE  \E k \in Keys, c \in Codes :
               /\ Has(q, "set", k, c) /\ Has(q, "expire", k, c)' /\ Others(q)
               /\ request' \in [Requests -> RequestState]
               /\ redis'[k] = [code |-> c, left |-> Forever]
               /\ \A l \in Keys : l # k => redis'[l] = redis[l]
               /\ redis' \in [Keys -> Entries]
               /\ UNCHANGED <<memory, owner, mailed, stored, uses>>
<1>1. PICK k \in Keys, c \in Codes : Has(q, "set", k, c)
  BY Remembers DEF RedisSet, At
<1>2. Has(q, "expire", k, c)' /\ Others(q) /\ request' \in [Requests -> RequestState]
  BY <1>1, Gone DEF RedisSet, Awaited, Commands
<1>3. [code |-> c, left |-> Forever] \in Entries
  BY DEF Assumptions, Entries, Forever
<1>4. redis' = [redis EXCEPT ![k] = [code |-> c, left |-> Forever]]
  BY <1>1 DEF RedisSet, Set, Has
<1> QED
  BY <1>1, <1>2, <1>3, <1>4 DEF RedisSet, TypeOK

\* storeOTP returns: the code's ten minutes begin.
Returned(q, k, c) ==
    /\ request'[q] = Idle \/ Has(q, "mail", k, c)'
    /\ Others(q) /\ request' \in [Requests -> RequestState]
    /\ stored'[c] = 0 /\ \A d \in Codes : d # c => stored'[d] = stored[d]
    /\ stored' \in [Codes -> 0..Never]
    /\ UNCHANGED <<owner, mailed, uses>>
LEMMA ReturnStep ==
    ASSUME Assumptions, TypeOK, NEW q \in Requests, NEW stage, NEW k \in Keys, NEW c \in Codes,
           Has(q, stage, k, c), StoreReturns(q)
    PROVE  Returned(q, k, c)
<1>1. /\ request'[q] = Idle \/ Has(q, "mail", k, c)'
      /\ Others(q) /\ request' \in [Requests -> RequestState]
  <2>1. CASE Goes(q, "mail")
    <3>1. "mail" \in Awaited
      BY DEF Awaited
    <3> QED
      BY <2>1, <3>1, Gone
  <2>2. CASE Closes(q)
    BY <2>2, Closed
  <2> QED
    BY <2>1, <2>2 DEF StoreReturns
<1>2. request[q].code = c
  BY DEF Has
<1>3. stored' = [stored EXCEPT ![c] = 0] /\ 0 \in 0..Never
  BY <1>2 DEF StoreReturns, Never, Assumptions
<1> QED
  BY <1>1, <1>3 DEF Returned, StoreReturns, TypeOK

LEMMA ExpireStep ==
    ASSUME Assumptions, TypeOK, NEW q \in Requests, RedisExpire(q)
    PROVE  \E k \in Keys, c \in Codes :
               /\ Has(q, "expire", k, c) /\ Returned(q, k, c)
               /\ redis'[k].code = redis[k].code
               /\ redis'[k].left = IF redis[k].code = NoCode THEN 0 ELSE TTL
               /\ \A l \in Keys : l # k => redis'[l] = redis[l]
               /\ redis' \in [Keys -> Entries]
               /\ UNCHANGED memory
<1>1. PICK k \in Keys, c \in Codes : Has(q, "expire", k, c)
  BY Remembers DEF RedisExpire, At
<1>2. Returned(q, k, c)
  BY <1>1, ReturnStep DEF RedisExpire
<1>3. redis' = [redis EXCEPT ![k].left = IF redis[k].code = NoCode THEN 0 ELSE TTL]
  BY <1>1 DEF RedisExpire, ExpireSoon, Has
<1>4. redis \in [Keys -> Entries] /\ TTL \in 0..Forever /\ 0 \in 0..Forever
  BY DEF Assumptions, TypeOK, Forever
<1> QED
  BY <1>1, <1>2, <1>3, <1>4 DEF RedisExpire, Entries

\* What a SET or an EXPIRE that threw has done to its key.
Threw(stage, k, c) ==
    \/ stage \in Failing /\ redis'[k] = redis[k]
    \/ /\ stage = "set" /\ "set" \in Unanswered
       /\ redis'[k] = [code |-> c, left |-> Forever]
    \/ /\ stage = "expire" /\ "expire" \in Unanswered
       /\ redis'[k].code = redis[k].code
       /\ redis'[k].left = IF redis[k].code = NoCode THEN 0 ELSE TTL
LEMMA ThrowStep ==
    ASSUME Assumptions, TypeOK, NEW q \in Requests, Throws(q),
           NEW k \in Keys, NEW c \in Codes, NEW stage, Has(q, stage, k, c)
    PROVE  /\ stage \in {"set", "expire"} /\ Threw(stage, k, c)
           /\ \A l \in Keys : l # k => redis'[l] = redis[l]
           /\ redis' \in [Keys -> Entries]
<1>1. request[q].at = stage /\ request[q].key = k /\ request[q].code = c
  BY DEF Has
<1>2. redis \in [Keys -> Entries] /\ TTL \in 0..Forever /\ 0 \in 0..Forever
      /\ [code |-> c, left |-> Forever] \in Entries
  BY DEF Assumptions, TypeOK, Forever, Entries
<1>3. CASE stage \in {"set", "expire"} \cap Failing /\ UNCHANGED redis
  BY <1>2, <1>3 DEF Threw
<1>4. CASE /\ stage = "set" /\ "set" \in Unanswered
           /\ redis' = [redis EXCEPT ![k] = [code |-> c, left |-> Forever]]
  BY <1>2, <1>4 DEF Threw
<1>5. CASE /\ stage = "expire" /\ "expire" \in Unanswered
           /\ redis' = [redis EXCEPT ![k].left = IF redis[k].code = NoCode THEN 0 ELSE TTL]
  BY <1>2, <1>5 DEF Threw, Entries
<1> QED
  BY <1>1, <1>3, <1>4, <1>5 DEF Throws, At, Set, ExpireSoon

LEMMA FallBackStep ==
    ASSUME Assumptions, TypeOK, NEW q \in Requests, FallBack(q)
    PROVE  \E k \in Keys, c \in Codes, stage \in {"set", "expire"} :
               /\ Has(q, stage, k, c) /\ Returned(q, k, c) /\ Threw(stage, k, c)
               /\ \A l \in Keys : l # k => redis'[l] = redis[l]
               /\ redis' \in [Keys -> Entries]
               /\ memory'[k] = [code |-> c, left |-> TTL]
               /\ \A l \in Keys : l # k => memory'[l] = memory[l]
               /\ memory' \in [Keys -> Entries]
<1>1. PICK k \in Keys, c \in Codes : Has(q, request[q].at, k, c)
  BY Remembers DEF FallBack, Throws, At
<1>2. Returned(q, k, c)
  BY <1>1, ReturnStep DEF FallBack
<1>3. request[q].key = k /\ request[q].code = c
  BY <1>1 DEF Has
<1>4. memory' = [memory EXCEPT ![k] = [code |-> c, left |-> TTL]]
  BY <1>3 DEF FallBack
<1>5. [code |-> c, left |-> TTL] \in Entries
  BY DEF Assumptions, Entries, Forever
<1>6. /\ memory'[k] = [code |-> c, left |-> TTL]
      /\ \A l \in Keys : l # k => memory'[l] = memory[l]
      /\ memory' \in [Keys -> Entries]
  BY <1>4, <1>5 DEF TypeOK
<1>7. /\ request[q].at \in {"set", "expire"} /\ Threw(request[q].at, k, c)
      /\ \A l \in Keys : l # k => redis'[l] = redis[l]
      /\ redis' \in [Keys -> Entries]
  BY <1>1, ThrowStep DEF FallBack
<1> QED
  BY <1>1, <1>2, <1>6, <1>7

LEMMA MailStep ==
    ASSUME TypeOK, NEW q \in Requests, MailStored(q)
    PROVE  /\ request[q].at = "mail" /\ request'[q] = Idle /\ Others(q)
           /\ request' \in [Requests -> RequestState]
           /\ mailed \subseteq mailed' /\ mailed' \subseteq Codes
           /\ UNCHANGED <<redis, memory, owner, stored, uses>>
<1>1. PICK k \in Keys, c \in Codes : Has(q, "mail", k, c)
  BY Remembers DEF MailStored, At
<1>2. request[q].code = c
  BY <1>1 DEF Has
<1> QED
  BY <1>2, Closed DEF MailStored, At, TypeOK

\* What a verification may find: what Redis has, or else the memory; and the
\* memory alone when Redis does not answer.
Finds(k, c) ==
    \/ redis[k].code = c
    \/ memory[k].left > 0 /\ memory[k].code = c /\ (redis[k].code = NoCode \/ "get" \in Failing)
LEMMA GetStep ==
    ASSUME Assumptions, TypeOK, NEW q \in Requests, RedisGet(q)
    PROVE  \E k \in Keys, c \in Codes :
               /\ Has(q, "get", k, c)
               /\ request'[q] = Idle \/ (Has(q, "del", k, c)' /\ Finds(k, c))
               /\ Others(q) /\ request' \in [Requests -> RequestState]
               /\ UNCHANGED <<redis, memory, owner, mailed, stored, uses>>
<1>1. PICK k \in Keys, c \in Codes : Has(q, "get", k, c)
  BY Remembers DEF RedisGet, At
<1>2. request[q].key = k /\ request[q].code = c
  BY <1>1 DEF Has
<1>3. PICK found : Compare(q, found)
                   /\ (found = Found(k) \/ ("get" \in Failing /\ found = Fallback(k)))
  BY <1>2 DEF RedisGet
<1>4. CASE found = c
  <2>1. Has(q, "del", k, c)' /\ Others(q) /\ request' \in [Requests -> RequestState]
    BY <1>1, <1>2, <1>3, <1>4, Gone DEF Compare, Awaited, Commands
  <2>2. Finds(k, c)
    BY <1>3, <1>4 DEF Finds, Found, Fallback, Assumptions
  <2> QED
    BY <1>1, <1>3, <2>1, <2>2 DEF Compare
<1>5. CASE found # c
  BY <1>1, <1>2, <1>3, <1>5, Closed DEF Compare
<1> QED
  BY <1>4, <1>5

LEMMA DelStep ==
    ASSUME Assumptions, TypeOK, NEW q \in Requests, RedisDel(q)
    PROVE  \E k \in Keys, c \in Codes :
               /\ Has(q, "del", k, c) /\ request'[q] = Idle /\ Others(q)
               /\ request' \in [Requests -> RequestState]
               /\ \/ redis'[k] = Nothing /\ \A l \in Keys : l # k => redis'[l] = redis[l]
                  \/ "del" \in Failing /\ UNCHANGED redis
               /\ redis' \in [Keys -> Entries]
               /\ memory'[k] = Nothing /\ \A l \in Keys : l # k => memory'[l] = memory[l]
               /\ memory' \in [Keys -> Entries]
               /\ uses'[c] = IF uses[c] < MaxUses THEN uses[c] + 1 ELSE uses[c]
               /\ \A d \in Codes : d # c => uses'[d] = uses[d]
               /\ uses' \in [Codes -> 0..MaxUses]
               /\ UNCHANGED <<owner, mailed, stored>>
<1>1. PICK k \in Keys, c \in Codes : Has(q, "del", k, c)
  BY Remembers DEF RedisDel, At
<1>2. request[q].key = k /\ request[q].code = c
  BY <1>1 DEF Has
<1>3. Nothing \in Entries
  BY DEF Assumptions, Nothing, Entries, Forever
<1>4. request'[q] = Idle /\ Others(q) /\ request' \in [Requests -> RequestState]
  BY Closed DEF RedisDel
<1>5. /\ \/ redis'[k] = Nothing /\ \A l \in Keys : l # k => redis'[l] = redis[l]
         \/ "del" \in Failing /\ UNCHANGED redis
      /\ redis' \in [Keys -> Entries]
  BY <1>2, <1>3 DEF RedisDel, Del, TypeOK
<1>6. /\ memory'[k] = Nothing /\ \A l \in Keys : l # k => memory'[l] = memory[l]
      /\ memory' \in [Keys -> Entries]
  BY <1>2, <1>3 DEF RedisDel, TypeOK
<1>7. /\ uses'[c] = IF uses[c] < MaxUses THEN uses[c] + 1 ELSE uses[c]
      /\ \A d \in Codes : d # c => uses'[d] = uses[d]
      /\ uses' \in [Codes -> 0..MaxUses]
  BY <1>2 DEF RedisDel, TypeOK, MaxUses
<1> QED
  BY <1>1, <1>4, <1>5, <1>6, <1>7 DEF RedisDel

\* Time takes from every copy, and takes away what is due.
LEMMA TimeStep ==
    ASSUME Assumptions, TypeOK, TimePasses
    PROVE  /\ \A k \in Keys :
                  \/ redis'[k] = redis[k] /\ redis[k].left = Forever
                  \/ redis'[k] = Nothing /\ redis[k].left <= 1
                  \/ /\ redis[k].left > 1 /\ redis'[k].code = redis[k].code
                     /\ redis'[k].left = redis[k].left - 1
           /\ \A k \in Keys : redis[k].left = Forever => redis'[k] = redis[k]
           /\ redis' \in [Keys -> Entries]
           /\ \A k \in Keys : /\ memory'[k].code = memory[k].code
                              /\ memory'[k].left = IF memory[k].left > 0
                                                   THEN memory[k].left - 1 ELSE 0
           /\ memory' \in [Keys -> Entries]
           /\ \A c \in Codes : stored'[c] = IF stored[c] < Old THEN stored[c] + 1 ELSE stored[c]
           /\ stored' \in [Codes -> 0..Never]
           /\ UNCHANGED <<request, owner, mailed, uses>>
<1>1. redis \in [Keys -> Entries] /\ memory \in [Keys -> Entries] /\ stored \in [Codes -> 0..Never]
  BY DEF TypeOK
<1>2. ASSUME NEW k \in Keys
      PROVE  /\ \/ redis'[k] = redis[k] /\ redis[k].left = Forever
                \/ redis'[k] = Nothing /\ redis[k].left <= 1
                \/ /\ redis[k].left > 1 /\ redis'[k].code = redis[k].code
                   /\ redis'[k].left = redis[k].left - 1
             /\ redis[k].left = Forever => redis'[k] = redis[k]
             /\ redis'[k] \in Entries
  <2>1. redis[k] \in Entries /\ redis'[k] = CASE redis[k].left = Forever -> redis[k]
             [] redis[k].left <= 1 -> Nothing
             [] OTHER -> [redis[k] EXCEPT !.left = @ - 1]
    BY <1>1, <1>2 DEF TimePasses
  <2>2. CASE redis[k].left = Forever
    <3>1. ~(redis[k].left <= 1)
      BY <2>2 DEF Forever, Assumptions
    <3>2. redis'[k] = redis[k]
      BY <2>1, <2>2, <3>1
    <3> QED
      BY <2>1, <2>2, <3>2
  <2>3. CASE redis[k].left # Forever /\ redis[k].left <= 1
    BY <2>1, <2>3 DEF Nothing, Entries, Forever, Assumptions
  <2>4. CASE redis[k].left # Forever /\ redis[k].left > 1
    <3>1. redis'[k] = [redis[k] EXCEPT !.left = @ - 1] /\ redis[k].left \in 0..Forever
      BY <2>1, <2>4 DEF Entries, Assumptions
    <3> QED
      BY <2>1, <2>4, <3>1 DEF Entries, Forever, Assumptions
  <2>5. redis[k].left \in 0..Forever
    BY <2>1 DEF Entries
  <2> QED
    BY <2>2, <2>3, <2>4, <2>5 DEF Assumptions, Forever
<1>3. ASSUME NEW k \in Keys
      PROVE  /\ memory'[k].code = memory[k].code
             /\ memory'[k].left = IF memory[k].left > 0 THEN memory[k].left - 1 ELSE 0
             /\ memory'[k] \in Entries
  <2>1. memory[k] \in Entries /\ memory'[k] = [memory[k] EXCEPT !.left = IF @ > 0 THEN @ - 1 ELSE 0]
    BY <1>1, <1>3 DEF TimePasses
  <2> QED
    BY <2>1 DEF Entries, Forever, Assumptions
<1>4. redis' \in [Keys -> Entries] /\ memory' \in [Keys -> Entries]
  BY <1>2, <1>3 DEF TimePasses
<1>5. /\ \A c \in Codes : stored'[c] = IF stored[c] < Old THEN stored[c] + 1 ELSE stored[c]
      /\ stored' \in [Codes -> 0..Never]
  BY <1>1 DEF TimePasses, Old, Never, Assumptions
<1> QED
  BY <1>2, <1>3, <1>4, <1>5 DEF TimePasses

LEMMA RestartStep ==
    ASSUME Assumptions, TypeOK, Restart
    PROVE  /\ \A k \in Keys : memory'[k] = Nothing
           /\ memory' \in [Keys -> Entries]
           /\ \A q \in Requests : request'[q] = Idle
           /\ request' \in [Requests -> RequestState]
           /\ UNCHANGED <<redis, owner, mailed, stored, uses>>
BY DEF Restart, RequestState, Entries, Nothing, Forever, Assumptions

(* Copies, handlers and the history of every code keep their types.        *)
LEMMA InitTypeOK ==
    ASSUME Assumptions, Init
    PROVE  TypeOK
BY DEF Assumptions, Init, TypeOK, Entries, Nothing, Forever, Never, RequestState, MaxUses

LEMMA StepType ==
    ASSUME Assumptions, TypeOK, [Next]_vars
    PROVE  TypeOK'
<1> USE DEF TypeOK
<1>1. ASSUME NEW q \in Requests, NEW k \in Keys, NEW c \in Codes,
             SendOtp(q, k, c) \/ VerifyOtp(q, k, c)
      PROVE  TypeOK'
  BY <1>1, SendStep, VerifyStep
<1>2. ASSUME NEW q \in Requests, RedisSet(q) PROVE TypeOK'
  BY <1>2, SetStep
<1>3. ASSUME NEW q \in Requests, RedisExpire(q) PROVE TypeOK'
  BY <1>3, ExpireStep DEF Returned
<1>4. ASSUME NEW q \in Requests, FallBack(q) PROVE TypeOK'
  BY <1>4, FallBackStep DEF Returned
<1>5. ASSUME NEW q \in Requests, MailStored(q) PROVE TypeOK'
  BY <1>5, MailStep
<1>6. ASSUME NEW q \in Requests, RedisGet(q) PROVE TypeOK'
  BY <1>6, GetStep
<1>7. ASSUME NEW q \in Requests, RedisDel(q) PROVE TypeOK'
  BY <1>7, DelStep
<1>8. ASSUME NEW c \in Codes, MailUnawaited(c) PROVE TypeOK'
  BY <1>8 DEF MailUnawaited
<1>9. CASE TimePasses
  BY <1>9, TimeStep
<1>10. CASE Restart
  BY <1>10, RestartStep
<1>11. CASE UNCHANGED vars
  BY <1>11 DEF vars
<1> QED
  BY <1>1, <1>2, <1>3, <1>4, <1>5, <1>6, <1>7, <1>8, <1>9, <1>10, <1>11 DEF Next, Store

(* Copies, handlers and the history of the codes have their types, for any *)
(* overlap, failure of Redis and restart.                                  *)
THEOREM TypeCorrect ==
    ASSUME Assumptions
    PROVE  Spec => []TypeOK
<1>1. Init => TypeOK
  BY InitTypeOK
<1>2. TypeOK /\ [Next]_vars => TypeOK'
  BY StepType
<1> QED
  BY <1>1, <1>2, PTL DEF Spec

------------------------------------------------------------------------------
(* Handlers that do not overlap, and whose code is whose.                  *)
OneAtATime ==
    \A q, r \in Requests : request[q] # Idle /\ request[r] # Idle => q = r

\* A code is stored, compared and deleted under the key it was generated for.
OwnStages == {"set", "expire", "del"}
Owned ==
    /\ \A k \in Keys : redis[k].code # NoCode => owner[redis[k].code] = k
    /\ \A k \in Keys : memory[k].code # NoCode => owner[memory[k].code] = k
    /\ \A q \in Requests :
           request[q].at \in OwnStages => owner[request[q].code] = request[q].key

LEMMA HasIsOpen ==
    ASSUME NEW q \in Requests, NEW stage \in Awaited, NEW k, NEW c, Has(q, stage, k, c)
    PROVE  request[q] # Idle
BY DEF Has, Idle, Awaited, Commands

\* A step that opens a request while none is open, or changes only one that
\* is, leaves at most one open.
LEMMA KeepAlone ==
    ASSUME OneAtATime, NEW q \in Requests, Others(q),
           request[q] # Idle \/ \A r \in Requests : request[r] = Idle
    PROVE  OneAtATime' /\ \A r \in Requests : r # q => request[r] = Idle /\ request'[r] = Idle
BY DEF OneAtATime, Others

LEMMA StepAlone ==
    ASSUME Assumptions, Serial, TypeOK, OneAtATime, [Next]_vars
    PROVE  OneAtATime'
<1>1. {"set", "expire", "get", "del", "mail"} \subseteq Awaited
  BY DEF Awaited, Commands
<1>2. ASSUME NEW q \in Requests, NEW k \in Keys, NEW c \in Codes,
             SendOtp(q, k, c) \/ VerifyOtp(q, k, c)
      PROVE  OneAtATime'
  <2>1. MayOpen(q) /\ Others(q)
    BY <1>2, SendStep, VerifyStep
  <2> QED
    BY <2>1, KeepAlone DEF MayOpen
<1>3. ASSUME NEW q \in Requests,
             Store(q) \/ MailStored(q) \/ RedisGet(q) \/ RedisDel(q)
      PROVE  OneAtATime'
  <2>1. Others(q)
    BY <1>3, SetStep, ExpireStep, FallBackStep, MailStep, GetStep, DelStep DEF Store, Returned
  <2>2. request[q].at \in Awaited
    BY <1>1, <1>3
       DEF Store, RedisSet, RedisExpire, FallBack, Throws, MailStored, RedisGet, RedisDel, At
  <2>3. request[q] # Idle
    BY <2>2 DEF Idle, Awaited, Commands
  <2> QED
    BY <2>1, <2>3, KeepAlone
<1>4. CASE Restart
  BY <1>4, RestartStep DEF OneAtATime
<1>5. CASE UNCHANGED request
  BY <1>5 DEF OneAtATime
<1> QED
  BY <1>2, <1>3, <1>4, <1>5 DEF Next, MailUnawaited, TimePasses, vars

\* A code never changes its owner, and is given away once.
LEMMA StepOwned ==
    ASSUME Assumptions, TypeOK, Owned, [Next]_vars
    PROVE  Owned'
<1> USE DEF Owned, OwnStages
<1>1. /\ \A k \in Keys : redis[k].code \in Codes \cup {NoCode}
      /\ \A k \in Keys : memory[k].code \in Codes \cup {NoCode}
      /\ NoCode \notin Codes /\ NoKey \notin Keys
  BY DEF TypeOK, Entries, Assumptions
<1>2. ASSUME NEW q \in Requests, NEW k \in Keys, NEW c \in Codes, SendOtp(q, k, c)
      PROVE  Owned'
  <2>1. \A r \in Requests : r # q /\ request[r].at \in OwnStages =>
            owner'[request[r].code] = request[r].key
    <3> SUFFICES ASSUME NEW r \in Requests, r # q, request[r].at \in OwnStages
                 PROVE  owner'[request[r].code] = request[r].key
      OBVIOUS
    <3>1. PICK l \in Keys, d \in Codes : Has(r, request[r].at, l, d)
      BY Remembers DEF Idle
    <3>2. request[r].key = l /\ request[r].code = d
      BY <3>1 DEF Has
    <3>3. owner[d] = l
      BY <3>2
    <3>4. owner[c] = NoKey /\ \A e \in Codes : e # c => owner'[e] = owner[e]
      BY <1>2, SendStep
    <3> QED
      BY <1>1, <3>2, <3>3, <3>4
  <2>2. request'[q].at = "set" /\ request'[q].key = k /\ request'[q].code = c
    <3>1. Has(q, "set", k, c)'
      BY <1>2, SendStep
    <3> QED
      BY <3>1 DEF Has
  <2>3. \A r \in Requests : r # q => request'[r] = request[r]
    BY <1>2, SendStep DEF Others
  <2>4. \A r \in Requests :
            request'[r].at \in OwnStages => owner'[request'[r].code] = request'[r].key
    BY <1>2, <2>1, <2>2, <2>3, SendStep
  <2>5. /\ \A l \in Keys : redis'[l].code # NoCode => owner'[redis'[l].code] = l
        /\ \A l \in Keys : memory'[l].code # NoCode => owner'[memory'[l].code] = l
    BY <1>1, <1>2, SendStep
  <2> QED
    BY <2>4, <2>5
<1>3. ASSUME NEW q \in Requests, RedisSet(q) PROVE Owned'
  <2>1. PICK k \in Keys, c \in Codes :
            /\ Has(q, "set", k, c) /\ Has(q, "expire", k, c)' /\ Others(q)
            /\ redis'[k] = [code |-> c, left |-> Forever]
            /\ \A l \in Keys : l # k => redis'[l] = redis[l]
            /\ UNCHANGED <<memory, owner>>
    BY <1>3, SetStep
  <2>2. owner[c] = k
    BY <2>1 DEF Has
  <2>3. redis'[k].code = c
    BY <2>1
  <2>4. \A r \in Requests :
            request'[r].at \in OwnStages => owner'[request'[r].code] = request'[r].key
    BY <2>1, <2>2 DEF Has, Others
  <2> QED
    BY <2>1, <2>2, <2>3, <2>4
<1>4. ASSUME NEW q \in Requests, NEW k \in Keys, NEW c \in Codes, VerifyOtp(q, k, c)
      PROVE  Owned'
  <2>1. Has(q, "get", k, c)' /\ Others(q) /\ UNCHANGED <<redis, memory, owner>>
    BY <1>4, VerifyStep
  <2>2. request'[q].at = "get"
    BY <2>1 DEF Has
  <2> QED
    BY <2>1, <2>2 DEF Others
<1>5. ASSUME NEW q \in Requests, RedisExpire(q) PROVE Owned'
  <2>1. PICK k \in Keys, c \in Codes :
            /\ Has(q, "expire", k, c) /\ Returned(q, k, c)
            /\ redis'[k].code = redis[k].code
            /\ \A l \in Keys : l # k => redis'[l] = redis[l]
            /\ UNCHANGED memory
    BY <1>5, ExpireStep
  <2>2. request'[q].at \in {"idle", "mail"}
    BY <2>1 DEF Has, Returned, Idle
  <2>3. \A l \in Keys : redis'[l].code = redis[l].code
    BY <2>1
  <2> QED
    BY <2>1, <2>2, <2>3 DEF Others, Returned
<1>6. ASSUME NEW q \in Requests, FallBack(q) PROVE Owned'
  <2>1. PICK k \in Keys, c \in Codes, stage \in {"set", "expire"} :
            /\ Has(q, stage, k, c) /\ Returned(q, k, c) /\ Threw(stage, k, c)
            /\ memory'[k] = [code |-> c, left |-> TTL]
            /\ \A l \in Keys : l # k => redis'[l] = redis[l] /\ memory'[l] = memory[l]
    BY <1>6, FallBackStep
  <2>2. owner[c] = k
    BY <2>1 DEF Has
  <2>3. memory'[k].code = c /\ redis'[k].code \in {redis[k].code, c}
    BY <2>1 DEF Threw
  <2>4. \A r \in Requests :
            request'[r].at \in OwnStages => owner'[request'[r].code] = request'[r].key
    BY <2>1 DEF Has, Others, Returned, Idle
  <2> QED
    BY <2>1, <2>2, <2>3, <2>4 DEF Returned
<1>7. ASSUME NEW q \in Requests, MailStored(q) PROVE Owned'
  BY <1>7, MailStep DEF Others, Idle
<1>8. ASSUME NEW q \in Requests, RedisGet(q) PROVE Owned'
  <2>1. PICK k \in Keys, c \in Codes :
            /\ request'[q] = Idle \/ (Has(q, "del", k, c)' /\ Finds(k, c))
            /\ Others(q) /\ UNCHANGED <<redis, memory, owner>>
    BY <1>8, GetStep
  <2>2. Finds(k, c) => owner[c] = k
    BY <1>1 DEF Finds
  <2> QED
    BY <2>1, <2>2 DEF Has, Others, Idle
<1>9. ASSUME NEW q \in Requests, RedisDel(q) PROVE Owned'
  <2>1. PICK k \in Keys :
            /\ request'[q] = Idle /\ Others(q) /\ UNCHANGED owner
            /\ \A l \in Keys : redis'[l] \in {redis[l], Nothing}
            /\ \A l \in Keys : memory'[l] \in {memory[l], Nothing}
    BY <1>9, DelStep
  <2>2. Nothing.code = NoCode
    BY DEF Nothing
  <2> QED
    BY <2>1, <2>2 DEF Others, Idle
<1>10. ASSUME NEW c \in Codes, MailUnawaited(c) PROVE Owned'
  BY <1>10 DEF MailUnawaited
<1>11. CASE TimePasses
  BY <1>11, TimeStep DEF Nothing
<1>12. CASE Restart
  BY <1>12, RestartStep DEF Nothing, Idle
<1>13. CASE UNCHANGED vars
  BY <1>13 DEF vars
<1> QED
  BY <1>2, <1>3, <1>4, <1>5, <1>6, <1>7, <1>8, <1>9, <1>10, <1>11, <1>12, <1>13 DEF Next, Store
\* What every proof below starts from.
Base == TypeOK /\ OneAtATime /\ Owned

LEMMA InitBase ==
    ASSUME Assumptions, Init
    PROVE  Base
BY InitTypeOK DEF Init, Base, OneAtATime, Owned, OwnStages, Nothing, Idle

LEMMA StepBase ==
    ASSUME Assumptions, Serial, Base, [Next]_vars
    PROVE  Base'
BY StepType, StepAlone, StepOwned DEF Base

\* What the types say of one copy or one code.
LEMMA BaseTypes ==
    ASSUME Assumptions, TypeOK
    PROVE  /\ \A k \in Keys : redis[k].code \in Codes \cup {NoCode} /\ redis[k].left \in 0..Forever
           /\ \A k \in Keys :
                  memory[k].code \in Codes \cup {NoCode} /\ memory[k].left \in 0..Forever
           /\ \A c \in Codes : owner[c] \in Keys \cup {NoKey}
           /\ \A c \in Codes : stored[c] \in 0..Never /\ uses[c] \in 0..MaxUses
           /\ NoCode \notin Codes /\ NoKey \notin Keys /\ TTL \in Nat \ {0} /\ Codes \subseteq Nat
           /\ Nothing.code = NoCode /\ Nothing.left = 0
BY DEF TypeOK, Entries, Assumptions, Nothing

------------------------------------------------------------------------------
(* One-time: no copy of a code that was accepted is left, and none is on   *)
(* its way, as long as Redis does not refuse the DEL of a use.             *)
Unused ==
    /\ \A k \in Keys : redis[k].code # NoCode => uses[redis[k].code] = 0
    /\ \A k \in Keys : memory[k].code # NoCode => uses[memory[k].code] = 0
    /\ \A q \in Requests : request[q].at \in OwnStages => uses[request[q].code] = 0
    /\ \A c \in Codes : owner[c] = NoKey => uses[c] = 0
UsedOnce == \A c \in Codes : uses[c] <= 1

LEMMA StepUnused ==
    ASSUME Assumptions, Serial, "del" \notin Failing, Base, Unused, UsedOnce, [Next]_vars
    PROVE  Unused' /\ UsedOnce'
<1> USE DEF Unused, UsedOnce, OwnStages
<1>1. TypeOK /\ Owned /\ OneAtATime
  BY DEF Base
<1>2. /\ \A k \in Keys : redis[k].code \in Codes \cup {NoCode}
      /\ \A k \in Keys : memory[k].code \in Codes \cup {NoCode}
      /\ NoCode \notin Codes /\ NoKey \notin Keys
      /\ Nothing.code = NoCode
  BY <1>1, BaseTypes
<1>3. ASSUME NEW q \in Requests, NEW k \in Keys, NEW c \in Codes,
             SendOtp(q, k, c) \/ VerifyOtp(q, k, c)
      PROVE  Unused' /\ UsedOnce'
  <2>1. /\ \/ Has(q, "set", k, c)' /\ owner[c] = NoKey
           \/ Has(q, "get", k, c)'
        /\ Others(q) /\ UNCHANGED <<redis, memory, uses>>
        /\ \A d \in Codes : owner'[d] = NoKey => owner[d] = NoKey
    BY <1>1, <1>2, <1>3, SendStep, VerifyStep
  <2>2. request'[q].at \in OwnStages => request'[q].code = c /\ owner[c] = NoKey
    BY <2>1 DEF Has
  <2> QED
    BY <2>1, <2>2 DEF Others
<1>4. ASSUME NEW q \in Requests, RedisSet(q) PROVE Unused' /\ UsedOnce'
  <2>1. PICK k \in Keys, c \in Codes :
            /\ Has(q, "set", k, c) /\ Has(q, "expire", k, c)' /\ Others(q)
            /\ redis'[k] = [code |-> c, left |-> Forever]
            /\ \A l \in Keys : l # k => redis'[l] = redis[l]
            /\ UNCHANGED <<memory, owner, uses>>
    BY <1>1, <1>4, SetStep
  <2>2. uses[c] = 0 /\ redis'[k].code = c /\ request'[q].code = c
    BY <2>1 DEF Has
  <2> QED
    BY <2>1, <2>2 DEF Others
<1>5. ASSUME NEW q \in Requests, RedisExpire(q) PROVE Unused' /\ UsedOnce'
  <2>1. PICK k \in Keys, c \in Codes :
            /\ Returned(q, k, c)
            /\ redis'[k].code = redis[k].code
            /\ \A l \in Keys : l # k => redis'[l] = redis[l]
            /\ UNCHANGED memory
    BY <1>1, <1>5, ExpireStep
  <2>2. request'[q].at \in {"idle", "mail"} /\ \A l \in Keys : redis'[l].code = redis[l].code
    BY <2>1 DEF Has, Returned, Idle
  <2> QED
    BY <2>1, <2>2 DEF Others, Returned
<1>6. ASSUME NEW q \in Requests, FallBack(q) PROVE Unused' /\ UsedOnce'
  <2>1. PICK k \in Keys, c \in Codes, stage \in {"set", "expire"} :
            /\ Has(q, stage, k, c) /\ Returned(q, k, c) /\ Threw(stage, k, c)
            /\ memory'[k] = [code |-> c, left |-> TTL]
            /\ \A l \in Keys : l # k => redis'[l] = redis[l] /\ memory'[l] = memory[l]
    BY <1>1, <1>6, FallBackStep
  <2>2. uses[c] = 0 /\ memory'[k].code = c /\ redis'[k].code \in {redis[k].code, c}
    BY <2>1 DEF Has, Threw
  <2>3. request'[q].at \in {"idle", "mail"}
    BY <2>1 DEF Has, Returned, Idle
  <2> QED
    BY <2>1, <2>2, <2>3 DEF Others, Returned
<1>7. ASSUME NEW q \in Requests, MailStored(q) PROVE Unused' /\ UsedOnce'
  BY <1>1, <1>7, MailStep DEF Others, Idle
<1>8. ASSUME NEW q \in Requests, RedisGet(q) PROVE Unused' /\ UsedOnce'
  <2>1. PICK k \in Keys, c \in Codes :
            /\ request'[q] = Idle \/ (Has(q, "del", k, c)' /\ Finds(k, c))
            /\ Others(q) /\ UNCHANGED <<redis, memory, owner, uses>>
    BY <1>1, <1>8, GetStep
  <2>2. Finds(k, c) => uses[c] = 0
    BY <1>2 DEF Finds
  <2>3. request'[q].at \in OwnStages => uses[request'[q].code] = 0
    BY <2>1, <2>2 DEF Has, Idle
  <2> QED
    BY <2>1, <2>3 DEF Others
<1>9. ASSUME NEW q \in Requests, RedisDel(q) PROVE Unused' /\ UsedOnce'
  <2>1. PICK k \in Keys, c \in Codes :
            /\ Has(q, "del", k, c) /\ request'[q] = Idle /\ Others(q)
            /\ redis'[k] = Nothing /\ \A l \in Keys : l # k => redis'[l] = redis[l]
            /\ memory'[k] = Nothing /\ \A l \in Keys : l # k => memory'[l] = memory[l]
            /\ uses'[c] = IF uses[c] < MaxUses THEN uses[c] + 1 ELSE uses[c]
            /\ \A d \in Codes : d # c => uses'[d] = uses[d]
            /\ UNCHANGED owner
    BY <1>1, <1>9, DelStep
  <2>2. uses[c] = 0 /\ owner[c] = k
    BY <1>1, <2>1 DEF Has, Owned
  <2>3. uses'[c] = 1
    BY <2>1, <2>2 DEF MaxUses
  <2>4. \A r \in Requests : request'[r].at = "idle"
    <3>1. request[q] # Idle
      BY <2>1, HasIsOpen DEF Awaited, Commands
    <3> QED
      BY <1>1, <2>1, <3>1, KeepAlone DEF Idle
  <2>5. \A l \in Keys : l # k => (redis[l].code # NoCode => redis[l].code # c)
                              /\ (memory[l].code # NoCode => memory[l].code # c)
    BY <1>1, <2>2 DEF Owned
  <2> QED
    BY <1>2, <2>1, <2>2, <2>3, <2>4, <2>5
<1>10. ASSUME NEW c \in Codes, MailUnawaited(c) PROVE Unused' /\ UsedOnce'
  BY <1>10 DEF MailUnawaited
<1>11. CASE TimePasses
  BY <1>1, <1>2, <1>11, TimeStep
<1>12. CASE Restart
  BY <1>1, <1>2, <1>12, RestartStep DEF Idle
<1>13. CASE UNCHANGED vars
  BY <1>13 DEF vars
<1> QED
  BY <1>3, <1>4, <1>5, <1>6, <1>7, <1>8, <1>9, <1>10, <1>11, <1>12, <1>13 DEF Next, Store

(* One request at a time, no code is accepted twice, whatever else Redis   *)
(* refuses and whenever the process restarts: a use takes both copies, and *)
(* a code has no other.                                                    *)
THEOREM CodesAreOneTime ==
    ASSUME Assumptions, Serial, "del" \notin Failing
    PROVE  Spec => []UsedOnce
<1>1. Init => Base /\ Unused /\ UsedOnce
  BY InitBase DEF Init, Unused, UsedOnce, OwnStages, Nothing, Idle
<1>2. Base /\ Unused /\ UsedOnce /\ [Next]_vars => Base' /\ Unused' /\ UsedOnce'
  BY StepBase, StepUnused
<1> QED
  BY <1>1, <1>2, PTL DEF Spec
------------------------------------------------------------------------------
(* The order in which codes are generated and stored, one at a time.       *)
InOrder == \A c, d \in Codes : c < d /\ owner[d] # NoKey => owner[c] # NoKey
NotBefore == \A c \in Codes : owner[c] = NoKey => stored[c] = Never
\* What is being stored is the newest code of all, and Redis has it after SET.
Storing ==
    \A q \in Requests : request[q].at \in {"set", "expire"} =>
        \A d \in Codes : d > request[q].code => owner[d] = NoKey
SetDone ==
    \A q \in Requests : At(q, "expire") =>
        redis[request[q].key] = [code |-> request[q].code, left |-> Forever]
StoreOrder == InOrder /\ NotBefore /\ Storing /\ SetDone

LEMMA StepOrder ==
    ASSUME Assumptions, Serial, Base, StoreOrder, [Next]_vars
    PROVE  StoreOrder'
<1>1. TypeOK /\ OneAtATime
  BY DEF Base
<1>2. NoKey \notin Keys /\ Codes \subseteq Nat /\ (\A c \in Codes : stored[c] \in 0..Never)
      /\ TTL \in Nat
  BY <1>1, BaseTypes
<1>3. Awaited = {"set", "expire", "get", "del", "mail"}
  BY DEF Awaited, Commands
<1>4. ASSUME UNCHANGED <<owner, stored>> PROVE (InOrder /\ NotBefore)'
  BY <1>4 DEF StoreOrder, InOrder, NotBefore
<1>5. ASSUME NEW q \in Requests, Others(q), request'[q].at \notin {"set", "expire"},
             request[q] # Idle \/ \A r \in Requests : request[r] = Idle
      PROVE  (Storing /\ SetDone)'
  <2>1. \A r \in Requests : request'[r].at \notin {"set", "expire"}
    BY <1>1, <1>5, KeepAlone DEF Idle
  <2> QED
    BY <2>1 DEF Storing, SetDone, At
<1>6. ASSUME NEW q \in Requests, NEW k \in Keys, NEW c \in Codes, SendOtp(q, k, c)
      PROVE  StoreOrder'
  <2>1. /\ MayOpen(q) /\ Has(q, "set", k, c)' /\ Others(q)
        /\ owner[c] = NoKey /\ owner'[c] = k /\ UNCHANGED stored
        /\ \A d \in Codes : d < c => owner[d] # NoKey
        /\ \A d \in Codes : d # c => owner'[d] = owner[d]
    BY <1>1, <1>6, SendStep
  <2>2. \A d \in Codes : d > c => owner'[d] = NoKey
    BY <1>2, <2>1 DEF StoreOrder, InOrder
  <2>3. (InOrder /\ NotBefore)'
    BY <1>2, <2>1 DEF StoreOrder, InOrder, NotBefore
  <2>4. request'[q].at = "set" /\ request'[q].code = c
    BY <2>1 DEF Has
  <2>5. \A r \in Requests : r # q => request'[r].at = "idle"
    BY <1>1, <2>1, KeepAlone DEF MayOpen, Idle
  <2>6. (Storing /\ SetDone)'
    BY <2>2, <2>4, <2>5 DEF Storing, SetDone, At
  <2> QED
    BY <2>3, <2>6 DEF StoreOrder
<1>7. ASSUME NEW q \in Requests, RedisSet(q) PROVE StoreOrder'
  <2>1. PICK k \in Keys, c \in Codes :
            /\ Has(q, "set", k, c) /\ Has(q, "expire", k, c)' /\ Others(q)
            /\ redis'[k] = [code |-> c, left |-> Forever]
            /\ UNCHANGED <<owner, stored>>
    BY <1>1, <1>7, SetStep
  <2>2. \A d \in Codes : d > c => owner[d] = NoKey
    BY <2>1 DEF Has, StoreOrder, Storing
  <2>3. request'[q].at = "expire" /\ request'[q].code = c /\ request'[q].key = k
    BY <2>1 DEF Has
  <2>4. \A r \in Requests : r # q => request'[r].at = "idle"
    <3>1. request[q] # Idle
      BY <1>3, <2>1, HasIsOpen
    <3> QED
      BY <1>1, <2>1, <3>1, KeepAlone DEF Idle
  <2>5. (Storing /\ SetDone)'
    BY <2>1, <2>2, <2>3, <2>4 DEF Storing, SetDone, At
  <2> QED
    BY <1>4, <2>1, <2>5 DEF StoreOrder
<1>8. ASSUME NEW q \in Requests, RedisExpire(q) \/ FallBack(q) PROVE StoreOrder'
  <2>1. PICK k \in Keys, c \in Codes, stage \in {"set", "expire"} :
            Has(q, stage, k, c) /\ Returned(q, k, c)
    BY <1>1, <1>8, ExpireStep, FallBackStep
  <2>2. request[q] # Idle /\ request'[q].at \notin {"set", "expire"}
    <3>1. request[q].at = stage
      BY <2>1 DEF Has
    <3> QED
      BY <2>1, <3>1 DEF Has, Returned, Idle
  <2>3. owner[c] # NoKey
    <3>1. request[q].at = stage /\ request[q].key = k /\ request[q].code = c
      BY <2>1 DEF Has
    <3> QED
      BY <1>2, <3>1 DEF Base, Owned, OwnStages
  <2>4. (InOrder /\ NotBefore)'
    BY <2>1, <2>3 DEF Returned, StoreOrder, InOrder, NotBefore
  <2> QED
    BY <1>5, <2>1, <2>2, <2>4 DEF Returned, StoreOrder
<1>9. ASSUME NEW q \in Requests,
             \/ MailStored(q) \/ RedisGet(q) \/ RedisDel(q)
             \/ \E k \in Keys, c \in Codes : VerifyOtp(q, k, c)
      PROVE  StoreOrder'
  <2>1. Others(q) /\ UNCHANGED <<owner, stored>> /\ request'[q].at \notin {"set", "expire"}
    <3>1. CASE MailStored(q)
      BY <1>1, <3>1, MailStep DEF Idle
    <3>2. CASE RedisGet(q)
      <4>1. PICK k \in Keys, c \in Codes :
                /\ request'[q] = Idle \/ Has(q, "del", k, c)'
                /\ Others(q) /\ UNCHANGED <<owner, stored>>
        BY <1>1, <3>2, GetStep
      <4> QED
        BY <4>1 DEF Has, Idle
    <3>3. CASE RedisDel(q)
      BY <1>1, <3>3, DelStep DEF Idle
    <3>4. ASSUME NEW k \in Keys, NEW c \in Codes, VerifyOtp(q, k, c)
          PROVE  Others(q) /\ UNCHANGED <<owner, stored>> /\ request'[q].at \notin {"set", "expire"}
      <4>1. Others(q) /\ UNCHANGED <<owner, stored>> /\ Has(q, "get", k, c)'
        BY <1>1, <3>4, VerifyStep
      <4> QED
        BY <4>1 DEF Has
    <3> QED
      BY <1>9, <3>1, <3>2, <3>3, <3>4
  <2>2. request[q] # Idle \/ \A r \in Requests : request[r] = Idle
    BY <1>9 DEF MailStored, RedisGet, RedisDel, VerifyOtp, MayOpen, At, Idle
  <2> QED
    BY <1>4, <1>5, <2>1, <2>2 DEF StoreOrder
<1>10. ASSUME NEW c \in Codes, MailUnawaited(c) PROVE StoreOrder'
  BY <1>10 DEF MailUnawaited, StoreOrder, InOrder, NotBefore, Storing, SetDone, At
<1>11. CASE TimePasses
  <2>1. /\ UNCHANGED <<request, owner>>
        /\ \A k \in Keys : redis[k].left = Forever => redis'[k] = redis[k]
        /\ \A c \in Codes : stored[c] = Never => stored'[c] = Never
    <3>1. /\ UNCHANGED <<request, owner>>
          /\ \A k \in Keys : redis[k].left = Forever => redis'[k] = redis[k]
          /\ \A c \in Codes : stored'[c] = IF stored[c] < Old THEN stored[c] + 1 ELSE stored[c]
      BY <1>1, <1>11, TimeStep
    <3> QED
      BY <1>2, <3>1 DEF Old, Never
  <2>2. (InOrder /\ NotBefore /\ Storing)'
    BY <2>1 DEF StoreOrder, InOrder, NotBefore, Storing
  <2>3. SetDone'
    <3> SUFFICES ASSUME NEW q \in Requests, At(q, "expire")
                 PROVE  redis'[request[q].key] = [code |-> request[q].code, left |-> Forever]
      BY <2>1 DEF SetDone, At
    <3>1. request[q].key \in Keys
      <4>1. PICK k \in Keys, c \in Codes : Has(q, "expire", k, c)
        BY <1>1, Remembers DEF At
      <4> QED
        BY <4>1 DEF Has
    <3>2. redis[request[q].key] = [code |-> request[q].code, left |-> Forever]
      BY DEF StoreOrder, SetDone
    <3> QED
      BY <2>1, <3>1, <3>2
  <2> QED
    BY <2>2, <2>3 DEF StoreOrder
<1>12. CASE Restart
  <2>1. UNCHANGED <<owner, stored>> /\ \A r \in Requests : request'[r].at = "idle"
    BY <1>1, <1>12, RestartStep DEF Idle
  <2> QED
    BY <1>4, <2>1 DEF StoreOrder, Storing, SetDone, At
<1>13. CASE UNCHANGED vars
  BY <1>13 DEF vars, StoreOrder, InOrder, NotBefore, Storing, SetDone, At
<1> QED
  BY <1>6, <1>7, <1>8, <1>9, <1>10, <1>11, <1>12, <1>13 DEF Next, Store

LEMMA InitOrder ==
    ASSUME Assumptions, Init
    PROVE  StoreOrder
BY DEF Init, StoreOrder, InOrder, NotBefore, Storing, SetDone, At, Idle
------------------------------------------------------------------------------
(* With Redis answering: what is being accepted is what Redis has, if it   *)
(* has not expired since, and the memory stays empty.                      *)
Comparing ==
    \A q \in Requests : At(q, "del") =>
        redis[request[q].key].code \in {request[q].code, NoCode}
NoMemory == \A k \in Keys : memory[k] = Nothing
Answering == Comparing /\ NoMemory

LEMMA StepAnswering ==
    ASSUME Assumptions, Serial, Failing = {}, Unanswered = {}, Base, Answering, [Next]_vars
    PROVE  Answering'
<1>1. TypeOK /\ OneAtATime
  BY DEF Base
<1>2. Awaited = {"set", "expire", "get", "del", "mail"} /\ NoCode \notin Codes
  BY DEF Awaited, Commands, Assumptions
<1>3. ASSUME NEW q \in Requests, Others(q), request'[q].at # "del",
             request[q] # Idle \/ \A r \in Requests : request[r] = Idle
      PROVE  Comparing'
  BY <1>1, <1>3, KeepAlone DEF Idle, Comparing, At
<1>4. ASSUME NEW q \in Requests, NEW k \in Keys, NEW c \in Codes,
             SendOtp(q, k, c) \/ VerifyOtp(q, k, c)
      PROVE  Answering'
  <2>1. /\ Has(q, "set", k, c)' \/ Has(q, "get", k, c)'
        /\ MayOpen(q) /\ Others(q) /\ UNCHANGED memory
    BY <1>1, <1>4, SendStep, VerifyStep
  <2>2. request'[q].at # "del"
    BY <2>1 DEF Has
  <2> QED
    BY <1>3, <2>1, <2>2 DEF MayOpen, Answering, NoMemory
<1>5. ASSUME NEW q \in Requests, RedisSet(q) PROVE Answering'
  <2>1. PICK k \in Keys, c \in Codes :
            Has(q, "set", k, c) /\ Has(q, "expire", k, c)' /\ Others(q) /\ UNCHANGED memory
    BY <1>1, <1>5, SetStep
  <2>2. request[q] # Idle /\ request'[q].at # "del"
    BY <1>2, <2>1, HasIsOpen DEF Has
  <2> QED
    BY <1>3, <2>1, <2>2 DEF Answering, NoMemory
<1>6. ASSUME NEW q \in Requests, RedisExpire(q) PROVE Answering'
  <2>1. PICK k \in Keys, c \in Codes :
            Has(q, "expire", k, c) /\ Returned(q, k, c) /\ UNCHANGED memory
    BY <1>1, <1>6, ExpireStep
  <2>2. request[q] # Idle /\ request'[q].at # "del"
    BY <1>2, <2>1, HasIsOpen DEF Has, Returned, Idle
  <2> QED
    BY <1>3, <2>1, <2>2 DEF Answering, NoMemory, Returned
<1>7. ASSUME NEW q \in Requests PROVE ~FallBack(q)
  BY DEF FallBack, Throws
<1>8. ASSUME NEW q \in Requests, MailStored(q) PROVE Answering'
  <2>1. Others(q) /\ UNCHANGED memory /\ request[q] # Idle /\ request'[q].at # "del"
    BY <1>1, <1>8, MailStep DEF Idle
  <2> QED
    BY <1>3, <2>1 DEF Answering, NoMemory
<1>9. ASSUME NEW q \in Requests, RedisGet(q) PROVE Answering'
  <2>1. PICK k \in Keys, c \in Codes :
            /\ Has(q, "get", k, c) /\ Others(q) /\ UNCHANGED <<redis, memory>>
            /\ request'[q] = Idle \/ (Has(q, "del", k, c)' /\ Finds(k, c))
    BY <1>1, <1>9, GetStep
  <2>2. request[q] # Idle
    BY <1>2, <2>1, HasIsOpen
  <2>3. CASE request'[q] = Idle
    BY <1>3, <2>1, <2>2, <2>3 DEF Idle, Answering, NoMemory
  <2>4. CASE Has(q, "del", k, c)' /\ Finds(k, c)
    <3>1. redis[k].code = c
      BY <2>4 DEF Finds, Answering, NoMemory, Nothing
    <3>2. request'[q].key = k /\ request'[q].code = c
      BY <2>4 DEF Has
    <3>3. \A r \in Requests : r # q => request'[r].at = "idle"
      BY <1>1, <2>1, <2>2, KeepAlone DEF Idle
    <3> QED
      BY <2>1, <3>1, <3>2, <3>3 DEF Answering, NoMemory, Comparing, At
  <2> QED
    BY <2>1, <2>3, <2>4
<1>10. ASSUME NEW q \in Requests, RedisDel(q) PROVE Answering'
  <2>1. PICK k \in Keys, c \in Codes :
            /\ Has(q, "del", k, c) /\ request'[q] = Idle /\ Others(q)
            /\ memory'[k] = Nothing /\ \A l \in Keys : l # k => memory'[l] = memory[l]
    BY <1>1, <1>10, DelStep
  <2>2. request[q] # Idle
    BY <1>2, <2>1, HasIsOpen
  <2> QED
    BY <1>3, <2>1, <2>2 DEF Answering, NoMemory, Idle
<1>11. ASSUME NEW c \in Codes, MailUnawaited(c) PROVE Answering'
  BY <1>11 DEF MailUnawaited, Answering, Comparing, NoMemory, At
<1>12. CASE TimePasses
  <2>1. /\ \A k \in Keys : redis'[k].code \in {redis[k].code, NoCode}
        /\ NoMemory' /\ UNCHANGED request
    <3>1. UNCHANGED request /\ \A k \in Keys : redis'[k].code \in {redis[k].code, NoCode}
      BY <1>1, <1>12, TimeStep DEF Nothing
    <3>2. \A k \in Keys : memory'[k] = [memory[k] EXCEPT !.left = IF @ > 0 THEN @ - 1 ELSE 0]
      BY <1>12 DEF TimePasses
    <3> QED
      BY <3>1, <3>2 DEF Answering, NoMemory, Nothing
  <2>2. Comparing'
    <3> SUFFICES ASSUME NEW q \in Requests, At(q, "del")
                 PROVE  redis'[request[q].key].code \in {request[q].code, NoCode}
      BY <2>1 DEF Comparing, At
    <3>1. PICK k \in Keys, c \in Codes : Has(q, "del", k, c)
      BY <1>1, Remembers DEF At
    <3>2. request[q].key = k
      BY <3>1 DEF Has
    <3> QED
      BY <2>1, <3>2 DEF Answering, Comparing
  <2> QED
    BY <2>1, <2>2 DEF Answering
<1>13. CASE Restart
  BY <1>1, <1>13, RestartStep DEF Answering, Comparing, NoMemory, At, Idle
<1>14. CASE UNCHANGED vars
  BY <1>14 DEF vars, Answering, Comparing, NoMemory, At
<1> QED
  BY <1>4, <1>5, <1>6, <1>7, <1>8, <1>9, <1>10, <1>11, <1>12, <1>13, <1>14 DEF Next, Store

\* The newest code of a key stays in Redis until it is used or due.
Kept ==
    \A c \in Codes : Newest(c) /\ uses[c] = 0 /\ stored[c] < TTL =>
        redis[owner[c]].code = c /\ redis[owner[c]].left + stored[c] >= TTL

LEMMA StepKept ==
    ASSUME Assumptions, Serial, Failing = {}, Unanswered = {},
           Base, StoreOrder, Answering, Kept, [Next]_vars
    PROVE  Kept'
<1> USE DEF Kept
<1>1. TypeOK /\ OneAtATime /\ Owned
  BY DEF Base
<1>2. /\ \A k \in Keys : redis[k].code \in Codes \cup {NoCode} /\ redis[k].left \in 0..Forever
      /\ \A c \in Codes : owner[c] \in Keys \cup {NoKey}
      /\ \A c \in Codes : stored[c] \in 0..Never /\ uses[c] \in 0..MaxUses
      /\ NoCode \notin Codes /\ NoKey \notin Keys /\ TTL \in Nat \ {0} /\ Codes \subseteq Nat
  BY <1>1, BaseTypes
<1>3. CASE UNCHANGED <<redis, owner, stored, uses>>
  BY <1>3 DEF Newest
<1>4. ASSUME NEW q \in Requests, NEW k \in Keys, NEW c \in Codes, SendOtp(q, k, c)
      PROVE  Kept'
  <2>1. /\ owner[c] = NoKey /\ owner'[c] = k /\ UNCHANGED <<redis, stored, uses>>
        /\ \A d \in Codes : d # c => owner'[d] = owner[d]
    BY <1>1, <1>4, SendStep
  <2>2. ASSUME NEW d \in Codes, d # c, Newest(d)' PROVE Newest(d)
    BY <1>2, <2>1, <2>2 DEF Newest
  <2>3. ~(stored[c] < TTL)
    BY <1>2, <2>1 DEF StoreOrder, NotBefore, Never
  <2> QED
    BY <2>1, <2>2, <2>3
<1>5. ASSUME NEW q \in Requests, RedisSet(q) PROVE Kept'
  <2>1. PICK k \in Keys, c \in Codes :
            /\ Has(q, "set", k, c)
            /\ redis'[k] = [code |-> c, left |-> Forever]
            /\ \A l \in Keys : l # k => redis'[l] = redis[l]
            /\ UNCHANGED <<owner, stored, uses>>
    BY <1>1, <1>5, SetStep
  <2>2. owner[c] = k /\ \A d \in Codes : d > c => owner[d] = NoKey
    BY <1>1, <2>1 DEF Has, Owned, OwnStages, StoreOrder, Storing
  <2>3. \A d \in Codes : Newest(d) /\ owner[d] = k => d = c
    BY <1>2, <2>2 DEF Newest
  <2>4. redis'[k].code = c /\ redis'[k].left = TTL + 1
    BY <2>1 DEF Forever
  <2> SUFFICES ASSUME NEW d \in Codes, Newest(d), uses[d] = 0, stored[d] < TTL
               PROVE  redis'[owner[d]].code = d /\ redis'[owner[d]].left + stored[d] >= TTL
    BY <2>1 DEF Newest
  <2>5. CASE owner[d] = k
    <3>1. d = c
      BY <2>3, <2>5
    <3>2. stored[d] \in Nat /\ TTL \in Nat
      BY <1>2
    <3>3. redis'[k].left + stored[d] >= TTL
      BY <2>4, <3>2
    <3> QED
      BY <2>4, <2>5, <3>1, <3>3
  <2>6. CASE owner[d] # k
    BY <1>2, <2>1, <2>6 DEF Newest
  <2> QED
    BY <2>5, <2>6
<1>6. ASSUME NEW q \in Requests, RedisExpire(q) PROVE Kept'
  <2>1. PICK k \in Keys, c \in Codes :
            /\ Has(q, "expire", k, c) /\ Returned(q, k, c)
            /\ redis'[k].code = redis[k].code
            /\ redis'[k].left = IF redis[k].code = NoCode THEN 0 ELSE TTL
            /\ \A l \in Keys : l # k => redis'[l] = redis[l]
    BY <1>1, <1>6, ExpireStep
  <2>2. request[q].at = "expire" /\ request[q].key = k /\ request[q].code = c
    BY <2>1 DEF Has
  <2>3. /\ owner[c] = k /\ redis[k].code = c
        /\ \A d \in Codes : d > c => owner[d] = NoKey
    <3>1. owner[c] = k
      BY <1>1, <2>2 DEF Owned, OwnStages
    <3>2. redis[k] = [code |-> c, left |-> Forever]
      BY <2>2 DEF StoreOrder, SetDone, At
    <3>3. \A d \in Codes : d > c => owner[d] = NoKey
      BY <2>2 DEF StoreOrder, Storing
    <3> QED
      BY <3>1, <3>2, <3>3
  <2>4. \A d \in Codes : Newest(d) /\ owner[d] = k => d = c
    BY <1>2, <2>3 DEF Newest
  <2>5. /\ stored'[c] = 0 /\ \A d \in Codes : d # c => stored'[d] = stored[d]
        /\ UNCHANGED <<owner, uses>>
    BY <2>1 DEF Returned
  <2>6. redis'[k].code = c /\ redis'[k].left = TTL
    BY <1>2, <2>1, <2>3
  <2> SUFFICES ASSUME NEW d \in Codes, Newest(d), uses[d] = 0, stored'[d] < TTL
               PROVE  redis'[owner[d]].code = d /\ redis'[owner[d]].left + stored'[d] >= TTL
    BY <2>5 DEF Newest
  <2>7. CASE owner[d] = k
    BY <1>2, <2>4, <2>5, <2>6, <2>7
  <2>8. CASE owner[d] # k
    BY <1>2, <2>1, <2>3, <2>5, <2>8 DEF Newest
  <2> QED
    BY <2>7, <2>8
<1>7. ASSUME NEW q \in Requests, RedisDel(q) PROVE Kept'
  <2>1. PICK k \in Keys, c \in Codes :
            /\ Has(q, "del", k, c)
            /\ \A l \in Keys : l # k => redis'[l] = redis[l]
            /\ uses'[c] = IF uses[c] < MaxUses THEN uses[c] + 1 ELSE uses[c]
            /\ \A d \in Codes : d # c => uses'[d] = uses[d]
            /\ UNCHANGED <<owner, stored>>
    BY <1>1, <1>7, DelStep
  <2>2. redis[k].code \in {c, NoCode}
    BY <2>1 DEF Has, Answering, Comparing, At
  <2>3. uses'[c] # 0
    BY <1>2, <2>1 DEF MaxUses
  <2> SUFFICES ASSUME NEW d \in Codes, Newest(d), uses'[d] = 0, stored[d] < TTL
               PROVE  redis'[owner[d]].code = d /\ redis'[owner[d]].left + stored[d] >= TTL
    BY <2>1 DEF Newest
  <2>4. d # c /\ uses[d] = 0 /\ redis[owner[d]].code = d
    BY <2>1, <2>3
  <2>5. owner[d] # k
    BY <1>2, <2>2, <2>4
  <2> QED
    BY <1>2, <2>1, <2>4, <2>5 DEF Newest
<1>8. CASE TimePasses
  <2>1. /\ \A k \in Keys :
                  \/ redis'[k] = redis[k] /\ redis[k].left = Forever
                  \/ redis'[k] = Nothing /\ redis[k].left <= 1
                  \/ /\ redis[k].left > 1 /\ redis'[k].code = redis[k].code
                     /\ redis'[k].left = redis[k].left - 1
        /\ \A c \in Codes : stored'[c] = IF stored[c] < Old THEN stored[c] + 1 ELSE stored[c]
        /\ UNCHANGED <<owner, uses>>
    BY <1>1, <1>8, TimeStep
  <2> SUFFICES ASSUME NEW d \in Codes, Newest(d), uses[d] = 0, stored'[d] < TTL
               PROVE  redis'[owner[d]].code = d /\ redis'[owner[d]].left + stored'[d] >= TTL
    BY <2>1 DEF Newest
  <2>2. stored'[d] = stored[d] + 1 /\ stored[d] + 1 < TTL
    BY <1>2, <2>1 DEF Old
  <2>3. owner[d] \in Keys
    BY <1>2 DEF Newest
  <2>4. redis[owner[d]].code = d /\ redis[owner[d]].left + stored[d] >= TTL
    BY <1>2, <2>2
  <2>5. redis[owner[d]].left > 1
    BY <1>2, <2>2, <2>3, <2>4
  <2> QED
    BY <1>2, <2>1, <2>2, <2>3, <2>4, <2>5 DEF Forever
<1>9. ASSUME NEW q \in Requests PROVE ~FallBack(q)
  BY DEF FallBack, Throws
<1> QED
  BY <1>3, <1>4, <1>5, <1>6, <1>7, <1>8, <1>9
     DEF Next, Store, VerifyOtp, MailStored, RedisGet, Compare, MailUnawaited, Restart, vars

(* With Redis answering and one request at a time, the newest code of a    *)
(* key is the one a verification finds, until it is used or its ten        *)
(* minutes are over, whenever the process restarts and whether or not the  *)
(* handler waited for the store before it mailed the code.                 *)
THEOREM NewestIsFound ==
    ASSUME Assumptions, Serial, Failing = {}, Unanswered = {}
    PROVE  Spec => []MailedCodeAccepted
<1> DEFINE Inv == Base /\ StoreOrder /\ Answering /\ Kept
<1>1. Init => Inv
  <2> SUFFICES ASSUME Init PROVE Inv
    OBVIOUS
  <2>1. Answering
    BY DEF Init, Answering, Comparing, NoMemory, At, Idle
  <2>2. Kept
    BY DEF Init, Kept, Newest
  <2> QED
    BY <2>1, <2>2, InitBase, InitOrder
<1>2. Inv /\ [Next]_vars => Inv'
  BY StepBase, StepOrder, StepAnswering, StepKept
<1>3. Inv => MailedCodeAccepted
  <2> SUFFICES ASSUME Inv, NEW c \in mailed, Newest(c), uses[c] = 0, stored[c] < TTL
               PROVE  Found(owner[c]) = c
    BY DEF MailedCodeAccepted
  <2>1. c \in Codes /\ NoCode \notin Codes
    BY DEF Base, TypeOK, Assumptions
  <2>2. redis[owner[c]].code = c
    BY <2>1 DEF Kept
  <2> QED
    BY <2>1, <2>2 DEF Found
<1> QED
  BY <1>1, <1>2, <1>3, PTL DEF Spec
------------------------------------------------------------------------------
(* What a verification accepts, it found.                                  *)
LEMMA AcceptStep ==
    ASSUME Assumptions, TypeOK, [Next]_vars, NEW q \in Requests, Accepts(q)
    PROVE  \E k \in Keys, c \in Codes : Has(q, "get", k, c) /\ Finds(k, c)
<1>1. request[q].at = "get" /\ request'[q].at = "del"
  BY DEF Accepts, At
<1>2. ASSUME NEW r \in Requests, r # q, Others(r) PROVE FALSE
  BY <1>1, <1>2 DEF Others
<1>3. ~(UNCHANGED request) /\ ~Restart
  BY <1>1 DEF Restart, Idle
<1>4. PICK r \in Requests :
          \/ \E k \in Keys, c \in Codes : SendOtp(r, k, c) \/ VerifyOtp(r, k, c)
          \/ Store(r) \/ MailStored(r) \/ RedisGet(r) \/ RedisDel(r)
  BY <1>3 DEF Next, MailUnawaited, TimePasses, vars
<1>5. Others(r)
  BY <1>4, SendStep, VerifyStep, SetStep, ExpireStep, FallBackStep, MailStep, GetStep, DelStep
     DEF Store, Returned
<1>6. r = q
  BY <1>2, <1>5
<1>7. RedisGet(q)
  BY <1>1, <1>4, <1>6
     DEF SendOtp, VerifyOtp, MayOpen, Store, RedisSet, RedisExpire, FallBack, Throws, MailStored,
         RedisDel, At, Idle
<1>8. PICK k \in Keys, c \in Codes :
          Has(q, "get", k, c) /\ (request'[q] = Idle \/ Finds(k, c))
  BY <1>7, GetStep
<1> QED
  BY <1>1, <1>8 DEF Idle

------------------------------------------------------------------------------
(* The one code of its key.  An older code of a key survives in the memory *)
(* only behind a newer one in Redis that outlives it.                      *)
Setting(k) == \E q \in Requests : At(q, "set") /\ request[q].key = k
Covered(k) ==
    /\ redis[k].code # NoCode => Newest(redis[k].code)
    /\ memory[k].left > 0 /\ ~Newest(memory[k].code) =>
           redis[k].code # NoCode /\ redis[k].left >= memory[k].left
MemoryIsShort ==
    \A k \in Keys : memory[k].left <= TTL /\ (memory[k].left > 0 => memory[k].code # NoCode)
CoveredInv == MemoryIsShort /\ \A k \in Keys : Covered(k) \/ Setting(k)

LEMMA StepCovered ==
    ASSUME Assumptions, Serial, ~Restarts, Failing \subseteq {"expire", "del"},
           Base, StoreOrder, CoveredInv, [Next]_vars
    PROVE  CoveredInv'
<1>1. TypeOK /\ OneAtATime /\ Owned /\ MemoryIsShort
  BY DEF Base, CoveredInv
<1>2. /\ \A k \in Keys : redis[k].code \in Codes \cup {NoCode} /\ redis[k].left \in 0..Forever
      /\ \A k \in Keys : memory[k].code \in Codes \cup {NoCode} /\ memory[k].left \in 0..Forever
      /\ \A c \in Codes : owner[c] \in Keys \cup {NoKey}
      /\ NoCode \notin Codes /\ NoKey \notin Keys /\ TTL \in Nat \ {0} /\ Codes \subseteq Nat
      /\ Nothing.code = NoCode /\ Nothing.left = 0
  BY <1>1, BaseTypes
<1>3. Awaited = {"set", "expire", "get", "del", "mail"}
  BY DEF Awaited, Commands
\* While q is not setting, and nobody else is open, every key is covered.
<1>4. ASSUME NEW q \in Requests, \A r \in Requests : r # q => request[r] = Idle
      PROVE  \A k \in Keys : Covered(k) \/ (At(q, "set") /\ request[q].key = k)
  BY <1>4 DEF CoveredInv, Setting, At, Idle
<1>5. ASSUME NEW q \in Requests, Others(q), request[q] # Idle
      PROVE  \A r \in Requests : r # q => request[r] = Idle
  BY <1>1, <1>5, KeepAlone
\* A code that is stored now is the newest of its key.
<1>6. ASSUME NEW q \in Requests, NEW k \in Keys, NEW c \in Codes, NEW stage \in {"set", "expire"},
             Has(q, stage, k, c)
      PROVE  Newest(c) /\ owner[c] = k
  <2>1. request[q].at = stage /\ request[q].key = k /\ request[q].code = c
    BY <1>6 DEF Has
  <2>2. owner[c] = k
    BY <1>1, <2>1 DEF Owned, OwnStages
  <2>3. \A d \in Codes : d > c => owner[d] = NoKey
    BY <2>1 DEF StoreOrder, Storing
  <2> QED
    BY <1>2, <2>2, <2>3 DEF Newest
<1>7. ASSUME NEW q \in Requests, NEW k \in Keys, NEW c \in Codes, SendOtp(q, k, c)
      PROVE  CoveredInv'
  <2>1. /\ MayOpen(q) /\ Has(q, "set", k, c)' /\ Others(q)
        /\ owner[c] = NoKey /\ owner'[c] = k /\ UNCHANGED <<redis, memory>>
        /\ \A d \in Codes : d # c => owner'[d] = owner[d]
    BY <1>1, <1>7, SendStep
  <2>2. Setting(k)'
    BY <2>1 DEF Setting, Has, At
  <2>3. ASSUME NEW l \in Keys, l # k PROVE Covered(l)'
    <3>1. Covered(l)
      BY <1>4, <2>1 DEF MayOpen, At, Idle
    <3>2. ASSUME NEW e \in Codes, owner[e] = l, Newest(e) PROVE Newest(e)'
      BY <1>2, <2>1, <2>3, <3>2 DEF Newest
    <3>3. /\ redis[l].code # NoCode => redis[l].code \in Codes /\ owner[redis[l].code] = l
          /\ memory[l].code # NoCode => memory[l].code \in Codes /\ owner[memory[l].code] = l
      BY <1>1, <1>2 DEF Owned
    <3>4. memory[l].left > 0 => memory[l].code # NoCode
      BY <1>1 DEF MemoryIsShort
    <3> QED
      BY <2>1, <3>1, <3>2, <3>3, <3>4 DEF Covered
  <2>4. MemoryIsShort'
    BY <1>1, <2>1 DEF MemoryIsShort
  <2> QED
    BY <2>2, <2>3, <2>4 DEF CoveredInv
<1>8. ASSUME NEW q \in Requests, RedisSet(q) PROVE CoveredInv'
  <2>1. PICK k \in Keys, c \in Codes :
            /\ Has(q, "set", k, c) /\ Others(q)
            /\ redis'[k] = [code |-> c, left |-> Forever]
            /\ \A l \in Keys : l # k => redis'[l] = redis[l]
            /\ UNCHANGED <<memory, owner>>
    BY <1>1, <1>8, SetStep
  <2>2. Newest(c)
    BY <1>6, <2>1
  <2>3. Covered(k)'
    BY <1>1, <1>2, <2>1, <2>2 DEF Covered, Newest, MemoryIsShort, Forever
  <2>4. ASSUME NEW l \in Keys, l # k PROVE Covered(l)'
    <3>1. request[q] # Idle /\ request[q].key = k
      BY <1>3, <2>1, HasIsOpen DEF Has
    <3>2. Covered(l)
      BY <1>4, <1>5, <2>1, <2>4, <3>1
    <3> QED
      BY <2>1, <2>4, <3>2 DEF Covered, Newest
  <2>5. MemoryIsShort'
    BY <1>1, <2>1 DEF MemoryIsShort
  <2> QED
    BY <2>3, <2>4, <2>5 DEF CoveredInv
<1>9. ASSUME NEW q \in Requests, RedisExpire(q) \/ FallBack(q) PROVE CoveredInv'
  <2>1. PICK k \in Keys, c \in Codes, stage \in {"set", "expire"} :
            /\ Has(q, stage, k, c) /\ Returned(q, k, c)
            /\ \/ /\ stage = "expire"
                  /\ redis'[k].code = redis[k].code
                  /\ redis'[k].left = IF redis[k].code = NoCode THEN 0 ELSE TTL
                  /\ memory'[k] = memory[k]
               \/ memory'[k] = [code |-> c, left |-> TTL] /\ Threw(stage, k, c)
            /\ \A l \in Keys : l # k => redis'[l] = redis[l] /\ memory'[l] = memory[l]
    <3>1. CASE RedisExpire(q)
      BY <1>1, <3>1, ExpireStep
    <3>2. CASE FallBack(q)
      BY <1>1, <3>2, FallBackStep
    <3> QED
      BY <1>9, <3>1, <3>2
\* Redis has the code now, and for as long as the memory: it was there, or the
\* SET or the EXPIRE that threw was applied.
  <2>2. /\ Newest(c) /\ redis'[k].code = c
        /\ redis'[k].left \in {TTL, Forever}
        /\ memory'[k] = [code |-> c, left |-> TTL]
              \/ (memory'[k] = memory[k] /\ redis'[k].left = TTL)
    <3>1. stage = "expire" => redis[k] = [code |-> c, left |-> Forever]
      BY <2>1 DEF Has, StoreOrder, SetDone, At
    <3>2. Newest(c) /\ c # NoCode
      BY <1>2, <1>6, <2>1
    <3> QED
      BY <2>1, <3>1, <3>2 DEF Threw
  <2>3. UNCHANGED owner /\ Others(q) /\ c # NoCode
    BY <1>2, <2>1 DEF Returned
  <2>4. Covered(k)'
    BY <1>1, <1>2, <2>1, <2>2, <2>3 DEF Covered, Newest, MemoryIsShort
  <2>5. ASSUME NEW l \in Keys, l # k PROVE Covered(l)'
    <3>1. request[q] # Idle /\ request[q].key = k
      BY <1>3, <2>1, HasIsOpen DEF Has
    <3>2. Covered(l)
      BY <1>4, <1>5, <2>3, <2>5, <3>1
    <3> QED
      BY <2>1, <2>3, <2>5, <3>2 DEF Covered, Newest
  <2>6. MemoryIsShort'
    BY <1>1, <1>2, <2>1, <2>3 DEF MemoryIsShort
  <2> QED
    BY <2>4, <2>5, <2>6 DEF CoveredInv
<1>10. ASSUME NEW q \in Requests,
              \/ MailStored(q) \/ RedisGet(q)
              \/ \E k \in Keys, c \in Codes : VerifyOtp(q, k, c)
       PROVE  CoveredInv'
  <2>1. Others(q) /\ UNCHANGED <<redis, memory, owner>>
    BY <1>1, <1>10, MailStep, GetStep, VerifyStep
  <2>2. request[q].at # "set" /\ \A r \in Requests : r # q => request[r] = Idle
    BY <1>5, <1>10, <2>1 DEF MailStored, RedisGet, VerifyOtp, MayOpen, At, Idle
  <2>3. \A k \in Keys : Covered(k)
    BY <1>4, <2>2 DEF At
  <2> QED
    BY <1>1, <2>1, <2>3 DEF CoveredInv, Covered, Newest, MemoryIsShort
<1>11. ASSUME NEW q \in Requests, RedisDel(q) PROVE CoveredInv'
  <2>1. PICK k \in Keys, c \in Codes :
            /\ Has(q, "del", k, c) /\ Others(q)
            /\ redis'[k] \in {redis[k], Nothing} /\ memory'[k] = Nothing
            /\ \A l \in Keys : l # k => redis'[l] = redis[l] /\ memory'[l] = memory[l]
            /\ UNCHANGED owner
    BY <1>1, <1>11, DelStep
  <2>2. request[q] # Idle /\ request[q].at = "del"
    BY <1>3, <2>1, HasIsOpen DEF Has
  <2>3. \A l \in Keys : Covered(l)
    BY <1>4, <1>5, <2>1, <2>2 DEF At
  <2>4. \A l \in Keys : Covered(l)'
    BY <1>2, <2>1, <2>3 DEF Covered, Newest
  <2>5. MemoryIsShort'
    BY <1>1, <1>2, <2>1 DEF MemoryIsShort
  <2> QED
    BY <2>4, <2>5 DEF CoveredInv
<1>12. CASE TimePasses
  <2>1. /\ \A k \in Keys :
                  \/ redis'[k] = redis[k] /\ redis[k].left = Forever
                  \/ redis'[k] = Nothing /\ redis[k].left <= 1
                  \/ /\ redis[k].left > 1 /\ redis'[k].code = redis[k].code
                     /\ redis'[k].left = redis[k].left - 1
        /\ \A k \in Keys : /\ memory'[k].code = memory[k].code
                           /\ memory'[k].left = IF memory[k].left > 0
                                                THEN memory[k].left - 1 ELSE 0
        /\ UNCHANGED <<request, owner>>
    BY <1>1, <1>12, TimeStep
  <2>2. ASSUME NEW k \in Keys, Covered(k) PROVE Covered(k)'
    <3>1. CASE redis'[k] = redis[k] /\ redis[k].left = Forever
      BY <1>2, <2>1, <2>2, <3>1 DEF Covered, Newest
    <3>2. CASE redis'[k] = Nothing /\ redis[k].left <= 1
      BY <1>2, <2>1, <2>2, <3>2 DEF Covered, Newest
    <3>3. CASE /\ redis[k].left > 1 /\ redis'[k].code = redis[k].code
               /\ redis'[k].left = redis[k].left - 1
      BY <1>2, <2>1, <2>2, <3>3 DEF Covered, Newest
    <3> QED
      BY <2>1, <3>1, <3>2, <3>3
  <2>3. MemoryIsShort'
    BY <1>1, <1>2, <2>1 DEF MemoryIsShort
  <2>4. \A k \in Keys : Setting(k) => Setting(k)'
    BY <2>1 DEF Setting, At
  <2> QED
    BY <2>2, <2>3, <2>4 DEF CoveredInv
<1>13. ASSUME NEW c \in Codes, MailUnawaited(c) PROVE CoveredInv'
  BY <1>13 DEF MailUnawaited, CoveredInv, Covered, Setting, Newest, MemoryIsShort, At
<1>14. ~Restart
  BY DEF Restart
<1>15. CASE UNCHANGED vars
  BY <1>15 DEF vars, CoveredInv, Covered, Setting, Newest, MemoryIsShort, At
<1> QED
  BY <1>7, <1>8, <1>9, <1>10, <1>11, <1>12, <1>13, <1>14, <1>15 DEF Next, Store

(* One request at a time and no restart, a verification never accepts a    *)
(* code that another one of its key has replaced, however often Redis      *)
(* refuses EXPIRE and DEL, or loses its answer to SET and EXPIRE: the      *)
(* second copy these leave is covered.                                     *)
THEOREM OnlyNewestAccepted ==
    ASSUME Assumptions, Serial, ~Restarts, Failing \subseteq {"expire", "del"}
    PROVE  Spec => [][AcceptsNewest]_vars
<1> DEFINE Inv == Base /\ StoreOrder /\ CoveredInv
<1>1. Init => Inv
  <2> SUFFICES ASSUME Init PROVE Inv
    OBVIOUS
  <2>1. CoveredInv
    BY DEF Init, CoveredInv, Covered, MemoryIsShort, Nothing, Assumptions
  <2> QED
    BY <2>1, InitBase, InitOrder
<1>2. Inv /\ [Next]_vars => Inv'
  BY StepBase, StepOrder, StepCovered
<1>3. Inv /\ [Next]_vars => [AcceptsNewest]_vars
  <2> SUFFICES ASSUME Inv, [Next]_vars, NEW q \in Requests, Accepts(q)
               PROVE  Newest(request[q].code)
    BY DEF AcceptsNewest
  <2>1. TypeOK /\ OneAtATime
    BY DEF Base
  <2>2. PICK k \in Keys, c \in Codes : Has(q, "get", k, c) /\ Finds(k, c)
    BY <2>1, AcceptStep
  <2>3. request[q].at = "get" /\ request[q].code = c
    BY <2>2 DEF Has
  <2>4. Covered(k)
    BY <2>1, <2>3 DEF CoveredInv, Setting, OneAtATime, At, Idle
  <2>5. c # NoCode /\ "get" \notin Failing
    BY DEF Assumptions
  <2> QED
    BY <2>2, <2>3, <2>4, <2>5 DEF Finds, Covered
<1> QED
  BY <1>1, <1>2, <1>3, PTL DEF Spec
------------------------------------------------------------------------------
(* No older than its ten minutes: the age of a stored code and what is     *)
(* left of each of its copies never exceed them together.  Redis may hold  *)
(* a code without a deadline, but only one that was never stored: its      *)
(* handler is still at EXPIRE, or was cut off there by a restart.          *)
Unstored ==
    \A q \in Requests : request[q].at \in {"set", "expire"} => stored[request[q].code] = Never
NotYetSet ==
    \A q \in Requests : At(q, "set") => \A k \in Keys : redis[k].code # request[q].code
AgesInRedis(k) ==
    redis[k].code # NoCode =>
        \/ stored[redis[k].code] = Never
        \/ stored[redis[k].code] + redis[k].left <= TTL
AgesInMemory(k) ==
    memory[k].left > 0 =>
        memory[k].code # NoCode /\ stored[memory[k].code] + memory[k].left <= TTL
Aging == \A k \in Keys : AgesInRedis(k) /\ AgesInMemory(k)
AgingInv == Unstored /\ NotYetSet /\ Aging

LEMMA StepAging ==
    ASSUME Assumptions, Serial, "expire" \notin Failing, "set" \notin Unanswered,
           Base, StoreOrder, AgingInv, [Next]_vars
    PROVE  AgingInv'
<1>1. TypeOK /\ OneAtATime /\ Owned
  BY DEF Base
<1>2. /\ \A k \in Keys : redis[k].code \in Codes \cup {NoCode} /\ redis[k].left \in 0..Forever
      /\ \A k \in Keys : memory[k].code \in Codes \cup {NoCode} /\ memory[k].left \in 0..Forever
      /\ \A c \in Codes : owner[c] \in Keys \cup {NoKey}
      /\ \A c \in Codes : stored[c] \in 0..Never
      /\ NoCode \notin Codes /\ NoKey \notin Keys /\ TTL \in Nat \ {0} /\ Codes \subseteq Nat
      /\ Nothing.code = NoCode /\ Nothing.left = 0
  BY <1>1, BaseTypes
<1>3. Awaited = {"set", "expire", "get", "del", "mail"}
  BY DEF Awaited, Commands
\* A step that leaves its request neither setting nor expiring leaves none.
<1>4. ASSUME NEW q \in Requests, Others(q), request'[q].at \notin {"set", "expire"},
             request[q] # Idle \/ \A r \in Requests : request[r] = Idle
      PROVE  (Unstored /\ NotYetSet)'
  <2>1. \A r \in Requests : request'[r].at \notin {"set", "expire"}
    BY <1>1, <1>4, KeepAlone DEF Idle
  <2> QED
    BY <2>1 DEF Unstored, NotYetSet, At
\* A key whose copies and ages a step leaves alone ages as before.
<1>5. ASSUME NEW k \in Keys, redis'[k] = redis[k], memory'[k] = memory[k],
             \A d \in Codes : owner[d] = k => stored'[d] = stored[d]
      PROVE  (AgesInRedis(k) /\ AgesInMemory(k))'
  <2>1. /\ redis[k].code # NoCode => redis[k].code \in Codes /\ owner[redis[k].code] = k
        /\ memory[k].code # NoCode => memory[k].code \in Codes /\ owner[memory[k].code] = k
    BY <1>1, <1>2 DEF Owned
  <2>2. AgesInRedis(k) /\ AgesInMemory(k)
    BY DEF AgingInv, Aging
  <2> QED
    BY <1>5, <2>1, <2>2 DEF AgesInRedis, AgesInMemory
<1>6. ASSUME NEW q \in Requests, NEW k \in Keys, NEW c \in Codes, SendOtp(q, k, c)
      PROVE  AgingInv'
  <2>1. /\ MayOpen(q) /\ Has(q, "set", k, c)' /\ Others(q)
        /\ owner[c] = NoKey /\ UNCHANGED <<redis, memory, stored>>
    BY <1>1, <1>6, SendStep
  <2>2. request'[q].at = "set" /\ request'[q].code = c
    BY <2>1 DEF Has
  <2>3. \A r \in Requests : r # q => request'[r].at = "idle"
    BY <1>1, <2>1, KeepAlone DEF MayOpen, Idle
  <2>4. stored[c] = Never /\ \A l \in Keys : redis[l].code # c
    BY <1>1, <1>2, <2>1 DEF StoreOrder, NotBefore, Owned
  <2>5. (Unstored /\ NotYetSet)'
    BY <2>1, <2>2, <2>3, <2>4 DEF Unstored, NotYetSet, At
  <2> QED
    BY <1>5, <2>1, <2>5 DEF AgingInv, Aging
<1>7. ASSUME NEW q \in Requests, RedisSet(q) PROVE AgingInv'
  <2>1. PICK k \in Keys, c \in Codes :
            /\ Has(q, "set", k, c) /\ Has(q, "expire", k, c)' /\ Others(q)
            /\ redis'[k] = [code |-> c, left |-> Forever]
            /\ \A l \in Keys : l # k => redis'[l] = redis[l]
            /\ UNCHANGED <<memory, stored>>
    BY <1>1, <1>7, SetStep
  <2>2. stored[c] = Never
    BY <2>1 DEF Has, AgingInv, Unstored
  <2>3. request'[q].at = "expire" /\ request'[q].code = c
    BY <2>1 DEF Has
  <2>4. \A r \in Requests : r # q => request'[r].at = "idle"
    <3>1. request[q] # Idle
      BY <1>3, <2>1, HasIsOpen
    <3> QED
      BY <1>1, <2>1, <3>1, KeepAlone DEF Idle
  <2>5. (Unstored /\ NotYetSet)'
    BY <2>1, <2>2, <2>3, <2>4 DEF Unstored, NotYetSet, At
  <2>6. (AgesInRedis(k) /\ AgesInMemory(k))'
    BY <2>1, <2>2 DEF AgesInRedis, AgesInMemory, AgingInv, Aging
  <2> QED
    BY <1>5, <2>1, <2>5, <2>6 DEF AgingInv, Aging
<1>8. ASSUME NEW q \in Requests, RedisExpire(q) PROVE AgingInv'
  <2>1. PICK k \in Keys, c \in Codes :
            /\ Has(q, "expire", k, c) /\ Returned(q, k, c)
            /\ redis'[k].code = redis[k].code
            /\ redis'[k].left = IF redis[k].code = NoCode THEN 0 ELSE TTL
            /\ \A l \in Keys : l # k => redis'[l] = redis[l]
            /\ UNCHANGED memory
    BY <1>1, <1>8, ExpireStep
  <2>2. request[q].at = "expire" /\ request[q].key = k /\ request[q].code = c
    BY <2>1 DEF Has
  <2>3. stored[c] = Never /\ owner[c] = k
    BY <1>1, <2>2 DEF AgingInv, Unstored, Owned, OwnStages
  <2>4. redis'[k].code = c /\ redis'[k].left = TTL
    <3>1. redis[k] = [code |-> c, left |-> Forever]
      BY <2>2 DEF StoreOrder, SetDone, At
    <3> QED
      BY <1>2, <2>1, <3>1
  <2>5. /\ stored'[c] = 0 /\ \A d \in Codes : d # c => stored'[d] = stored[d]
        /\ Others(q) /\ request'[q].at \notin {"set", "expire"}
    BY <2>1 DEF Returned, Has, Idle
  <2>6. ~(memory[k].left > 0 /\ memory[k].code = c)
    BY <1>2, <2>3 DEF AgingInv, Aging, AgesInMemory, Never
  <2>7. AgesInRedis(k)'
    BY <1>2, <2>4, <2>5 DEF AgesInRedis
  <2>8. AgesInMemory(k)'
    BY <1>2, <2>1, <2>5, <2>6 DEF AgesInMemory, AgingInv, Aging
  <2>9. \A l \in Keys : l # k => (AgesInRedis(l) /\ AgesInMemory(l))'
    BY <1>5, <2>1, <2>3, <2>5
  <2>10. (Unstored /\ NotYetSet)'
    <3>1. request[q] # Idle
      BY <2>2 DEF Idle
    <3> QED
      BY <1>4, <2>5, <3>1
  <2> QED
    BY <2>7, <2>8, <2>9, <2>10 DEF AgingInv, Aging
<1>9. ASSUME NEW q \in Requests, FallBack(q) PROVE AgingInv'
  <2>1. PICK k \in Keys, c \in Codes, stage \in {"set", "expire"} :
            /\ Has(q, stage, k, c) /\ Returned(q, k, c) /\ Threw(stage, k, c)
            /\ memory'[k] = [code |-> c, left |-> TTL]
            /\ \A l \in Keys : l # k => redis'[l] = redis[l] /\ memory'[l] = memory[l]
    BY <1>1, <1>9, FallBackStep
  <2>2. request[q].at = stage /\ request[q].key = k /\ request[q].code = c
    BY <2>1 DEF Has
  <2>3. owner[c] = k
    BY <1>1, <2>2 DEF Owned, OwnStages
  <2>4. /\ stored'[c] = 0 /\ \A d \in Codes : d # c => stored'[d] = stored[d]
        /\ Others(q) /\ request'[q].at \notin {"set", "expire"}
    BY <2>1 DEF Returned, Has, Idle
  <2>5. AgesInRedis(k)'
\* SET was refused, and Redis has what it had: not this code, which is new.
    <3>1. CASE stage = "set"
      <4>1. redis'[k] = redis[k]
        BY <2>1, <3>1 DEF Threw
      <4>2. redis[k].code # c
        BY <2>2, <3>1 DEF AgingInv, NotYetSet, At
      <4> QED
        BY <1>2, <2>4, <4>1, <4>2 DEF AgesInRedis, AgingInv, Aging
\* EXPIRE was applied.
    <3>2. CASE stage = "expire"
      <4>1. redis[k] = [code |-> c, left |-> Forever]
        BY <2>2, <3>2 DEF StoreOrder, SetDone, At
      <4>2. redis'[k].code = c /\ redis'[k].left = TTL
        BY <1>2, <2>1, <3>2, <4>1 DEF Threw
      <4> QED
        BY <1>2, <2>4, <4>2 DEF AgesInRedis
    <3> QED
      BY <3>1, <3>2
  <2>6. AgesInMemory(k)'
    BY <1>2, <2>1, <2>4 DEF AgesInMemory
  <2>7. \A l \in Keys : l # k => (AgesInRedis(l) /\ AgesInMemory(l))'
    BY <1>5, <2>1, <2>3, <2>4
  <2>8. (Unstored /\ NotYetSet)'
    <3>1. request[q] # Idle
      BY <2>2 DEF Idle
    <3> QED
      BY <1>4, <2>4, <3>1
  <2> QED
    BY <2>5, <2>6, <2>7, <2>8 DEF AgingInv, Aging
<1>10. ASSUME NEW q \in Requests,
              \/ MailStored(q) \/ RedisGet(q)
              \/ \E k \in Keys, c \in Codes : VerifyOtp(q, k, c)
       PROVE  AgingInv'
  <2>1. /\ Others(q) /\ UNCHANGED <<redis, memory, stored>>
        /\ request'[q].at \notin {"set", "expire"}
        /\ request[q] # Idle \/ \A r \in Requests : request[r] = Idle
    <3>1. CASE MailStored(q)
      BY <1>1, <3>1, MailStep DEF Idle
    <3>2. CASE RedisGet(q)
      <4>1. PICK k \in Keys, c \in Codes :
                /\ Has(q, "get", k, c)
                /\ request'[q] = Idle \/ Has(q, "del", k, c)'
                /\ Others(q) /\ UNCHANGED <<redis, memory, stored>>
        BY <1>1, <3>2, GetStep
      <4> QED
        BY <4>1 DEF Has, Idle
    <3>3. ASSUME NEW k \in Keys, NEW c \in Codes, VerifyOtp(q, k, c)
          PROVE  /\ Others(q) /\ UNCHANGED <<redis, memory, stored>>
                 /\ request'[q].at \notin {"set", "expire"}
                 /\ \A r \in Requests : request[r] = Idle
      <4>1. MayOpen(q) /\ Others(q) /\ UNCHANGED <<redis, memory, stored>> /\ Has(q, "get", k, c)'
        BY <1>1, <3>3, VerifyStep
      <4> QED
        BY <4>1 DEF Has, MayOpen
    <3> QED
      BY <1>10, <3>1, <3>2, <3>3
  <2>2. (Unstored /\ NotYetSet)'
    BY <1>4, <2>1
  <2> QED
    BY <1>5, <2>1, <2>2 DEF AgingInv, Aging
<1>11. ASSUME NEW q \in Requests, RedisDel(q) PROVE AgingInv'
  <2>1. PICK k \in Keys, c \in Codes :
            /\ Has(q, "del", k, c) /\ request'[q] = Idle /\ Others(q)
            /\ redis'[k] \in {redis[k], Nothing} /\ memory'[k] = Nothing
            /\ \A l \in Keys : l # k => redis'[l] = redis[l] /\ memory'[l] = memory[l]
            /\ UNCHANGED stored
    BY <1>1, <1>11, DelStep
  <2>2. (Unstored /\ NotYetSet)'
    <3>1. request[q] # Idle
      BY <1>3, <2>1, HasIsOpen
    <3> QED
      BY <1>4, <2>1, <3>1 DEF Idle
  <2>3. (AgesInRedis(k) /\ AgesInMemory(k))'
    BY <1>2, <2>1 DEF AgesInRedis, AgesInMemory, AgingInv, Aging
  <2> QED
    BY <1>5, <2>1, <2>2, <2>3 DEF AgingInv, Aging
<1>12. CASE TimePasses
  <2>1. /\ \A k \in Keys :
                  \/ redis'[k] = redis[k] /\ redis[k].left = Forever
                  \/ redis'[k] = Nothing /\ redis[k].left <= 1
                  \/ /\ redis[k].left > 1 /\ redis'[k].code = redis[k].code
                     /\ redis'[k].left = redis[k].left - 1
        /\ \A k \in Keys : /\ memory'[k].code = memory[k].code
                           /\ memory'[k].left = IF memory[k].left > 0
                                                THEN memory[k].left - 1 ELSE 0
        /\ \A c \in Codes : stored'[c] = IF stored[c] < Old THEN stored[c] + 1 ELSE stored[c]
        /\ UNCHANGED request
    BY <1>1, <1>12, TimeStep
  <2>2. \A c \in Codes : stored[c] = Never => stored'[c] = Never
    BY <1>2, <2>1 DEF Old, Never
  <2>3. \A c \in Codes : stored'[c] <= stored[c] + 1 /\ stored'[c] \in Nat
    BY <1>2, <2>1 DEF Never
  <2>4. Unstored'
    <3> SUFFICES ASSUME NEW q \in Requests, request[q].at \in {"set", "expire"}
                 PROVE  stored'[request[q].code] = Never
      BY <2>1 DEF Unstored
    <3>1. PICK k \in Keys, c \in Codes : Has(q, request[q].at, k, c)
      BY <1>1, Remembers DEF Idle
    <3>2. request[q].code = c
      BY <3>1 DEF Has
    <3> QED
      BY <2>2, <3>2 DEF AgingInv, Unstored
  <2>5. NotYetSet'
    <3> SUFFICES ASSUME NEW q \in Requests, At(q, "set"), NEW k \in Keys
                 PROVE  redis'[k].code # request[q].code
      BY <2>1 DEF NotYetSet, At
    <3>1. PICK l \in Keys, c \in Codes : Has(q, "set", l, c)
      BY <1>1, Remembers DEF At
    <3>2. request[q].code = c
      BY <3>1 DEF Has
    <3> QED
      BY <1>2, <2>1, <3>2 DEF AgingInv, NotYetSet
  <2>6. ASSUME NEW k \in Keys PROVE AgesInRedis(k)'
    <3> SUFFICES ASSUME redis'[k].code # NoCode
                 PROVE  stored'[redis'[k].code] = Never
                        \/ stored'[redis'[k].code] + redis'[k].left <= TTL
      BY DEF AgesInRedis
    <3>1. PICK c \in Codes : redis[k].code = c /\ redis'[k].code = c
      BY <1>2, <2>1
    <3>2. stored[c] = Never \/ stored[c] + redis[k].left <= TTL
      BY <1>2, <3>1 DEF AgingInv, Aging, AgesInRedis
    <3>3. \/ redis'[k] = redis[k] /\ redis[k].left = TTL + 1
          \/ redis[k].left > 1 /\ redis'[k].left = redis[k].left - 1
      BY <1>2, <2>1, <3>1 DEF Forever
    <3>4. /\ redis[k].left \in Nat /\ stored[c] \in Nat /\ TTL \in Nat
          /\ stored'[c] \in Nat /\ stored'[c] <= stored[c] + 1
          /\ stored[c] = Never => stored'[c] = Never
      BY <1>2, <2>2, <2>3 DEF Forever, Never
    <3> QED
      BY <3>1, <3>2, <3>3, <3>4
  <2>7. ASSUME NEW k \in Keys PROVE AgesInMemory(k)'
    <3> SUFFICES ASSUME memory'[k].left > 0
                 PROVE  /\ memory'[k].code # NoCode
                        /\ stored'[memory'[k].code] + memory'[k].left <= TTL
      BY DEF AgesInMemory
    <3>1. memory[k].left \in Nat /\ memory[k].left > 0 /\ memory'[k].left = memory[k].left - 1
      BY <1>2, <2>1 DEF Forever
    <3>2. PICK c \in Codes : memory[k].code = c /\ memory'[k].code = c
                             /\ stored[c] + memory[k].left <= TTL
      BY <1>2, <2>1, <3>1 DEF AgingInv, Aging, AgesInMemory
    <3>3. /\ stored[c] \in Nat /\ TTL \in Nat /\ c # NoCode
          /\ stored'[c] \in Nat /\ stored'[c] <= stored[c] + 1
      BY <1>2, <2>3 DEF Never
    <3> QED
      BY <3>1, <3>2, <3>3
  <2> QED
    BY <2>4, <2>5, <2>6, <2>7 DEF AgingInv, Aging
<1>13. ASSUME NEW c \in Codes, MailUnawaited(c) PROVE AgingInv'
  BY <1>13 DEF MailUnawaited, AgingInv, Unstored, NotYetSet, Aging, AgesInRedis, AgesInMemory, At
<1>14. CASE Restart
  <2>1. /\ \A k \in Keys : memory'[k] = Nothing
        /\ \A q \in Requests : request'[q] = Idle
        /\ UNCHANGED <<redis, stored>>
    BY <1>1, <1>14, RestartStep
  <2>2. (Unstored /\ NotYetSet)'
    BY <2>1 DEF Unstored, NotYetSet, At, Idle
  <2>3. Aging'
    BY <1>2, <2>1 DEF AgingInv, Aging, AgesInRedis, AgesInMemory
  <2> QED
    BY <2>2, <2>3 DEF AgingInv
<1>15. CASE UNCHANGED vars
  BY <1>15 DEF vars, AgingInv, Unstored, NotYetSet, Aging, AgesInRedis, AgesInMemory, At
<1> QED
  BY <1>6, <1>7, <1>8, <1>9, <1>10, <1>11, <1>12, <1>13, <1>14, <1>15 DEF Next, Store

(* One request at a time, a verification never accepts a code more than    *)
(* ten minutes after storeOTP returned, whenever the process restarts and  *)
(* whatever Redis refuses or leaves unanswered, but for two cases: EXPIRE  *)
(* refused, and SET applied although its answer is lost.  Either leaves    *)
(* the copy of SET in Redis for ever.                                      *)
THEOREM OnlyUnexpiredAccepted ==
    ASSUME Assumptions, Serial, "expire" \notin Failing, "set" \notin Unanswered
    PROVE  Spec => [][AcceptsUnexpired]_vars
<1> DEFINE Inv == Base /\ StoreOrder /\ AgingInv
<1>1. Init => Inv
  <2> SUFFICES ASSUME Init PROVE Inv
    OBVIOUS
  <2>1. AgingInv
    BY DEF Init, AgingInv, Unstored, NotYetSet, Aging, AgesInRedis, AgesInMemory, At, Idle, Nothing
  <2> QED
    BY <2>1, InitBase, InitOrder
<1>2. Inv /\ [Next]_vars => Inv'
  BY StepBase, StepOrder, StepAging
<1>3. Inv /\ [Next]_vars => [AcceptsUnexpired]_vars
  <2> SUFFICES ASSUME Inv, [Next]_vars, NEW q \in Requests, Accepts(q)
               PROVE  stored[request[q].code] # Old
    BY DEF AcceptsUnexpired
  <2>1. TypeOK /\ OneAtATime
    BY DEF Base
  <2>2. PICK k \in Keys, c \in Codes : Has(q, "get", k, c) /\ Finds(k, c)
    BY <2>1, AcceptStep
  <2>3. request[q].code = c
    BY <2>2 DEF Has
  <2>4. /\ redis[k].left \in Nat /\ memory[k].left \in Nat /\ stored[c] \in Nat
        /\ TTL \in Nat /\ c # NoCode
    BY <2>1, BaseTypes DEF Forever, Never
  <2>5. AgesInRedis(k) /\ AgesInMemory(k)
    BY DEF AgingInv, Aging
  <2> QED
    BY <2>2, <2>3, <2>4, <2>5 DEF Finds, AgesInRedis, AgesInMemory, Old, Never
<1> QED
  BY <1>1, <1>2, <1>3, PTL DEF Spec
------------------------------------------------------------------------------
(* The store CodeStore describes.  LiveCode and MadeCodes are its live and *)
(* made as OtpStore's Abstract reads them off the copies and the handlers. *)
LiveCode(k) ==
    IF Accepting(k) = {} THEN redis[k].code
    ELSE request[CHOOSE q \in Accepting(k) : TRUE].code
MadeCodes == {c \in Codes : owner[c] # NoKey
                  /\ ~\E q \in Requests : At(q, "set") /\ request[q].code = c}

\* With at most q open, both depend on q alone, before a step and after it.
LEMMA LiveNow ==
    ASSUME NEW q \in Requests, \A r \in Requests : r # q => request[r] = Idle
    PROVE  /\ \A k \in Keys :
                  LiveCode(k) = IF request[q].at = "del" /\ request[q].key = k
                                THEN request[q].code ELSE redis[k].code
           /\ MadeCodes = {c \in Codes : owner[c] # NoKey
                               /\ ~(request[q].at = "set" /\ request[q].code = c)}
<1>1. \A r \in Requests : r # q => request[r].at = "idle"
  BY DEF Idle
<1>2. ASSUME NEW k \in Keys
      PROVE  Accepting(k) = IF request[q].at = "del" /\ request[q].key = k THEN {q} ELSE {}
  BY <1>1 DEF Accepting, At
<1> QED
  BY <1>1, <1>2 DEF LiveCode, MadeCodes, At

LEMMA LiveNext ==
    ASSUME NEW q \in Requests, \A r \in Requests : r # q => request'[r] = Idle
    PROVE  /\ \A k \in Keys :
                  LiveCode(k)' = IF request'[q].at = "del" /\ request'[q].key = k
                                 THEN request'[q].code ELSE redis'[k].code
           /\ MadeCodes' = {c \in Codes : owner'[c] # NoKey
                                /\ ~(request'[q].at = "set" /\ request'[q].code = c)}
<1>1. \A r \in Requests : r # q => request'[r].at = "idle"
  BY DEF Idle
<1>2. ASSUME NEW k \in Keys
      PROVE  Accepting(k)' = IF request'[q].at = "del" /\ request'[q].key = k THEN {q} ELSE {}
  BY <1>1 DEF Accepting, At
<1> QED
  BY <1>1, <1>2 DEF LiveCode, MadeCodes, At

\* The abstract actions, read off LiveCode and MadeCodes.
LEMMA IsIssue ==
    ASSUME NEW k \in Keys, NEW c \in Codes, c \notin MadeCodes, MadeCodes' = MadeCodes \cup {c},
           \A l \in Keys : LiveCode(l)' = IF l = k THEN c ELSE LiveCode(l), UNCHANGED uses
    PROVE  Abstract!Next
<1>1. [l \in Keys |-> LiveCode(l)]' = [[l \in Keys |-> LiveCode(l)] EXCEPT ![k] = c]
  OBVIOUS
<1>2. Abstract!Issue(k, c)
  BY <1>1 DEF Abstract!Issue, LiveCode, MadeCodes
<1> QED
  BY <1>2 DEF Abstract!Next

LEMMA IsUse ==
    ASSUME NEW k \in Keys, LiveCode(k) # NoCode, MadeCodes' = MadeCodes,
           \A l \in Keys : LiveCode(l)' = IF l = k THEN NoCode ELSE LiveCode(l),
           uses' = [uses EXCEPT ![LiveCode(k)] = @ + 1]
    PROVE  Abstract!Next
<1>1. [l \in Keys |-> LiveCode(l)]' = [[l \in Keys |-> LiveCode(l)] EXCEPT ![k] = NoCode]
  OBVIOUS
<1>2. [l \in Keys |-> LiveCode(l)][k] = LiveCode(k)
  OBVIOUS
<1>3. Abstract!Use(k)
  BY <1>1, <1>2 DEF Abstract!Use, LiveCode, MadeCodes
<1> QED
  BY <1>3 DEF Abstract!Next

\* An expiry, of no code when nothing happens to any.
LEMMA IsExpire ==
    ASSUME \A l \in Keys : LiveCode(l)' \in {LiveCode(l), NoCode},
           MadeCodes' = MadeCodes, UNCHANGED uses
    PROVE  Abstract!Next
<1>1. PICK some \in SUBSET Keys : some = {l \in Keys : LiveCode(l)' = NoCode}
  OBVIOUS
<1>2. [l \in Keys |-> LiveCode(l)]'
          = [k \in Keys |-> IF k \in some THEN NoCode ELSE [l \in Keys |-> LiveCode(l)][k]]
  BY <1>1
<1>3. Abstract!Expire(some)
  BY <1>2 DEF Abstract!Expire, LiveCode, MadeCodes
<1> QED
  BY <1>3 DEF Abstract!Next

LEMMA IsDrop ==
    ASSUME NEW c \in Codes, MadeCodes' = MadeCodes \cup {c},
           \A l \in Keys : LiveCode(l)' = LiveCode(l), UNCHANGED uses
    PROVE  Abstract!Next
<1>1. [l \in Keys |-> LiveCode(l)]' = [l \in Keys |-> LiveCode(l)]
  OBVIOUS
<1>2. Abstract!Drop(c)
  BY <1>1 DEF Abstract!Drop, LiveCode, MadeCodes
<1> QED
  BY <1>2 DEF Abstract!Next

LEMMA StepAbstract ==
    ASSUME Assumptions, Serial, Failing = {}, Unanswered = {}, Base, Unused, Answering, [Next]_vars
    PROVE  Abstract!Next
<1>1. TypeOK /\ OneAtATime /\ Owned /\ OneAtATime'
  BY StepBase DEF Base
<1>2. /\ \A k \in Keys : redis[k].code \in Codes \cup {NoCode}
      /\ \A c \in Codes : owner[c] \in Keys \cup {NoKey}
      /\ NoCode \notin Codes /\ NoKey \notin Keys /\ Nothing.code = NoCode
  BY <1>1, BaseTypes
<1>3. Awaited = {"set", "expire", "get", "del", "mail"}
  BY DEF Awaited, Commands
\* Of an open request the others know nothing.
<1>4. ASSUME NEW q \in Requests, Others(q),
             request[q] # Idle \/ \A r \in Requests : request[r] = Idle
      PROVE  \A r \in Requests : r # q => request[r] = Idle /\ request'[r] = Idle
  BY <1>1, <1>4, KeepAlone
\* Nothing changes for a request that neither comes from SET or to it, nor
\* from DEL or to it.
<1>5. ASSUME NEW q \in Requests, Others(q), UNCHANGED <<owner, uses>>,
             \A k \in Keys : redis'[k].code = redis[k].code,
             request[q] # Idle \/ \A r \in Requests : request[r] = Idle,
             request[q].at \notin {"set", "del"}, request'[q].at \notin {"set", "del"}
      PROVE  Abstract!Next
  <2>1. \A r \in Requests : r # q => request[r] = Idle /\ request'[r] = Idle
    BY <1>4, <1>5
  <2>2. \A l \in Keys : LiveCode(l)' = LiveCode(l)
    BY <1>5, <2>1, LiveNow, LiveNext
  <2>3. MadeCodes' = MadeCodes
    BY <1>5, <2>1, LiveNow, LiveNext
  <2> QED
    BY <1>5, <2>2, <2>3, IsExpire
<1>6. ASSUME NEW q \in Requests, NEW k \in Keys, NEW c \in Codes, SendOtp(q, k, c)
      PROVE  Abstract!Next
  <2>1. /\ MayOpen(q) /\ Has(q, "set", k, c)' /\ Others(q)
        /\ owner[c] = NoKey /\ owner'[c] = k
        /\ \A d \in Codes : d # c => owner'[d] = owner[d]
        /\ UNCHANGED <<redis, uses>>
    BY <1>1, <1>6, SendStep
  <2>2. request'[q].at = "set" /\ request'[q].code = c /\ request[q].at = "idle"
    BY <2>1 DEF Has, MayOpen, Idle
  <2>3. \A r \in Requests : r # q => request[r] = Idle /\ request'[r] = Idle
    BY <1>4, <2>1 DEF MayOpen
  <2>4. \A l \in Keys : LiveCode(l)' = LiveCode(l)
    BY <2>1, <2>2, <2>3, LiveNow, LiveNext
  <2>5. MadeCodes' = MadeCodes
    <3>1. MadeCodes = {d \in Codes : owner[d] # NoKey}
      BY <2>2, <2>3, LiveNow
    <3>2. MadeCodes' = {d \in Codes : owner'[d] # NoKey /\ d # c}
      BY <2>2, <2>3, LiveNext
    <3> QED
      BY <2>1, <3>1, <3>2
  <2> QED
    BY <2>1, <2>4, <2>5, IsExpire
<1>7. ASSUME NEW q \in Requests, RedisSet(q) PROVE Abstract!Next
  <2>1. PICK k \in Keys, c \in Codes :
            /\ Has(q, "set", k, c) /\ Has(q, "expire", k, c)' /\ Others(q)
            /\ redis'[k] = [code |-> c, left |-> Forever]
            /\ \A l \in Keys : l # k => redis'[l] = redis[l]
            /\ UNCHANGED <<owner, uses>>
    BY <1>1, <1>7, SetStep
  <2>2. /\ request[q].at = "set" /\ request[q].key = k /\ request[q].code = c
        /\ request'[q].at = "expire" /\ redis'[k].code = c
    BY <2>1 DEF Has
  <2>3. \A r \in Requests : r # q => request[r] = Idle /\ request'[r] = Idle
    BY <1>4, <2>1, <2>2 DEF Idle
  <2>4. owner[c] # NoKey
    BY <1>1, <1>2, <2>2 DEF Owned, OwnStages
  <2>5. \A l \in Keys : LiveCode(l)' = IF l = k THEN c ELSE LiveCode(l)
    <3>1. \A l \in Keys : LiveCode(l) = redis[l].code /\ LiveCode(l)' = redis'[l].code
      BY <2>2, <2>3, LiveNow, LiveNext
    <3> QED
      BY <2>1, <2>2, <3>1
  <2>6. c \notin MadeCodes /\ MadeCodes' = MadeCodes \cup {c}
    BY <2>1, <2>2, <2>3, <2>4, LiveNow, LiveNext
  <2> QED
    BY <2>1, <2>5, <2>6, IsIssue
<1>8. ASSUME NEW q \in Requests, RedisExpire(q) PROVE Abstract!Next
  <2>1. PICK k \in Keys, c \in Codes :
            /\ Has(q, "expire", k, c) /\ Returned(q, k, c)
            /\ redis'[k].code = redis[k].code
            /\ \A l \in Keys : l # k => redis'[l] = redis[l]
    BY <1>1, <1>8, ExpireStep
  <2>2. request[q].at = "expire" /\ request'[q].at \in {"idle", "mail"}
    BY <2>1 DEF Returned, Has, Idle
  <2>3. request[q] # Idle
    BY <2>2 DEF Idle
  <2>4. \A l \in Keys : redis'[l].code = redis[l].code
    BY <2>1
  <2>5. Others(q) /\ UNCHANGED <<owner, uses>>
    BY <2>1 DEF Returned
  <2> QED
    BY <1>5, <2>2, <2>3, <2>4, <2>5
<1>9. ASSUME NEW q \in Requests, MailStored(q) PROVE Abstract!Next
  BY <1>1, <1>5, <1>9, MailStep DEF Idle
<1>10. ASSUME NEW q \in Requests, NEW k \in Keys, NEW c \in Codes, VerifyOtp(q, k, c)
       PROVE  Abstract!Next
  <2>1. MayOpen(q) /\ Has(q, "get", k, c)' /\ Others(q) /\ UNCHANGED <<redis, owner, uses>>
    BY <1>1, <1>10, VerifyStep
  <2>2. request[q].at = "idle" /\ request'[q].at = "get" /\ \A r \in Requests : request[r] = Idle
    BY <2>1 DEF Has, MayOpen, Idle
  <2> QED
    BY <1>5, <2>1, <2>2
<1>11. ASSUME NEW q \in Requests, RedisGet(q) PROVE Abstract!Next
  <2>1. PICK k \in Keys, c \in Codes :
            /\ Has(q, "get", k, c) /\ Others(q) /\ UNCHANGED <<redis, memory, owner, uses>>
            /\ request'[q] = Idle \/ (Has(q, "del", k, c)' /\ Finds(k, c))
    BY <1>1, <1>11, GetStep
  <2>2. request[q].at = "get"
    BY <2>1 DEF Has
  <2>3. request[q] # Idle
    BY <2>2 DEF Idle
  <2>4. CASE request'[q] = Idle
    BY <1>5, <2>1, <2>2, <2>3, <2>4 DEF Idle
  <2>5. CASE Has(q, "del", k, c)' /\ Finds(k, c)
    <3>1. request'[q].at = "del" /\ request'[q].key = k /\ request'[q].code = c
      BY <2>5 DEF Has
    <3>2. redis[k].code = c
      BY <2>5 DEF Finds, Answering, NoMemory, Nothing
    <3>3. \A r \in Requests : r # q => request[r] = Idle /\ request'[r] = Idle
      BY <1>4, <2>1, <2>3
    <3>4. \A l \in Keys : LiveCode(l)' = LiveCode(l)
      BY <2>1, <2>2, <3>1, <3>2, <3>3, LiveNow, LiveNext
    <3>5. MadeCodes' = MadeCodes
      BY <2>1, <2>2, <3>1, <3>3, LiveNow, LiveNext
    <3> QED
      BY <2>1, <3>4, <3>5, IsExpire
  <2> QED
    BY <2>1, <2>4, <2>5
<1>12. ASSUME NEW q \in Requests, RedisDel(q) PROVE Abstract!Next
  <2>1. PICK k \in Keys, c \in Codes :
            /\ Has(q, "del", k, c) /\ request'[q] = Idle /\ Others(q)
            /\ redis'[k] = Nothing /\ \A l \in Keys : l # k => redis'[l] = redis[l]
            /\ uses'[c] = IF uses[c] < MaxUses THEN uses[c] + 1 ELSE uses[c]
            /\ \A d \in Codes : d # c => uses'[d] = uses[d]
            /\ uses' \in [Codes -> 0..MaxUses]
            /\ UNCHANGED owner
    BY <1>1, <1>12, DelStep
  <2>2. request[q].at = "del" /\ request[q].key = k /\ request[q].code = c
    BY <2>1 DEF Has
  <2>3. request'[q].at = "idle"
    BY <2>1 DEF Idle
  <2>4. \A r \in Requests : r # q => request[r] = Idle /\ request'[r] = Idle
    BY <1>4, <2>1, <2>2 DEF Idle
  <2>5. LiveCode(k) = c /\ c # NoCode
    BY <1>2, <2>2, <2>4, LiveNow
  <2>6. \A l \in Keys : LiveCode(l)' = IF l = k THEN NoCode ELSE LiveCode(l)
    BY <1>2, <2>1, <2>2, <2>3, <2>4, LiveNow, LiveNext
  <2>7. MadeCodes' = MadeCodes
    BY <2>1, <2>2, <2>3, <2>4, LiveNow, LiveNext
  <2>8. uses' = [uses EXCEPT ![c] = @ + 1]
    <3>1. uses[c] = 0
      BY <2>2 DEF Unused, OwnStages
    <3>2. uses'[c] = uses[c] + 1
      BY <2>1, <3>1 DEF MaxUses
    <3> QED
      BY <1>1, <2>1, <3>2 DEF TypeOK
  <2> QED
    BY <2>5, <2>6, <2>7, <2>8, IsUse
<1>13. ASSUME NEW c \in Codes, MailUnawaited(c) PROVE Abstract!Next
  <2>1. UNCHANGED <<redis, request, owner, uses>>
    BY <1>13 DEF MailUnawaited
  <2> QED
    BY <2>1, IsExpire DEF LiveCode, MadeCodes, Accepting, At
<1>14. CASE TimePasses
  <2>1. /\ \A k \in Keys : redis'[k].code \in {redis[k].code, NoCode}
        /\ UNCHANGED <<request, owner, uses>>
    BY <1>1, <1>2, <1>14, TimeStep
  <2>2. MadeCodes' = MadeCodes
    BY <2>1 DEF MadeCodes, At
  <2>3. \A k \in Keys : Accepting(k)' = Accepting(k)
    BY <2>1 DEF Accepting, At
  <2>4. \A k \in Keys : LiveCode(k)' \in {LiveCode(k), NoCode}
    BY <2>1, <2>3 DEF LiveCode
  <2> QED
    BY <2>1, <2>2, <2>4, IsExpire
<1>15. CASE Restart
  <2>1. /\ \A q \in Requests : request'[q] = Idle
        /\ UNCHANGED <<redis, owner, uses>>
    BY <1>1, <1>15, RestartStep
  <2>2. CASE \A q \in Requests : request[q] = Idle
    <3>1. UNCHANGED request
      BY <1>1, <2>2, <1>15 DEF Restart, TypeOK
    <3> QED
      BY <2>1, <3>1, IsExpire DEF LiveCode, MadeCodes, Accepting, At
  <2>3. ASSUME NEW q \in Requests, request[q] # Idle
        PROVE  Abstract!Next
    <3>1. \A r \in Requests : r # q => request[r] = Idle /\ request'[r] = Idle
      BY <1>1, <2>1, <2>3 DEF OneAtATime
    <3>2. request'[q].at = "idle"
      BY <2>1 DEF Idle
    <3>3. CASE request[q].at = "set"
      <4>1. request[q].code \in Codes /\ owner[request[q].code] # NoKey
        <5>1. PICK k \in Keys, c \in Codes : Has(q, "set", k, c)
          BY <1>1, <3>3, Remembers
        <5>2. request[q].key = k /\ request[q].code = c
          BY <5>1 DEF Has
        <5> QED
          BY <1>1, <1>2, <3>3, <5>2 DEF Owned, OwnStages
      <4>2. \A l \in Keys : LiveCode(l)' = LiveCode(l)
        BY <2>1, <3>1, <3>2, <3>3, LiveNow, LiveNext
      <4>3. MadeCodes' = MadeCodes \cup {request[q].code}
        BY <2>1, <3>1, <3>2, <3>3, <4>1, LiveNow, LiveNext
      <4> QED
        BY <2>1, <4>1, <4>2, <4>3, IsDrop
    <3>4. CASE request[q].at # "set"
      <4>1. MadeCodes' = MadeCodes
        BY <2>1, <3>1, <3>2, <3>4, LiveNow, LiveNext
      <4>2. request[q].at = "del" => redis[request[q].key].code \in {request[q].code, NoCode}
        BY DEF Answering, Comparing, At
      <4>3. \A l \in Keys : LiveCode(l)' \in {LiveCode(l), NoCode}
        BY <2>1, <3>1, <3>2, <4>2, LiveNow, LiveNext
      <4> QED
        BY <2>1, <4>1, <4>3, IsExpire
    <3> QED
      BY <3>3, <3>4
  <2> QED
    BY <2>2, <2>3
<1>16. CASE UNCHANGED vars
  BY <1>16, IsExpire DEF vars, LiveCode, MadeCodes, Accepting, At
<1>17. ASSUME NEW q \in Requests PROVE ~FallBack(q)
  BY DEF FallBack, Throws
<1> QED
  BY <1>6, <1>7, <1>8, <1>9, <1>10, <1>11, <1>12, <1>13, <1>14, <1>15, <1>16, <1>17
     DEF Next, Store

(* Handlers that do not overlap, with Redis answering, are the one-time    *)
(* store of CodeStore: each of their steps is one of its steps.            *)
THEOREM ImplementsCodeStore ==
    ASSUME Assumptions, Serial, Failing = {}, Unanswered = {}
    PROVE  Spec => Abstract!Spec
<1> DEFINE Inv == Base /\ Unused /\ UsedOnce /\ Answering
<1>1. Init => Inv /\ Abstract!Init
  <2> SUFFICES ASSUME Init PROVE Inv /\ Abstract!Init
    OBVIOUS
  <2>1. Unused /\ UsedOnce /\ Answering
    BY DEF Init, Unused, UsedOnce, OwnStages, Answering, Comparing, NoMemory, At, Nothing, Idle
  <2>2. \A k \in Keys : Accepting(k) = {} /\ redis[k].code = NoCode
    BY DEF Init, Accepting, At, Idle, Nothing
  <2>3. [k \in Keys |-> LiveCode(k)] = [k \in Keys |-> NoCode] /\ MadeCodes = {}
    BY <2>2 DEF Init, LiveCode, MadeCodes
  <2>4. Abstract!Init
    BY <2>3 DEF Init, Abstract!Init, LiveCode, MadeCodes
  <2> QED
    BY <2>1, <2>4, InitBase
<1>2. Inv /\ [Next]_vars => Inv' /\ Abstract!Next
  BY StepBase, StepUnused, StepAnswering, StepAbstract
<1> QED
  BY <1>1, <1>2, PTL DEF Spec, Abstract!Spec

------------------------------------------------------------------------------
(* Account.  A restriction ends every session of its user, with failures. A*)
(* refresh token is accepted if the row of its user keeps it: what carries *)
(* the proof is that a row, and a handler about to write one, has only     *)
(* tokens of its user signed since the user's last restriction             *)
(* (TokensOwned).  And the middleware knows of every restriction when      *)
(* nothing fails between the row and the set of Redis that it reads.       *)

AccountTypes ==
    /\ account \in [Users -> Accounts!AccountRow \cup {None}]
    /\ holder \in [Tokens -> Users \cup {None}]
    /\ cut \subseteq Tokens
    /\ request \in [Requests -> Accounts!RequestState]

\* A token of a row or of an open login is its user's, and not cut.
MayKeep(u, t) == holder[t] = u /\ t \notin cut
TokensOwned ==
    /\ \A u \in Users : Accounts!HasAccount(u) /\ account[u].refreshToken # None =>
           MayKeep(u, account[u].refreshToken)
    /\ \A q \in Requests : Accounts!At(q, "signed") => MayKeep(Accounts!Of(q), request[q].token)
    /\ \A t \in cut : holder[t] # None

\* Whoever logs in has an account.
LoginsHaveAccounts ==
    \A q \in Requests : request[q].at \in {"loginSeen", "signed"} =>
      Accounts!HasAccount(request[q].user)

TokensInv == AccountTypes /\ TokensOwned /\ LoginsHaveAccounts

\* No account, no token, no session.
LEMMA InitTokens ==
    ASSUME Accounts!Assumptions, Accounts!Init
    PROVE  TokensInv
BY DEF Accounts!Assumptions, Accounts!Init, TokensInv, AccountTypes, TokensOwned,
       LoginsHaveAccounts, Accounts!HasAccount, Accounts!At, Accounts!Idle,
       Accounts!RequestState

\* A handler that goes on without signing or writing a row disturbs nothing.
LEMMA GoesTokens ==
    ASSUME TokensInv, UNCHANGED <<account, holder, cut>>,
           NEW q \in Requests, NEW state \in Accounts!RequestState, Accounts!Goes(q, state),
           state.at # "signed", state.at = "loginSeen" => Accounts!HasAccount(state.user)
    PROVE  TokensInv'
<1>1. /\ request' \in [Requests -> Accounts!RequestState] /\ request'[q] = state
      /\ \A r \in Requests : r # q => request'[r] = request[r]
  BY DEF TokensInv, AccountTypes, Accounts!Goes
<1>2. TokensOwned'
  BY <1>1 DEF TokensInv, TokensOwned, MayKeep, Accounts!HasAccount, Accounts!At, Accounts!Of
<1>3. LoginsHaveAccounts'
  BY <1>1 DEF TokensInv, LoginsHaveAccounts, Accounts!HasAccount
<1> QED
  BY <1>1, <1>2, <1>3 DEF TokensInv, AccountTypes

\* The stages of the handlers that have signed nothing.
LEMMA OtherStates ==
    /\ Accounts!Idle \in Accounts!RequestState /\ Accounts!Idle.at = "idle"
    /\ \A u \in Users, s \in {"registerSeen", "registerMatched", "registerVerified",
                              "loginSeen", "sadd", "srem"} :
           /\ Accounts!Stage(s, u) \in Accounts!RequestState
           /\ Accounts!Stage(s, u).at = s /\ Accounts!Stage(s, u).user = u
BY DEF Accounts!RequestState, Accounts!Idle, Accounts!Stage

\* Signing takes a token nobody has, which no restriction has cut.
LEMMA SignsTokens ==
    ASSUME Accounts!Assumptions, AccountTypes, TokensOwned, LoginsHaveAccounts,
           NEW q \in Requests, NEW u \in Users, NEW t \in Tokens, Accounts!Signs(q, u, t),
           UNCHANGED cut,
           account' \in [Users -> Accounts!AccountRow \cup {None}], account'[u] # None,
           \A v \in Users : Accounts!HasAccount(v) => account'[v] = account[v],
           \A v \in Users : ~Accounts!HasAccount(v) /\ account'[v] # None =>
             account'[v].refreshToken = None
    PROVE  TokensInv'
<1>1. holder[t] = None /\ t \notin cut
  BY DEF Accounts!Signs, TokensOwned
<1>2. \A n \in Tokens : holder'[n] = IF n = t THEN u ELSE holder[n]
  BY DEF Accounts!Signs, AccountTypes
<1>3. [at |-> "signed", user |-> u, token |-> t] \in Accounts!RequestState
  BY DEF Accounts!RequestState
<1>4. AccountTypes'
  BY <1>2, <1>3 DEF AccountTypes, Accounts!Signs, Accounts!Goes
<1>5. \A v \in Users, n \in Tokens : MayKeep(v, n) => MayKeep(v, n)'
  BY <1>1, <1>2 DEF MayKeep, Accounts!Assumptions
<1>6. MayKeep(u, t)'
  BY <1>1, <1>2 DEF MayKeep
<1>7. /\ request'[q] = [at |-> "signed", user |-> u, token |-> t]
      /\ \A r \in Requests : r # q => request'[r] = request[r]
  BY DEF Accounts!Signs, Accounts!Goes, AccountTypes
<1>8. \A v \in Users : account[v] # None => account[v].refreshToken \in Tokens \cup {None}
  BY DEF AccountTypes, Accounts!AccountRow
<1>9. \A r \in Requests : Accounts!At(r, "signed") => Accounts!Of(r) \in Users
        /\ request[r].token \in Tokens
  BY DEF AccountTypes, Accounts!RequestState, Accounts!Idle, Accounts!At, Accounts!Of
<1>10. TokensOwned'
  <2>1. \A v \in Users : Accounts!HasAccount(v)' /\ account'[v].refreshToken # None =>
            MayKeep(v, account[v].refreshToken)' /\ account'[v] = account[v]
    BY <1>5, <1>8 DEF TokensOwned, Accounts!HasAccount
  <2>2. \A r \in Requests : Accounts!At(r, "signed")' =>
          MayKeep(Accounts!Of(r), request[r].token)' \/ r = q
    <3> SUFFICES ASSUME NEW r \in Requests, r # q, Accounts!At(r, "signed")
                 PROVE  MayKeep(Accounts!Of(r), request[r].token)'
      BY <1>7 DEF Accounts!At
    <3>1. MayKeep(Accounts!Of(r), request[r].token) /\ Accounts!Of(r) \in Users
            /\ request[r].token \in Tokens
      BY <1>9 DEF TokensOwned
    <3> QED
      BY <1>5, <1>7, <3>1 DEF Accounts!Of
  <2>3. MayKeep(Accounts!Of(q), request[q].token)'
    BY <1>6, <1>7 DEF Accounts!Of, MayKeep
  <2>4. \A n \in cut' : holder'[n] # None
    BY <1>2 DEF TokensOwned, AccountTypes, Accounts!Assumptions
  <2> QED
    BY <1>7, <2>1, <2>2, <2>3, <2>4 DEF TokensOwned, MayKeep
<1>11. LoginsHaveAccounts'
  BY <1>7 DEF LoginsHaveAccounts, Accounts!HasAccount, AccountTypes, Accounts!RequestState,
              Accounts!Idle
<1> QED
  BY <1>4, <1>10, <1>11 DEF TokensInv

\* The answer of a login or a registration: the row keeps the token.
LEMMA KeepTokenTokens ==
    ASSUME Accounts!Assumptions, TokensInv, NEW q \in Requests, Accounts!KeepToken(q)
    PROVE  TokensInv'
<1>1. request[q] \in [at: {"signed"}, user: Users, token: Tokens]
  BY DEF TokensInv, AccountTypes, Accounts!RequestState, Accounts!Idle, Accounts!KeepToken,
         Accounts!At
<1> PICK u \in Users, t \in Tokens : u = request[q].user /\ t = request[q].token
  BY <1>1
<1>2. account[u] \in Accounts!AccountRow /\ MayKeep(u, t)
  BY <1>1 DEF TokensInv, AccountTypes, LoginsHaveAccounts, TokensOwned, Accounts!HasAccount,
              Accounts!At, Accounts!Of
<1> DEFINE row == [account[u] EXCEPT !.refreshToken = t]
<1>3. row \in Accounts!AccountRow /\ row.refreshToken = t
  BY <1>2 DEF Accounts!AccountRow
<1>4. \A v \in Users : account'[v] = IF v = u THEN row ELSE account[v]
  BY DEF TokensInv, AccountTypes, Accounts!KeepToken, Accounts!Of
<1>5. account' \in [Users -> Accounts!AccountRow \cup {None}]
  BY <1>3 DEF TokensInv, AccountTypes, Accounts!KeepToken, Accounts!Of
<1>6. UNCHANGED <<holder, cut>> /\ request' = [request EXCEPT ![q] = Accounts!Idle]
  BY DEF Accounts!KeepToken, Accounts!Closes, Accounts!Goes, Accounts!tokens
<1> HIDE DEF row
<1>7. AccountTypes'
  BY <1>5, <1>6, OtherStates DEF TokensInv, AccountTypes
<1>8. \A r \in Requests : request'[r] = IF r = q THEN Accounts!Idle ELSE request[r]
  BY <1>6 DEF TokensInv, AccountTypes
<1>9. TokensOwned'
  BY <1>2, <1>3, <1>4, <1>6, <1>8, OtherStates
     DEF TokensInv, TokensOwned, MayKeep, Accounts!HasAccount, Accounts!At, Accounts!Of
<1>10. LoginsHaveAccounts'
  <2>1. \A r \in Requests : request[r].at \in {"loginSeen", "signed"} => request[r].user \in Users
    BY DEF TokensInv, AccountTypes, Accounts!RequestState, Accounts!Idle
  <2> QED
    BY <1>3, <1>4, <1>8, <2>1, OtherStates DEF TokensInv, LoginsHaveAccounts,
                                               Accounts!HasAccount, Accounts!Assumptions
<1> QED
  BY <1>7, <1>9, <1>10 DEF TokensInv

\* A restriction takes the row's token, and nobody is about to write another.
LEMMA RestrictTokens ==
    ASSUME Accounts!Assumptions, Serial, TokensInv, NEW q \in Requests, NEW u \in Users,
           Accounts!Restrict(q, u)
    PROVE  TokensInv'
<1> DEFINE row == [verified |-> FALSE, refreshToken |-> None]
<1>1. row \in Accounts!AccountRow /\ row.refreshToken = None
  BY DEF Accounts!AccountRow
<1>2. \A v \in Users : account'[v] = IF v = u THEN row ELSE account[v]
  BY DEF TokensInv, AccountTypes, Accounts!Restrict
<1>3. account' \in [Users -> Accounts!AccountRow \cup {None}]
  BY <1>1 DEF TokensInv, AccountTypes, Accounts!Restrict
<1> HIDE DEF row
<1>4. UNCHANGED holder /\ cut' = cut \cup {t \in Tokens : holder[t] = u}
  BY DEF Accounts!Restrict, Accounts!tokens
<1>5. \A r \in Requests : request'[r] = IF r = q THEN Accounts!Stage("sadd", u) ELSE Accounts!Idle
  BY DEF TokensInv, AccountTypes, Accounts!Restrict, Accounts!Opens, Accounts!Goes
<1>6. AccountTypes'
  <2>1. request' \in [Requests -> Accounts!RequestState]
    BY OtherStates DEF TokensInv, AccountTypes, Accounts!Restrict, Accounts!Opens, Accounts!Goes
  <2> QED
    BY <1>3, <1>4, <2>1 DEF TokensInv, AccountTypes
<1>7. TokensOwned'
  <2>1. \A v \in Users : Accounts!HasAccount(v)' /\ account'[v].refreshToken # None =>
            v # u /\ account'[v] = account[v] /\ Accounts!HasAccount(v)
    BY <1>1, <1>2 DEF Accounts!HasAccount
  <2>2. \A v \in Users : Accounts!HasAccount(v)' /\ account'[v].refreshToken # None =>
            MayKeep(v, account[v].refreshToken)'
    BY <1>2, <1>4, <2>1 DEF TokensInv, TokensOwned, MayKeep
  <2>3. \A r \in Requests : ~ Accounts!At(r, "signed")'
    BY <1>5, OtherStates DEF Accounts!At
  <2>4. \A t \in cut' : holder'[t] # None
    BY <1>4 DEF TokensInv, TokensOwned, Accounts!Assumptions
  <2> QED
    BY <2>1, <2>2, <2>3, <2>4 DEF TokensOwned, MayKeep
<1>8. LoginsHaveAccounts'
  BY <1>5, OtherStates DEF LoginsHaveAccounts
<1> QED
  BY <1>6, <1>7, <1>8 DEF TokensInv

\* Lifting a restriction and approving documents set the flag of the row.
LEMMA FlagTokens ==
    ASSUME Accounts!Assumptions, TokensInv, NEW u \in Users,
           Accounts!ApproveDocuments(u) \/ \E q \in Requests : Accounts!Unrestrict(q, u)
    PROVE  TokensInv'
<1> DEFINE row == [account[u] EXCEPT !.verified = TRUE]
<1>1. account[u] \in Accounts!AccountRow
  BY DEF TokensInv, AccountTypes, Accounts!Unrestrict, Accounts!ApproveDocuments,
         Accounts!HasAccount
<1>2. row \in Accounts!AccountRow
  BY Zenon, <1>1 DEF Accounts!AccountRow
<1>3. row.refreshToken = account[u].refreshToken
  BY <1>1 DEF Accounts!AccountRow
<1>4. /\ \A v \in Users : account'[v] = IF v = u THEN row ELSE account[v]
      /\ UNCHANGED <<holder, cut>>
  BY DEF TokensInv, AccountTypes, Accounts!Unrestrict, Accounts!ApproveDocuments, Accounts!tokens
<1>5. account' \in [Users -> Accounts!AccountRow \cup {None}]
  BY <1>2 DEF TokensInv, AccountTypes, Accounts!Unrestrict, Accounts!ApproveDocuments
<1> HIDE DEF row
<1>6. \A r \in Requests : request'[r].at \in {"loginSeen", "signed"} => request'[r] = request[r]
  BY OtherStates DEF TokensInv, AccountTypes, Accounts!Unrestrict, Accounts!ApproveDocuments,
                     Accounts!Opens, Accounts!Goes
<1>7. AccountTypes'
  <2>1. request' \in [Requests -> Accounts!RequestState]
    BY OtherStates DEF TokensInv, AccountTypes, Accounts!Unrestrict, Accounts!ApproveDocuments,
                       Accounts!Opens, Accounts!Goes
  <2> QED
    BY <1>4, <1>5, <2>1 DEF TokensInv, AccountTypes
<1>8. \A v \in Users : Accounts!HasAccount(v)' <=> Accounts!HasAccount(v)
  BY <1>1, <1>2, <1>4 DEF Accounts!HasAccount, Accounts!Assumptions
<1>9. \A v \in Users : Accounts!HasAccount(v) => account'[v].refreshToken = account[v].refreshToken
  BY <1>3, <1>4
<1>10. TokensOwned'
  BY <1>4, <1>6, <1>8, <1>9 DEF TokensInv, TokensOwned, MayKeep, Accounts!HasAccount,
                                Accounts!At, Accounts!Of
<1>11. LoginsHaveAccounts'
  <2>1. \A r \in Requests : request[r].at \in {"loginSeen", "signed"} => request[r].user \in Users
    BY DEF TokensInv, AccountTypes, Accounts!RequestState, Accounts!Idle
  <2> QED
    BY <1>6, <1>8, <2>1 DEF TokensInv, LoginsHaveAccounts
<1> QED
  BY <1>7, <1>10, <1>11 DEF TokensInv

\* The two that sign: a login of an account, and a registration, whose row is
\* new and keeps no token yet.
LEMMA SigningTokens ==
    ASSUME Accounts!Assumptions, TokensInv, NEW q \in Requests, NEW t \in Tokens,
           Accounts!RegisterCreate(q, t) \/ Accounts!LoginSign(q, t)
    PROVE  TokensInv'
<1>1. request[q].user \in Users
  BY DEF TokensInv, AccountTypes, Accounts!RequestState, Accounts!Idle, Accounts!RegisterCreate,
         Accounts!LoginSign, Accounts!At
<1> PICK u \in Users : u = request[q].user
  BY <1>1
<1>2. UNCHANGED cut /\ Accounts!Signs(q, u, t)
  BY DEF Accounts!RegisterCreate, Accounts!LoginSign, Accounts!Of
<1>3. CASE Accounts!RegisterCreate(q, t)
  <2> DEFINE row == [verified |-> TRUE, refreshToken |-> None]
  <2>1. row \in Accounts!AccountRow /\ row.refreshToken = None
    BY DEF Accounts!AccountRow
  <2>2. account' \in [Users -> Accounts!AccountRow \cup {None}]
    BY <1>3, <2>1 DEF TokensInv, AccountTypes, Accounts!RegisterCreate, Accounts!Of
  <2>3. \A v \in Users : account'[v] = IF v = u THEN row ELSE account[v]
    BY <1>3 DEF TokensInv, AccountTypes, Accounts!RegisterCreate, Accounts!Of
  <2> HIDE DEF row
  <2>4. ~ Accounts!HasAccount(u) /\ account'[u] # None
    BY <1>3, <2>1, <2>3 DEF Accounts!RegisterCreate, Accounts!Of, Accounts!Assumptions
  <2>5. /\ \A v \in Users : Accounts!HasAccount(v) => account'[v] = account[v]
        /\ \A v \in Users : ~Accounts!HasAccount(v) /\ account'[v] # None =>
             account'[v].refreshToken = None
    BY <2>1, <2>3, <2>4 DEF Accounts!HasAccount
  <2> QED
    BY <1>2, <2>2, <2>4, <2>5, SignsTokens DEF TokensInv
<1>4. CASE Accounts!LoginSign(q, t)
  <2>1. UNCHANGED account /\ account[u] # None
    BY <1>4 DEF Accounts!LoginSign, TokensInv, LoginsHaveAccounts, Accounts!HasAccount,
                Accounts!At
  <2> QED
    BY <1>2, <2>1, SignsTokens DEF TokensInv, AccountTypes, Accounts!HasAccount
<1> QED
  BY <1>3, <1>4

\* What neither signs nor writes a row.
LEMMA OthersTokens ==
    ASSUME TokensInv, NEW q \in Requests, NEW u \in Users,
           \/ Accounts!RegisterRead(q, u) \/ Accounts!LoginRead(q, u)
           \/ Accounts!RegisterMatch(q) \/ Accounts!RegisterSpend(q)
           \/ Accounts!RegisterRefused(q) \/ Accounts!RedisSet(q) \/ Accounts!Fail(q)
    PROVE  TokensInv'
<1>1. UNCHANGED <<account, holder, cut>>
  BY DEF Accounts!RegisterRead, Accounts!LoginRead, Accounts!RegisterMatch,
         Accounts!RegisterSpend, Accounts!RegisterRefused, Accounts!RedisSet, Accounts!Fail,
         Accounts!tokens
<1>2. CASE Accounts!Goes(q, Accounts!Idle)
  BY <1>1, <1>2, OtherStates, GoesTokens
<1>3. ASSUME NEW s \in {"registerSeen", "registerMatched", "registerVerified", "loginSeen"},
             NEW v \in Users, Accounts!Goes(q, Accounts!Stage(s, v)),
             s = "loginSeen" => Accounts!HasAccount(v)
      PROVE  TokensInv'
  <2>1. Accounts!Stage(s, v) \in Accounts!RequestState /\ Accounts!Stage(s, v).at = s
          /\ Accounts!Stage(s, v).user = v
    BY OtherStates
  <2> QED
    BY <1>1, <1>3, <2>1, GoesTokens
<1>4. CASE Accounts!RegisterRead(q, u)
  BY <1>3, <1>4 DEF Accounts!RegisterRead, Accounts!Opens
<1>5. CASE Accounts!LoginRead(q, u)
  BY <1>3, <1>5 DEF Accounts!LoginRead, Accounts!Opens
<1>6. CASE Accounts!RegisterMatch(q) \/ Accounts!RegisterSpend(q)
  <2>1. request[q].user \in Users
    BY <1>6 DEF TokensInv, AccountTypes, Accounts!RequestState, Accounts!Idle,
                Accounts!RegisterMatch, Accounts!RegisterSpend, Accounts!At
  <2> QED
    BY <1>2, <1>3, <1>6, <2>1 DEF Accounts!RegisterMatch, Accounts!RegisterSpend,
                                  Accounts!Closes, Accounts!Of
<1> QED
  BY <1>2, <1>4, <1>5, <1>6 DEF Accounts!RegisterRefused, Accounts!RedisSet, Accounts!Fail,
                                Accounts!Closes

\* The invariant is inductive when handlers do not overlap.
LEMMA StepTokens ==
    ASSUME Accounts!Assumptions, Serial, TokensInv, [Accounts!Next]_(Accounts!vars)
    PROVE  TokensInv'
<1>1. CASE UNCHANGED <<account, holder, cut, request>>
  BY <1>1 DEF TokensInv, AccountTypes, TokensOwned, LoginsHaveAccounts, MayKeep,
              Accounts!HasAccount, Accounts!At, Accounts!Of
<1>2. CASE UNCHANGED Accounts!vars
  BY <1>1, <1>2 DEF Accounts!vars, Accounts!tokens
<1>3. ASSUME NEW u \in Users, Accounts!SendRegistrationOtp(u) \/ Accounts!CodeExpires(u)
             \/ Accounts!AccessExpires(u)
      PROVE  TokensInv'
  BY <1>1, <1>3 DEF Accounts!SendRegistrationOtp, Accounts!CodeExpires, Accounts!AccessExpires,
                    Accounts!tokens
<1>4. ASSUME NEW t \in Tokens, Accounts!RefreshAccessToken(t) \/ Accounts!RefreshExpires(t)
      PROVE TokensInv'
  BY <1>1, <1>4 DEF Accounts!RefreshAccessToken, Accounts!RefreshExpires, Accounts!tokens
<1>5. ASSUME NEW u \in Users, Accounts!ApproveDocuments(u) PROVE TokensInv'
  BY <1>5, FlagTokens
<1>6. ASSUME NEW q \in Requests, NEW u \in Users,
             Accounts!RegisterRead(q, u) \/ Accounts!LoginRead(q, u)
               \/ Accounts!Restrict(q, u) \/ Accounts!Unrestrict(q, u)
      PROVE  TokensInv'
  BY <1>6, OthersTokens, RestrictTokens, FlagTokens
<1>7. ASSUME NEW q \in Requests, Accounts!Continue(q) PROVE TokensInv'
  <2>1. CASE \E t \in Tokens : Accounts!RegisterCreate(q, t) \/ Accounts!LoginSign(q, t)
    BY <2>1, SigningTokens
  <2>2. CASE Accounts!KeepToken(q)
    BY <2>2, KeepTokenTokens
  <2>3. CASE \/ Accounts!RegisterMatch(q) \/ Accounts!RegisterSpend(q)
             \/ Accounts!RegisterRefused(q) \/ Accounts!RedisSet(q) \/ Accounts!Fail(q)
    <3>1. request[q] # Accounts!Idle
      BY <2>3, OtherStates
         DEF Accounts!RegisterMatch, Accounts!RegisterSpend, Accounts!RegisterRefused,
             Accounts!RedisSet, Accounts!Fail, Accounts!At, Accounts!Assumptions
    <3>2. request[q].user \in Users
      BY <3>1 DEF TokensInv, AccountTypes, Accounts!RequestState
    <3> QED
      BY <2>3, <3>2, OthersTokens
  <2> QED
    BY <1>7, <2>1, <2>2, <2>3 DEF Accounts!Continue
<1> QED
  BY <1>2, <1>3, <1>4, <1>5, <1>6, <1>7 DEF Accounts!Next

(* A refresh token signed before its user was restricted is not accepted   *)
(* afterwards, for any users and tokens, although a login signs its token  *)
(* an await before it writes it, if handlers do not overlap.               *)
THEOREM RestrictionIsFinal ==
    ASSUME Accounts!Assumptions, Serial
    PROVE  Accounts!Spec => []Accounts!RestrictionCutsSessions
<1>1. Accounts!Init => TokensInv
  BY InitTokens
<1>2. TokensInv /\ [Accounts!Next]_(Accounts!vars) => TokensInv'
  BY StepTokens
<1>3. TokensInv => Accounts!RestrictionCutsSessions
  <2> SUFFICES ASSUME TokensInv, NEW t \in cut, Accounts!Accepted(t) PROVE FALSE
    BY DEF Accounts!RestrictionCutsSessions
  <2>1. holder[t] \in Users /\ t # None
    BY DEF TokensInv, AccountTypes, TokensOwned, Accounts!Assumptions
  <2>2. MayKeep(holder[t], t)
    BY <2>1 DEF TokensInv, TokensOwned, Accounts!Accepted
  <2> QED
    BY <2>2 DEF MayKeep
<1> QED
  BY <1>1, <1>2, <1>3, PTL DEF Accounts!Spec

------------------------------------------------------------------------------
(* The other half of a restriction: the middleware refuses the user.  The  *)
(* row and the Redis set are written an await apart, so between the two a  *)
(* handler is at SADD, and at SREM the row is restricted no longer.        *)
Flagged(u) == Accounts!HasAccount(u) /\ ~account[u].verified
OneLogsIn ==
    \A q, r \in Requests : request[q] # Accounts!Idle /\ request[r] # Accounts!Idle => q = r
Announced ==
    \A u \in Users : Flagged(u) =>
        u \in restricted \/ \E q \in Requests : Accounts!At(q, "sadd") /\ Accounts!Of(q) = u
Lifted == \A q \in Requests : Accounts!At(q, "srem") => ~Flagged(Accounts!Of(q))
RefusedInv == OneLogsIn /\ Announced /\ Lifted

\* With one handler at a time, the others are idle before a step of it and after.
LEMMA GoesAlone ==
    ASSUME TokensInv, OneLogsIn, NEW q \in Requests, NEW state, Accounts!Goes(q, state),
           request[q] # Accounts!Idle \/ \A other \in Requests : request[other] = Accounts!Idle
    PROVE  /\ OneLogsIn' /\ request'[q] = state
           /\ \A r \in Requests : r # q =>
                  request[r] = Accounts!Idle /\ request'[r] = Accounts!Idle
                    /\ request'[r].at = "idle"
BY DEF TokensInv, AccountTypes, OneLogsIn, Accounts!Goes, Accounts!Idle

\* A handler that neither writes the flag nor the set, and is not about to.
LEMMA GoesRefused ==
    ASSUME TokensInv, RefusedInv, UNCHANGED restricted, NEW q \in Requests, NEW state,
           Accounts!Goes(q, state),
           request[q] # Accounts!Idle \/ \A other \in Requests : request[other] = Accounts!Idle,
           request[q].at # "sadd", state.at # "sadd",
           state.at = "srem" => state.user \in Users /\ ~Flagged(state.user)',
           \A u \in Users : Flagged(u)' => Flagged(u)
    PROVE  RefusedInv'
<1>1. /\ OneLogsIn' /\ request'[q] = state
      /\ \A r \in Requests : r # q => request'[r].at = "idle" /\ request[r] = Accounts!Idle
  BY GoesAlone DEF RefusedInv
<1>2. \A r \in Requests : ~Accounts!At(r, "sadd")
  BY <1>1 DEF Accounts!At, Accounts!Idle
<1>3. Announced'
  BY <1>2 DEF RefusedInv, Announced
<1>4. Lifted'
  BY <1>1 DEF Lifted, Accounts!At, Accounts!Of
<1> QED
  BY <1>1, <1>3, <1>4 DEF RefusedInv

LEMMA StepRefused ==
    ASSUME Accounts!Assumptions, Serial, ~Failures, Losing \subseteq {"srem"},
           TokensInv, RefusedInv, [Accounts!Next]_(Accounts!vars)
    PROVE  RefusedInv'
<1>1. CASE UNCHANGED <<request, restricted, account>>
  BY <1>1 DEF RefusedInv, OneLogsIn, Announced, Lifted, Flagged, Accounts!HasAccount,
              Accounts!At, Accounts!Of
<1>2. ASSUME NEW u \in Users, Accounts!ApproveDocuments(u) PROVE RefusedInv'
  <2>1. account[u] \in Accounts!AccountRow
    BY <1>2 DEF Accounts!ApproveDocuments, Accounts!HasAccount, TokensInv, AccountTypes
  <2>2. /\ UNCHANGED <<request, restricted>> /\ account'[u].verified
        /\ \A v \in Users : v # u => account'[v] = account[v]
    BY <1>2, <2>1 DEF Accounts!ApproveDocuments, TokensInv, AccountTypes, Accounts!AccountRow
  <2>3. \A v \in Users : Flagged(v)' => Flagged(v)
    BY <2>2 DEF Flagged, Accounts!HasAccount
  <2>4. \A q \in Requests : Accounts!At(q, "srem") => Accounts!Of(q) \in Users
    BY DEF Accounts!At, Accounts!Of, TokensInv, AccountTypes, Accounts!RequestState, Accounts!Idle
  <2> QED
    BY <2>2, <2>3, <2>4 DEF RefusedInv, OneLogsIn, Announced, Lifted, Accounts!At, Accounts!Of
<1>3. ASSUME NEW q \in Requests, NEW u \in Users,
             Accounts!RegisterRead(q, u) \/ Accounts!LoginRead(q, u)
      PROVE  RefusedInv'
  <2>1. PICK s \in {"registerSeen", "loginSeen"} :
            Accounts!Opens(q, Accounts!Stage(s, u)) /\ UNCHANGED <<restricted, account>>
    BY <1>3 DEF Accounts!RegisterRead, Accounts!LoginRead
  <2>2. request[q].at = "idle" /\ \A v \in Users : Flagged(v)' => Flagged(v)
    BY <2>1 DEF Accounts!Opens, Accounts!Idle, Flagged, Accounts!HasAccount
  <2> QED
    BY <2>1, <2>2, GoesRefused DEF Accounts!Opens, Accounts!Stage
<1>4. ASSUME NEW q \in Requests, NEW u \in Users, Accounts!Restrict(q, u) PROVE RefusedInv'
  <2>1. /\ Accounts!Opens(q, Accounts!Stage("sadd", u)) /\ UNCHANGED restricted
        /\ \A v \in Users : v # u => account'[v] = account[v]
    BY <1>4 DEF Accounts!Restrict, TokensInv, AccountTypes
  <2>2. /\ OneLogsIn' /\ request'[q] = Accounts!Stage("sadd", u)
        /\ \A r \in Requests : r # q => request'[r].at = "idle"
        /\ \A r \in Requests : request[r].at = "idle"
    BY <2>1, GoesAlone DEF RefusedInv, Accounts!Opens, Accounts!Idle
  <2>3. Announced'
    BY <2>1, <2>2 DEF RefusedInv, Announced, Flagged, Accounts!HasAccount, Accounts!At,
                      Accounts!Of, Accounts!Stage
  <2>4. Lifted'
    BY <2>2 DEF Lifted, Accounts!At, Accounts!Stage
  <2> QED
    BY <2>2, <2>3, <2>4 DEF RefusedInv
<1>5. ASSUME NEW q \in Requests, NEW u \in Users, Accounts!Unrestrict(q, u) PROVE RefusedInv'
  <2>1. Accounts!Opens(q, Accounts!Stage("srem", u)) /\ UNCHANGED restricted
          /\ account[u] \in Accounts!AccountRow
    BY <1>5 DEF Accounts!Unrestrict, Accounts!HasAccount, TokensInv, AccountTypes
  <2>2. /\ account'[u].verified
        /\ \A v \in Users : v # u => account'[v] = account[v]
    BY <1>5, <2>1 DEF Accounts!Unrestrict, TokensInv, AccountTypes, Accounts!AccountRow
  <2>3. ~Flagged(u)' /\ \A v \in Users : Flagged(v)' => Flagged(v)
    BY <2>2 DEF Flagged, Accounts!HasAccount
  <2>4. request[q].at = "idle" /\ Accounts!Stage("srem", u).at = "srem"
          /\ Accounts!Stage("srem", u).user = u
    BY <2>1 DEF Accounts!Opens, Accounts!Idle, Accounts!Stage
  <2> QED
    BY <2>1, <2>3, <2>4, GoesRefused DEF Accounts!Opens
<1>6. ASSUME NEW q \in Requests, Accounts!RegisterMatch(q) \/ Accounts!RegisterSpend(q)
             \/ Accounts!RegisterRefused(q)
      PROVE  RefusedInv'
  <2>1. /\ request[q].at \in {"registerSeen", "registerMatched", "registerVerified"}
        /\ UNCHANGED <<account, restricted>>
        /\ \E state : Accounts!Goes(q, state) /\ state.at \notin {"sadd", "srem"}
    BY <1>6, OtherStates DEF Accounts!RegisterMatch, Accounts!RegisterSpend,
                             Accounts!RegisterRefused, Accounts!Closes, Accounts!Stage,
                             Accounts!At
  <2>2. request[q] # Accounts!Idle /\ \A v \in Users : Flagged(v)' => Flagged(v)
    BY <2>1 DEF Accounts!Idle, Flagged, Accounts!HasAccount
  <2> QED
    BY <2>1, <2>2, GoesRefused
<1>7. ASSUME NEW q \in Requests, NEW t \in Tokens,
             Accounts!RegisterCreate(q, t) \/ Accounts!LoginSign(q, t)
      PROVE  RefusedInv'
  <2>1. /\ request[q].at \in {"registerVerified", "loginSeen"} /\ UNCHANGED restricted
        /\ Accounts!Goes(q, [at |-> "signed", user |-> Accounts!Of(q), token |-> t])
    BY <1>7 DEF Accounts!RegisterCreate, Accounts!LoginSign, Accounts!Signs, Accounts!At
  <2>2. request[q] # Accounts!Idle
    BY <2>1 DEF Accounts!Idle
  <2>3. \A v \in Users : Flagged(v)' => Flagged(v)
    BY <1>7 DEF Accounts!RegisterCreate, Accounts!LoginSign, TokensInv, AccountTypes, Flagged,
                Accounts!HasAccount
  <2> QED
    BY <2>1, <2>2, <2>3, GoesRefused
<1>8. ASSUME NEW q \in Requests, Accounts!KeepToken(q) PROVE RefusedInv'
  <2>1. request[q] \in [at: {"signed"}, user: Users, token: Tokens]
    BY <1>8 DEF TokensInv, AccountTypes, Accounts!RequestState, Accounts!Idle,
                Accounts!KeepToken, Accounts!At
  <2>2. PICK u \in Users, t \in Tokens :
            u = request[q].user /\ account' = [account EXCEPT ![u].refreshToken = t]
    BY <1>8, <2>1 DEF Accounts!KeepToken, Accounts!Of
  <2>3. account[u] # None /\ account[u] \in Accounts!AccountRow
    BY <2>1, <2>2 DEF TokensInv, AccountTypes, LoginsHaveAccounts, Accounts!HasAccount
  <2>4. account'[u].verified = account[u].verified
    BY <2>2, <2>3 DEF TokensInv, AccountTypes, Accounts!AccountRow
  <2>5. \A v \in Users : Flagged(v)' => Flagged(v)
    BY <2>2, <2>3, <2>4 DEF TokensInv, AccountTypes, Flagged, Accounts!HasAccount
  <2>6. request[q] # Accounts!Idle /\ request[q].at = "signed"
          /\ Accounts!Goes(q, Accounts!Idle) /\ UNCHANGED restricted
    BY <1>8, <2>1 DEF Accounts!KeepToken, Accounts!Closes, Accounts!Idle
  <2> QED
    BY <2>5, <2>6, OtherStates, GoesRefused
<1>9. ASSUME NEW q \in Requests, Accounts!RedisSet(q) PROVE RefusedInv'
  <2>1. request[q].at \in {"sadd", "srem"} /\ Accounts!Goes(q, Accounts!Idle) /\ UNCHANGED account
    BY <1>9 DEF Accounts!RedisSet, Accounts!At, Accounts!Closes
  <2>2. request[q] # Accounts!Idle
    BY <2>1 DEF Accounts!Idle
  <2>3. OneLogsIn' /\ \A r \in Requests : r # q => request[r] = Accounts!Idle
          /\ request[r].at = "idle"
    BY <2>1, <2>2, GoesAlone DEF RefusedInv, Accounts!Idle
  <2>4. \A r \in Requests : request'[r].at = "idle"
    BY <2>1, <2>2, OtherStates, GoesAlone DEF RefusedInv
  <2>5. Announced'
    <3> SUFFICES ASSUME NEW u \in Users, Flagged(u)' PROVE u \in restricted'
      BY DEF Announced
    <3>1. Flagged(u)
      BY <2>1 DEF Flagged, Accounts!HasAccount
    <3>2. u \in restricted \/ (Accounts!At(q, "sadd") /\ Accounts!Of(q) = u)
      BY <2>3, <3>1 DEF RefusedInv, Announced, Accounts!At
    <3>3. CASE Accounts!At(q, "sadd")
      <4>1. restricted' = restricted \cup {Accounts!Of(q)}
        BY <1>9, <3>3 DEF Accounts!RedisSet, Accounts!Added, Accounts!At
      <4> QED
        BY <3>2, <4>1
    <3>4. CASE Accounts!At(q, "srem")
      <4>1. Accounts!Of(q) # u
        BY <3>1, <3>4 DEF RefusedInv, Lifted
      <4>2. restricted' = restricted \/ restricted' = restricted \ {Accounts!Of(q)}
        BY <1>9, <3>4 DEF Accounts!RedisSet, Accounts!At
      <4> QED
        BY <3>2, <3>4, <4>1, <4>2 DEF Accounts!At
    <3> QED
      BY <2>1, <3>3, <3>4 DEF Accounts!At
  <2> QED
    BY <2>3, <2>4, <2>5 DEF RefusedInv, Lifted, Accounts!At
<1>10. ASSUME NEW q \in Requests PROVE ~Accounts!Fail(q)
  BY DEF Accounts!Fail
<1> QED
  BY <1>1, <1>2, <1>3, <1>4, <1>5, <1>6, <1>7, <1>8, <1>9, <1>10
     DEF Accounts!Next, Accounts!Continue, Accounts!SendRegistrationOtp, Accounts!CodeExpires,
         Accounts!AccessExpires, Accounts!RefreshAccessToken,
         Accounts!RefreshExpires, Accounts!vars

(* With an administrator at a time, SADD and SISMEMBER answered and no     *)
(* handler cut off between the row and the set, a user whose row says      *)
(* restricted passes the middleware of no request, whatever access token   *)
(* is still good, and although a lost SREM is only logged.                 *)
THEOREM RestrictionIsAnnounced ==
    ASSUME Accounts!Assumptions, Serial, ~Failures, Losing \subseteq {"srem"}
    PROVE  Accounts!Spec => []Accounts!RestrictedRefused
<1>1. Accounts!Init => TokensInv /\ RefusedInv
  BY InitTokens DEF Accounts!Init, RefusedInv, OneLogsIn, Announced, Lifted, Flagged,
                    Accounts!HasAccount, Accounts!At, Accounts!Idle
<1>2. TokensInv /\ RefusedInv /\ [Accounts!Next]_(Accounts!vars) => TokensInv' /\ RefusedInv'
  BY StepTokens, StepRefused
<1>3. RefusedInv => Accounts!RestrictedRefused
  BY DEF RefusedInv, Announced, Accounts!RestrictedRefused, Flagged, Accounts!Passes,
         Accounts!At, Accounts!Idle
<1> QED
  BY <1>1, <1>2, <1>3, PTL DEF Accounts!Spec

------------------------------------------------------------------------------
(* AccountTypes, which need no order of the handlers: an account is never taken   *)
(* away from a login, and a refresh token that is still good has a holder. *)
AccountTypeInv == Accounts!TypeOK /\ LoginsHaveAccounts /\ \A t \in valid : holder[t] # None

\* A handler that goes on, and leaves every account there is.
LEMMA GoesAccountTypes ==
    ASSUME AccountTypeInv, NEW q \in Requests, NEW state \in Accounts!RequestState,
           Accounts!Goes(q, state),
           \A u \in Users : Accounts!HasAccount(u) => Accounts!HasAccount(u)',
           state.at \in {"loginSeen", "signed"} => Accounts!HasAccount(state.user)'
    PROVE  request' \in [Requests -> Accounts!RequestState] /\ LoginsHaveAccounts'
<1>1. \A r \in Requests : request[r].at \in {"loginSeen", "signed"} => request[r].user \in Users
  BY DEF AccountTypeInv, Accounts!TypeOK, Accounts!RequestState, Accounts!Idle
<1> QED
  BY <1>1 DEF AccountTypeInv, Accounts!TypeOK, LoginsHaveAccounts, Accounts!Goes

\* What happens to one row.
LEMMA RowTypes ==
    ASSUME Accounts!Assumptions, Accounts!TypeOK, NEW u \in Users, NEW row \in Accounts!AccountRow,
           account' = [account EXCEPT ![u] = row]
    PROVE  /\ account' \in [Users -> Accounts!AccountRow \cup {None}]
           /\ Accounts!HasAccount(u)'
           /\ \A v \in Users : Accounts!HasAccount(v) => Accounts!HasAccount(v)'
BY DEF Accounts!TypeOK, Accounts!HasAccount, Accounts!Assumptions

LEMMA StepAccountTypes ==
    ASSUME Accounts!Assumptions, AccountTypeInv, [Accounts!Next]_(Accounts!vars)
    PROVE  AccountTypeInv'
<1> USE DEF AccountTypeInv
<1>1. Accounts!TypeOK /\ LoginsHaveAccounts
  OBVIOUS
<1>2. CASE UNCHANGED Accounts!vars
  BY <1>2 DEF Accounts!vars, Accounts!tokens, Accounts!TypeOK, LoginsHaveAccounts,
              Accounts!HasAccount
<1>3. ASSUME NEW u \in Users, Accounts!SendRegistrationOtp(u) \/ Accounts!CodeExpires(u)
             \/ Accounts!AccessExpires(u)
      PROVE  AccountTypeInv'
  BY <1>3
     DEF Accounts!SendRegistrationOtp, Accounts!CodeExpires, Accounts!AccessExpires,
         Accounts!tokens, Accounts!TypeOK, LoginsHaveAccounts,
         Accounts!HasAccount
<1>4. ASSUME NEW t \in Tokens, Accounts!RefreshAccessToken(t) \/ Accounts!RefreshExpires(t)
      PROVE AccountTypeInv'
  BY <1>4
     DEF Accounts!RefreshAccessToken, Accounts!RefreshExpires, Accounts!Accepted,
         Accounts!tokens, Accounts!TypeOK, LoginsHaveAccounts,
         Accounts!HasAccount
\* The flag of a row, set with the row's token kept or taken.
<1>5. ASSUME NEW u \in Users,
             \/ Accounts!ApproveDocuments(u)
             \/ \E q \in Requests : Accounts!Restrict(q, u) \/ Accounts!Unrestrict(q, u)
      PROVE  AccountTypeInv'
  <2>1. account[u] \in Accounts!AccountRow
    BY <1>5 DEF Accounts!ApproveDocuments, Accounts!Restrict, Accounts!Unrestrict,
                Accounts!HasAccount, Accounts!TypeOK
  <2>2. PICK row \in Accounts!AccountRow : account' = [account EXCEPT ![u] = row]
    <3>1. CASE Accounts!ApproveDocuments(u) \/ \E q \in Requests : Accounts!Unrestrict(q, u)
      <4> DEFINE row == [account[u] EXCEPT !.verified = TRUE]
      <4>1. row \in Accounts!AccountRow
        BY Zenon, <2>1 DEF Accounts!AccountRow
      <4>2. account' = [account EXCEPT ![u] = row]
        BY <3>1 DEF Accounts!ApproveDocuments, Accounts!Unrestrict
      <4> QED
        BY <4>1, <4>2
    <3>2. CASE \E q \in Requests : Accounts!Restrict(q, u)
      BY <3>2 DEF Accounts!Restrict, Accounts!AccountRow
    <3> QED
      BY <1>5, <3>1, <3>2
  <2>3. /\ account' \in [Users -> Accounts!AccountRow \cup {None}]
        /\ \A v \in Users : Accounts!HasAccount(v) => Accounts!HasAccount(v)'
    BY <2>2, RowTypes
  <2>4. /\ UNCHANGED <<coded, Accounts!tokens, access, restricted>> /\ cut' \subseteq Tokens
    BY <1>5 DEF Accounts!ApproveDocuments, Accounts!Restrict, Accounts!Unrestrict, Accounts!TypeOK
  <2>5. request' \in [Requests -> Accounts!RequestState] /\ LoginsHaveAccounts'
    <3>1. CASE UNCHANGED request
      <4>1. \A r \in Requests :
                request[r].at \in {"loginSeen", "signed"} => request[r].user \in Users
        BY DEF Accounts!TypeOK, Accounts!RequestState, Accounts!Idle
      <4> QED
        BY <2>3, <3>1, <4>1 DEF Accounts!TypeOK, LoginsHaveAccounts
    <3>2. ASSUME NEW q \in Requests, NEW s \in {"sadd", "srem"},
                 Accounts!Goes(q, Accounts!Stage(s, u))
          PROVE  request' \in [Requests -> Accounts!RequestState] /\ LoginsHaveAccounts'
      BY <2>3, <3>2, OtherStates, GoesAccountTypes
    <3> QED
      BY <1>5, <3>1, <3>2 DEF Accounts!ApproveDocuments, Accounts!Restrict, Accounts!Unrestrict,
                              Accounts!Opens
  <2> QED
    BY <2>3, <2>4, <2>5 DEF Accounts!TypeOK, Accounts!tokens
\* The steps that leave the rows and the tokens.
<1>6. ASSUME NEW q \in Requests, NEW state \in Accounts!RequestState, Accounts!Goes(q, state),
             UNCHANGED <<account, Accounts!tokens, cut, access>>,
             coded' \subseteq Users, restricted' \subseteq Users,
             state.at # "signed", state.at = "loginSeen" => Accounts!HasAccount(state.user)
      PROVE  AccountTypeInv'
  <2>1. request' \in [Requests -> Accounts!RequestState] /\ LoginsHaveAccounts'
    BY <1>6, GoesAccountTypes DEF Accounts!HasAccount
  <2> QED
    BY <1>6, <2>1 DEF Accounts!TypeOK, Accounts!tokens
<1>7. ASSUME NEW q \in Requests, NEW u \in Users,
             Accounts!RegisterRead(q, u) \/ Accounts!LoginRead(q, u)
      PROVE  AccountTypeInv'
  <2>1. PICK s \in {"registerSeen", "loginSeen"} :
            Accounts!Opens(q, Accounts!Stage(s, u)) /\ (s = "loginSeen" => Accounts!HasAccount(u))
    BY <1>7 DEF Accounts!RegisterRead, Accounts!LoginRead
  <2>2. UNCHANGED <<account, coded, Accounts!tokens, cut, access, restricted>>
    BY <1>7 DEF Accounts!RegisterRead, Accounts!LoginRead
  <2> QED
    BY <1>6, <2>1, <2>2, OtherStates DEF Accounts!Opens, Accounts!TypeOK
<1>8. ASSUME NEW q \in Requests,
             \/ Accounts!RegisterMatch(q) \/ Accounts!RegisterSpend(q)
             \/ Accounts!RegisterRefused(q) \/ Accounts!RedisSet(q) \/ Accounts!Fail(q)
      PROVE  AccountTypeInv'
  <2>1. request[q].user \in Users
    <3>1. request[q] # Accounts!Idle
      BY <1>8, OtherStates
         DEF Accounts!RegisterMatch, Accounts!RegisterSpend, Accounts!RegisterRefused,
             Accounts!RedisSet, Accounts!Fail, Accounts!At, Accounts!Assumptions
    <3> QED
      BY <3>1 DEF Accounts!TypeOK, Accounts!RequestState
  <2>2. /\ UNCHANGED <<account, Accounts!tokens, cut, access>>
        /\ coded' \subseteq Users /\ restricted' \subseteq Users
    BY <1>8, <2>1
       DEF Accounts!RegisterMatch, Accounts!RegisterSpend, Accounts!RegisterRefused,
           Accounts!RedisSet, Accounts!Fail, Accounts!TypeOK, Accounts!Added, Accounts!Of
  <2>3. PICK s \in {"registerMatched", "registerVerified"} :
            Accounts!Goes(q, Accounts!Idle) \/ Accounts!Goes(q, Accounts!Stage(s, Accounts!Of(q)))
    BY <1>8 DEF Accounts!RegisterMatch, Accounts!RegisterSpend, Accounts!RegisterRefused,
                Accounts!RedisSet, Accounts!Fail, Accounts!Closes
  <2>4. /\ Accounts!Stage(s, Accounts!Of(q)) \in Accounts!RequestState
        /\ Accounts!Stage(s, Accounts!Of(q)).at = s
    BY <2>1, OtherStates DEF Accounts!Of
  <2> QED
    BY <1>6, <2>2, <2>3, <2>4, OtherStates
\* Signing, and keeping the token that was signed.
<1>9. ASSUME NEW q \in Requests, NEW t \in Tokens,
             Accounts!RegisterCreate(q, t) \/ Accounts!LoginSign(q, t)
      PROVE  AccountTypeInv'
  <2>1. request[q].user \in Users
    BY <1>9 DEF Accounts!TypeOK, Accounts!RequestState, Accounts!Idle, Accounts!RegisterCreate,
                Accounts!LoginSign, Accounts!At
  <2> PICK u \in Users : u = request[q].user
    BY <2>1
  <2>2. Accounts!Signs(q, u, t) /\ UNCHANGED <<coded, cut, access, restricted>>
    BY <1>9 DEF Accounts!RegisterCreate, Accounts!LoginSign, Accounts!Of
  <2>3. /\ account' \in [Users -> Accounts!AccountRow \cup {None}]
        /\ Accounts!HasAccount(u)'
        /\ \A v \in Users : Accounts!HasAccount(v) => Accounts!HasAccount(v)'
    <3>1. CASE Accounts!RegisterCreate(q, t)
      <4>1. [verified |-> TRUE, refreshToken |-> None] \in Accounts!AccountRow
        BY DEF Accounts!AccountRow
      <4> QED
        BY <3>1, <4>1, RowTypes DEF Accounts!RegisterCreate, Accounts!Of
    <3>2. CASE Accounts!LoginSign(q, t)
      BY <3>2 DEF Accounts!LoginSign, Accounts!TypeOK, LoginsHaveAccounts, Accounts!HasAccount,
                  Accounts!At
    <3> QED
      BY <1>9, <3>1, <3>2
  <2>4. request' \in [Requests -> Accounts!RequestState] /\ LoginsHaveAccounts'
    <3> DEFINE state == [at |-> "signed", user |-> u, token |-> t]
    <3>1. state \in Accounts!RequestState /\ state.user = u /\ Accounts!Goes(q, state)
      BY <2>2 DEF Accounts!RequestState, Accounts!Signs
    <3> HIDE DEF state
    <3> QED
      BY <2>3, <3>1, GoesAccountTypes
  <2>5. /\ holder' \in [Tokens -> Users \cup {None}] /\ valid' \subseteq Tokens
        /\ \A n \in valid' : holder'[n] # None
    BY <2>2 DEF Accounts!Signs, Accounts!TypeOK, Accounts!Assumptions
  <2> QED
    BY <2>2, <2>3, <2>4, <2>5 DEF Accounts!TypeOK
<1>10. ASSUME NEW q \in Requests, Accounts!KeepToken(q) PROVE AccountTypeInv'
  <2>1. request[q] \in [at: {"signed"}, user: Users, token: Tokens]
    BY <1>10 DEF Accounts!TypeOK, Accounts!RequestState, Accounts!Idle, Accounts!KeepToken,
                 Accounts!At
  <2> PICK u \in Users, t \in Tokens : u = request[q].user /\ t = request[q].token
    BY <2>1
  <2>2. account[u] \in Accounts!AccountRow
    BY <2>1 DEF Accounts!TypeOK, LoginsHaveAccounts, Accounts!HasAccount
  <2> DEFINE row == [account[u] EXCEPT !.refreshToken = t]
  <2>3. row \in Accounts!AccountRow /\ account' = [account EXCEPT ![u] = row]
    BY <1>10, <2>2 DEF Accounts!AccountRow, Accounts!KeepToken, Accounts!Of
  <2> HIDE DEF row
  <2>4. /\ account' \in [Users -> Accounts!AccountRow \cup {None}]
        /\ \A v \in Users : Accounts!HasAccount(v) => Accounts!HasAccount(v)'
    BY <2>3, RowTypes
  <2>5. request' \in [Requests -> Accounts!RequestState] /\ LoginsHaveAccounts'
    BY <1>10, <2>4, OtherStates, GoesAccountTypes DEF Accounts!KeepToken, Accounts!Closes
  <2> QED
    BY <1>10, <2>4, <2>5 DEF Accounts!KeepToken, Accounts!TypeOK, Accounts!tokens, Accounts!Of
<1> QED
  BY <1>2, <1>3, <1>4, <1>5, <1>7, <1>8, <1>9, <1>10 DEF Accounts!Next, Accounts!Continue

(* Rows, tokens and handlers have their types, for any users, tokens and   *)
(* overlapping handlers: in particular a token that is accepted is some    *)
(* user's, and a login writes its token to a row that is there.            *)
THEOREM AccountTypeCorrect ==
    ASSUME Accounts!Assumptions
    PROVE  Accounts!Spec => []Accounts!TypeOK
<1>1. Accounts!Init => AccountTypeInv
  BY InitTokens DEF Accounts!Init, AccountTypeInv, Accounts!TypeOK, TokensInv,
                    Accounts!RequestState
<1>2. AccountTypeInv /\ [Accounts!Next]_(Accounts!vars) => AccountTypeInv'
  BY StepAccountTypes
<1>3. AccountTypeInv => Accounts!TypeOK
  BY DEF AccountTypeInv
<1> QED
  BY <1>1, <1>2, <1>3, PTL DEF Accounts!Spec
==============================================================================
