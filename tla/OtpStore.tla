------------------------------ MODULE OtpStore -------------------------------
(***************************************************************************)
(* The one-time codes of pickups (utils/otp.utils.ts) and of registrations *)
(* (utils/registrationOtp.utils.ts): the same store twice, a hash in Redis *)
(* with a Map of the process as fallback, and the handlers that send and   *)
(* verify a code.  Each Redis command is an await: a step of its own that  *)
(* succeeds, is refused, or is applied although its answer is lost (which  *)
(* only SET and EXPIRE can tell: a lost GET is as good as a refused one,   *)
(* and the error of DEL is swallowed).  Time is what is left of a code's   *)
(* ten minutes, in ticks.                                                  *)
(***************************************************************************)
EXTENDS Naturals

CONSTANTS
    Keys,         \* trip and passenger, or the address that registers
    Codes,        \* bound: the codes generated, numbered in their order
    Requests,     \* bound: requests open at the same time
    TTL,          \* ticks in OTP_TTL_SECONDS
    AwaitsStore,  \* TRUE: the handler awaits the store before it mails the code
    Failing,      \* the Redis commands that may be refused
    Unanswered,   \* those that may be applied although their answer is lost
    Restarts,     \* TRUE: the process may be restarted
    Serial,       \* TRUE: a handler starts only when none is open
    NoCode, NoKey

Commands == {"set", "expire", "get", "del"}

Assumptions ==
    /\ TTL \in Nat \ {0}
    /\ {AwaitsStore, Restarts, Serial} \subseteq BOOLEAN
    /\ Failing \subseteq Commands /\ Unanswered \subseteq {"set", "expire"}
    /\ Codes \subseteq Nat /\ NoCode \notin Codes /\ NoKey \notin Keys

VARIABLES
    redis,    \* per key: the code and its ticks left, or Forever
    memory,   \* per key: the entry of the Map; with 0 ticks left it is expired
    request,  \* what each open request remembers at its current await
    owner,    \* the key each code was generated for
    mailed,   \* the codes that reached an inbox
    stored,   \* ticks since storeOTP of the code returned, or Never
    uses      \* how often each code was accepted

vars == <<redis, memory, request, owner, mailed, stored, uses>>

Forever == TTL + 1
Old == TTL + 1
Never == TTL + 2
MaxUses == 2  \* bound: uses are counted up to here
Nothing == [code |-> NoCode, left |-> 0]
Idle == [at |-> "idle"]

Entries == [code: Codes \cup {NoCode}, left: 0..Forever]
RequestState ==
    {Idle} \cup [at: Commands \cup {"mail"}, key: Keys, code: Codes]

\* One type invariant: stores, handlers and the history have their shapes.
TypeOK ==
    /\ redis \in [Keys -> Entries]
    /\ memory \in [Keys -> Entries]
    /\ request \in [Requests -> RequestState]
    /\ owner \in [Codes -> Keys \cup {NoKey}]
    /\ mailed \subseteq Codes
    /\ stored \in [Codes -> 0..Never]
    /\ uses \in [Codes -> 0..MaxUses]

Init ==
    /\ redis = [k \in Keys |-> Nothing]
    /\ memory = [k \in Keys |-> Nothing]
    /\ request = [q \in Requests |-> Idle]
    /\ owner = [c \in Codes |-> NoKey]
    /\ mailed = {}
    /\ stored = [c \in Codes |-> Never]
    /\ uses = [c \in Codes |-> 0]

------------------------------------------------------------------------------
MayOpen(q) ==
    /\ request[q] = Idle
    /\ Serial => \A other \in Requests : request[other] = Idle

At(q, stage) == request[q].at = stage
Goes(q, stage) == request' = [request EXCEPT ![q].at = stage]
Closes(q) == request' = [request EXCEPT ![q] = Idle]

\* SET without EX stores the code without a deadline; EXPIRE gives the key's
\* value its ten minutes, whatever that value is by then.
Set_IfAbsent(k, c) ==
    redis' = [redis EXCEPT ![k] = IF @.code = NoCode
                                  THEN [code |-> c, left |-> Forever] ELSE @]
Set(k, c) == redis' = [redis EXCEPT ![k] = [code |-> c, left |-> Forever]]
ExpireSoon_Milliseconds(k) == redis' = [redis EXCEPT ![k].left = 1000 * TTL]
ExpireSoon(k) ==
    redis' = [redis EXCEPT ![k].left = IF redis[k].code = NoCode THEN 0 ELSE TTL]
Del_MemoryOnly(k) == UNCHANGED redis
Del(k) == redis' = [redis EXCEPT ![k] = Nothing]

\* A code is generated, and storeOTP called with it.
SendOtp(q, k, c) ==
    /\ MayOpen(q)
    /\ owner[c] = NoKey /\ \A d \in Codes : d < c => owner[d] # NoKey
    /\ owner' = [owner EXCEPT ![c] = k]
    /\ request' = [request EXCEPT ![q] = [at |-> "set", key |-> k, code |-> c]]
    /\ UNCHANGED <<redis, memory, mailed, stored, uses>>

\* storeOTP returns: a handler that awaits it goes on to the mail.
StoreReturns(q) ==
    /\ stored' = [stored EXCEPT ![request[q].code] = 0]
    /\ IF AwaitsStore THEN Goes(q, "mail") ELSE Closes(q)
    /\ UNCHANGED <<owner, mailed, uses>>

RedisSet(q) ==
    /\ At(q, "set")
    /\ Set(request[q].key, request[q].code)
    /\ Goes(q, "expire")
    /\ UNCHANGED <<memory, owner, mailed, stored, uses>>

RedisExpire(q) ==
    /\ At(q, "expire")
    /\ ExpireSoon(request[q].key)
    /\ UNCHANGED memory
    /\ StoreReturns(q)

\* set or expire throws, be it refused or applied without an answer: the catch
\* keeps the code in the memory and takes nothing back from Redis.
Throws(q) ==
    \/ request[q].at \in {"set", "expire"} \cap Failing /\ UNCHANGED redis
    \/ /\ At(q, "set") /\ "set" \in Unanswered
       /\ Set(request[q].key, request[q].code)
    \/ /\ At(q, "expire") /\ "expire" \in Unanswered
       /\ ExpireSoon(request[q].key)

FallBack_Forgets(q) == Throws(q) /\ UNCHANGED memory /\ StoreReturns(q)
FallBack(q) ==
    /\ Throws(q)
    /\ memory' = [memory EXCEPT ![request[q].key] =
                      [code |-> request[q].code, left |-> TTL]]
    /\ StoreReturns(q)

\* sendRegistrationOtp mails the code it has stored; the mail may fail.
MailStored(q) ==
    /\ At(q, "mail")
    /\ mailed' \in {mailed, mailed \cup {request[q].code}}
    /\ Closes(q)
    /\ UNCHANGED <<redis, memory, owner, stored, uses>>

\* sendPickupOtp does not wait: its mail goes out at any moment.
MailUnawaited(c) ==
    /\ ~AwaitsStore
    /\ owner[c] # NoKey /\ c \notin mailed
    /\ mailed' = mailed \cup {c}
    /\ UNCHANGED <<redis, memory, request, owner, stored, uses>>

\* Somebody types a code that was mailed, for its key or for another.
VerifyOtp(q, k, c) ==
    /\ MayOpen(q)
    /\ c \in mailed
    /\ request' = [request EXCEPT ![q] = [at |-> "get", key |-> k, code |-> c]]
    /\ UNCHANGED <<redis, memory, owner, mailed, stored, uses>>

\* The memory is asked when Redis answers with nothing, or with an error.
Fallback(k) == IF memory[k].left > 0 THEN memory[k].code ELSE NoCode
Found_MemoryFirst(k) ==
    IF memory[k].code # NoCode THEN memory[k].code ELSE redis[k].code
Found(k) == IF redis[k].code # NoCode THEN redis[k].code ELSE Fallback(k)

Compare(q, found) ==
    /\ IF found = request[q].code THEN Goes(q, "del") ELSE Closes(q)
    /\ UNCHANGED <<redis, memory, owner, mailed, stored, uses>>

RedisGet(q) ==
    /\ At(q, "get")
    /\ \/ Compare(q, Found(request[q].key))
       \/ "get" \in Failing /\ Compare(q, Fallback(request[q].key))

\* The code was right: it is deleted in both places and the caller told so.
\* An error of DEL is swallowed.
RedisDel(q) ==
    /\ At(q, "del")
    /\ Del(request[q].key) \/ ("del" \in Failing /\ UNCHANGED redis)
    /\ memory' = [memory EXCEPT ![request[q].key] = Nothing]
    /\ uses' = [uses EXCEPT ![request[q].code] = IF @ < MaxUses THEN @ + 1 ELSE @]
    /\ Closes(q)
    /\ UNCHANGED <<owner, mailed, stored>>

\* Some minutes pass.  Redis drops what is due; the Map keeps it, expired.
TimePasses ==
    /\ redis' = [k \in Keys |->
           CASE redis[k].left = Forever -> redis[k]
             [] redis[k].left <= 1 -> Nothing
             [] OTHER -> [redis[k] EXCEPT !.left = @ - 1]]
    /\ memory' = [k \in Keys |->
           [memory[k] EXCEPT !.left = IF @ > 0 THEN @ - 1 ELSE 0]]
    /\ stored' = [c \in Codes |->
           IF stored[c] < Old THEN stored[c] + 1 ELSE stored[c]]
    /\ UNCHANGED <<request, owner, mailed, uses>>

\* The process is restarted: Redis keeps what it has.
Restart ==
    /\ Restarts
    /\ memory' = [k \in Keys |-> Nothing]
    /\ request' = [q \in Requests |-> Idle]
    /\ UNCHANGED <<redis, owner, mailed, stored, uses>>

Store(q) == RedisSet(q) \/ RedisExpire(q) \/ FallBack(q)

Next ==
    \/ \E q \in Requests, k \in Keys, c \in Codes : SendOtp(q, k, c) \/ VerifyOtp(q, k, c)
    \/ \E q \in Requests : Store(q) \/ MailStored(q) \/ RedisGet(q) \/ RedisDel(q)
    \/ \E c \in Codes : MailUnawaited(c)
    \/ TimePasses
    \/ Restart

Spec == Init /\ [][Next]_vars

\* Awaits return, and time goes on.
FairSpec ==
    /\ Spec
    /\ WF_vars(TimePasses)
    /\ \A q \in Requests : WF_vars(Store(q)) /\ WF_vars(RedisGet(q)) /\ WF_vars(RedisDel(q))

------------------------------------------------------------------------------
Newest(c) == owner[c] # NoKey /\ \A d \in Codes : d > c => owner[d] # owner[c]
Open(k) == \E q \in Requests : request[q] # Idle /\ request[q].key = k

(* The newest code of a key, once mailed, is the one a verification finds  *)
(* until it is used or its ten minutes are over: storeOTP has put it where *)
(* verifyOTP looks first.                                                  *)
MailedCodeAccepted ==
    \A c \in mailed :
        Newest(c) /\ uses[c] = 0 /\ stored[c] < TTL /\ ~Open(owner[c])
            => Found(owner[c]) = c

(* A verification never gets past the comparison with a code that another  *)
(* one of the same key has replaced, wherever the two copies are.          *)
Accepts(q) == At(q, "get") /\ request'[q].at = "del"
AcceptsNewest == \A q \in Requests : Accepts(q) => Newest(request[q].code)

(* Nor with one whose ten minutes are over: expiry in Redis and expiresAt  *)
(* in the memory end a code no later than TTL after storeOTP returned.     *)
AcceptsUnexpired == \A q \in Requests : Accepts(q) => stored[request[q].code] # Old

(* storeOTP is not awaited by sendPickupOtp, so a code may be mailed before*)
(* it is stored; unless it came late or another code of its key was sent,  *)
(* the passenger can use it, out of Redis or out of the memory.            *)
MailedInTime(c) == c \in mailed /\ stored[c] \notin {TTL, Old}
Usable(c) == \/ \E k \in Keys : Found(k) = c
             \/ uses[c] > 0
             \/ \E d \in Codes \ {c} : owner[d] = owner[c]
MailedCodeBecomesUsable == \A c \in Codes : MailedInTime(c) ~> Usable(c)

(* Handlers that do not overlap, with Redis answering, are the one-time    *)
(* store of CodeStore.  A code that was compared belongs to its verifier   *)
(* until it is deleted.                                                    *)
Accepting(k) == {q \in Requests : At(q, "del") /\ request[q].key = k}
Abstract == INSTANCE CodeStore WITH
    live <- [k \in Keys |-> IF Accepting(k) = {} THEN redis[k].code
                            ELSE request[CHOOSE q \in Accepting(k) : TRUE].code],
    made <- {c \in Codes : owner[c] # NoKey
                 /\ ~\E q \in Requests : At(q, "set") /\ request[q].code = c}
==============================================================================
