---------------------------- MODULE EmailDelivery ----------------------------
(***************************************************************************)
(* The way of an email: a handler mails one-time codes directly and puts   *)
(* everything else in a queue kept in Redis, from which one worker sends.  *)
(* When Redis refuses commands because its quota is used up, a circuit     *)
(* breaker sends mails directly for a while and the worker is paused; a job*)
(* in hand then stalls, and BullMQ gives it up the second time.            *)
(* Between two awaits each function runs as one step; time is in ticks of  *)
(* which the two quarters of an hour of the code take Cooldown.            *)
(***************************************************************************)
EXTENDS Naturals

CONSTANTS
    Emails,      \* bound: the emails sent by the handlers
    Codes,       \* those that carry a one-time code
    Cooldown,    \* ticks in DEFAULT_COOLDOWN_MS, and in the worker's timer
    Outages,     \* bound: times the quota of Redis is used up
    Answers,     \* what the mail server may answer
    Restarts     \* bound: restarts of the process

Attempts == 2  \* defaultJobOptions.attempts
MaxStalledCount == 1  \* the default of BullMQ: a job that stalls again fails

\* "unsure" is an error although the mail was taken; "limit" is an error that
\* reads like a used-up quota.
AllAnswers == {"sent", "refused", "unsure", "limit"}

Assumptions ==
    /\ Codes \subseteq Emails
    /\ Cooldown \in Nat \ {0}
    /\ Outages \in Nat /\ Restarts \in Nat
    /\ Answers \subseteq AllAnswers

VARIABLES
    forced,     \* DISABLE_EMAIL_QUEUE or EMAIL_DIRECT_FALLBACK is "true"
    email,      \* stage of each email: at its handler, its job or its end
    tries,      \* attempts of each job that BullMQ recorded as failed
    stalls,     \* how often each job has stalled
    copies,     \* mails taken by the mail server
    failed,     \* emails of which a mail was refused or reported as refused
    trippedAt,  \* ticks since the circuit was tripped, or Closed
    paused,     \* the worker polls no more
    isWorkerPaused,
    timer,      \* ticks left to the check that resumes the worker, or Off
    overQuota,  \* Redis refuses commands
    outages, restarts

vars == <<forced, email, tries, stalls, copies, failed, trippedAt, paused, isWorkerPaused,
          timer, overQuota, outages, restarts>>
jobs == <<tries, stalls>>
mails == <<email, jobs, copies, failed>>
breaker == <<trippedAt, paused, isWorkerPaused, timer>>
redis == <<overQuota, outages, restarts, forced>>

\* The stages of a job the worker has in hand: being mailed, its mail taken, the
\* error thrown, mailed once more, the unrecoverable error thrown.
InHand == {"active", "taken", "threw", "retried", "unrecoverable"}
Stages == {"new", "enqueue", "direct", "queued", "sent", "lost"} \cup InHand
Ended == {"sent", "lost"}
MaxCopies == 3  \* bound: copies are counted up to here
Elapsed == Cooldown + 1  \* ticks are counted up to here: "elapsed > cooldown"
Closed == Cooldown + 2
Off == Cooldown + 1

\* One type invariant; a paused worker is one whose flag says so.
TypeOK ==
    /\ forced \in BOOLEAN
    /\ email \in [Emails -> Stages]
    /\ tries \in [Emails -> 0..Attempts]
    /\ stalls \in [Emails -> 0..MaxStalledCount + 1]
    /\ copies \in [Emails -> 0..MaxCopies]
    /\ failed \subseteq Emails
    /\ trippedAt \in 0..Closed
    /\ timer \in 0..Off
    /\ {paused, isWorkerPaused, overQuota} \subseteq BOOLEAN
    /\ paused => isWorkerPaused
    /\ outages \in 0..Outages /\ restarts \in 0..Restarts

Init ==
    /\ forced \in BOOLEAN
    /\ email = [e \in Emails |-> "new"]
    /\ tries = [e \in Emails |-> 0] /\ stalls = [e \in Emails |-> 0]
    /\ copies = [e \in Emails |-> 0]
    /\ failed = {}
    /\ trippedAt = Closed
    /\ paused = FALSE /\ isWorkerPaused = FALSE
    /\ timer = Off
    /\ overQuota = FALSE
    /\ outages = 0 /\ restarts = 0

------------------------------------------------------------------------------
(* The circuit breaker.                                                    *)
IsOpen == trippedAt # Closed
CooledDown == trippedAt = Elapsed
DirectMode == forced \/ (IsOpen /\ ~CooledDown)

\* tripCircuit does nothing while the circuit is open.
Trips(on) == trippedAt' = IF on /\ ~IsOpen THEN 0 ELSE trippedAt
\* isDirectEmailModeEnabled closes a circuit that has cooled down.
Looks == trippedAt' = IF ~forced /\ CooledDown THEN Closed ELSE trippedAt

(* processEmailJob: one mail to the server, whatever its answer.           *)
Taken(answer) == answer \in {"sent", "unsure"}
Count(e, answer) ==
    /\ copies' = [copies EXCEPT ![e] =
           IF Taken(answer) /\ @ < MaxCopies THEN @ + 1 ELSE @]
    /\ failed' = IF answer = "sent" THEN failed ELSE failed \cup {e}
Mail(e, answer, ifSent, ifNot) ==
    /\ Count(e, answer)
    /\ email' = [email EXCEPT ![e] = IF answer = "sent" THEN ifSent ELSE ifNot]
At(e, stage) == email[e] = stage
Goes(e, stage) == email' = [email EXCEPT ![e] = stage]

(* The producer: a code is mailed at once and queued only if that fails;   *)
(* everything else is queued.                                              *)
SendCode(e) ==
    /\ e \in Codes /\ At(e, "new")
    /\ \E a \in Answers : Mail(e, a, "sent", "enqueue")
    /\ UNCHANGED <<jobs, breaker, redis>>

SendOther(e) ==
    /\ e \notin Codes /\ At(e, "new")
    /\ Goes(e, "enqueue")
    /\ UNCHANGED <<jobs, copies, failed, breaker, redis>>

\* enqueueEmailJob: in direct mode Redis is left alone.
Bypass(e) ==
    /\ At(e, "enqueue")
    /\ DirectMode
    /\ Goes(e, "direct")
    /\ UNCHANGED <<jobs, copies, failed, breaker, redis>>

Enqueue(e) ==
    /\ At(e, "enqueue")
    /\ ~DirectMode
    /\ ~overQuota
    /\ Looks
    /\ Goes(e, "queued")
    /\ UNCHANGED <<jobs, copies, failed, paused, isWorkerPaused, timer, redis>>

\* Redis is over its quota or cannot be reached: the mail goes out directly.
\* The circuit was closed by the look at it, and the quota trips it again.
EnqueueFails(e) ==
    /\ At(e, "enqueue")
    /\ ~DirectMode
    /\ trippedAt' = IF overQuota THEN 0 ELSE Closed
    /\ Goes(e, "direct")
    /\ UNCHANGED <<jobs, copies, failed, paused, isWorkerPaused, timer, redis>>

\* Direct dispatch and direct fallback: errors are logged and that was it.
Direct_NoReturn(e) ==
    /\ At(e, "direct")
    /\ \E a \in Answers : Mail(e, a, "queued", "lost")
    /\ UNCHANGED <<jobs, breaker, redis>>

Direct(e) ==
    /\ At(e, "direct")
    /\ \E a \in Answers : Mail(e, a, "sent", "lost")
    /\ UNCHANGED <<jobs, breaker, redis>>

------------------------------------------------------------------------------
(* The worker, one job at a time; in forced direct mode it is not started. *)
Polls == ~forced /\ ~paused /\ ~overQuota
Busy == \E e \in Emails : email[e] \in InHand

TakeJob(e) ==
    /\ At(e, "queued")
    /\ Polls /\ ~Busy
    /\ Goes(e, "active")
    /\ UNCHANGED <<jobs, copies, failed, breaker, redis>>

\* The mail of a job; its error is thrown on, or reads like a used-up quota.
Process(e) ==
    /\ At(e, "active")
    /\ \E a \in Answers :
          /\ Mail(e, a, "taken", IF a = "limit" THEN "retried" ELSE "threw")
          /\ Trips(a = "limit")
    /\ UNCHANGED <<jobs, paused, isWorkerPaused, timer, redis>>

\* The catch of the processor sends once more; then the job is unrecoverable.
ProcessDirectly(e) ==
    /\ At(e, "retried")
    /\ \E a \in Answers : Mail(e, a, "taken", "unrecoverable")
    /\ UNCHANGED <<jobs, breaker, redis>>

\* External: BullMQ records how a job ended, for which it needs Redis.  One that
\* threw is tried again after its backoff, as often as it may be; one mailed by
\* the catch counts as sent, although BullMQ calls it failed.
Complete(e) ==
    /\ At(e, "taken")
    /\ ~overQuota
    /\ Goes(e, "sent")
    /\ UNCHANGED <<jobs, copies, failed, breaker, redis>>

MayRetry_Always(e) == TRUE
MayRetry(e) == tries[e] + 1 < Attempts
JobFails(e) ==
    /\ email[e] \in {"threw", "unrecoverable"}
    /\ ~overQuota
    /\ tries' = [tries EXCEPT ![e] = IF @ < Attempts THEN @ + 1 ELSE @]
    /\ Goes(e, IF At(e, "threw") /\ MayRetry(e) THEN "queued" ELSE "lost")
    /\ UNCHANGED <<stalls, copies, failed, breaker, redis>>

\* External: a job in hand whose lock ran out while Redis was away is queued
\* again, but one that stalls more often than maxStalledCount has failed.
AfterStall(e) == IF stalls[e] < MaxStalledCount THEN "queued" ELSE "lost"
StallsOnce(e) == IF stalls[e] <= MaxStalledCount THEN stalls[e] + 1 ELSE stalls[e]
Stall(e) ==
    /\ email[e] \in InHand
    /\ overQuota
    /\ Goes(e, AfterStall(e))
    /\ stalls' = [stalls EXCEPT ![e] = StallsOnce(e)]
    /\ UNCHANGED <<tries, copies, failed, breaker, redis>>

\* The error event of a worker whose commands are refused.
Pause_NoFlag == paused' = TRUE /\ UNCHANGED isWorkerPaused
Pause == paused' = TRUE /\ isWorkerPaused' = TRUE
WorkerError ==
    /\ ~forced /\ ~paused /\ overQuota
    /\ Trips(TRUE)
    /\ IF isWorkerPaused
       THEN UNCHANGED <<paused, isWorkerPaused, timer>>
       ELSE Pause /\ timer' = Cooldown
    /\ UNCHANGED <<mails, redis>>

\* The timer's check: it resumes the worker unless direct mode is on.
Resume_KeepsFlag == paused' = FALSE /\ UNCHANGED isWorkerPaused
Resume == paused' = FALSE /\ isWorkerPaused' = FALSE
TimerFires ==
    /\ timer = 0
    /\ timer' = Off
    /\ Looks
    /\ IF DirectMode THEN UNCHANGED <<paused, isWorkerPaused>> ELSE Resume
    /\ UNCHANGED <<mails, redis>>

------------------------------------------------------------------------------
(* The environment.  A timer fires late, not early.                         *)
TimePasses ==
    /\ trippedAt' = IF IsOpen /\ ~CooledDown THEN trippedAt + 1 ELSE trippedAt
    /\ timer' = IF timer \in {0, Off} THEN timer ELSE timer - 1
    /\ UNCHANGED <<mails, paused, isWorkerPaused, redis>>

QuotaUsedUp ==
    /\ ~overQuota /\ outages < Outages
    /\ overQuota' = TRUE /\ outages' = outages + 1
    /\ UNCHANGED <<mails, breaker, restarts, forced>>

QuotaRenewed ==
    /\ overQuota
    /\ overQuota' = FALSE
    /\ UNCHANGED <<mails, breaker, outages, restarts, forced>>

\* The process restarts: jobs stay in Redis and the one in hand stalls; a handler
\* that was about to mail is gone.
Restart ==
    /\ restarts < Restarts
    /\ restarts' = restarts + 1
    /\ email' = [e \in Emails |->
           CASE email[e] \in InHand -> AfterStall(e)
             [] email[e] \in {"enqueue", "direct"} -> "lost"
             [] OTHER -> email[e]]
    /\ stalls' = [e \in Emails |-> IF email[e] \in InHand THEN StallsOnce(e) ELSE stalls[e]]
    /\ trippedAt' = Closed /\ timer' = Off
    /\ paused' = FALSE /\ isWorkerPaused' = FALSE
    /\ UNCHANGED <<tries, copies, failed, overQuota, outages, forced>>

Producer(e) ==
    SendCode(e) \/ SendOther(e) \/ Bypass(e) \/ Enqueue(e) \/ EnqueueFails(e) \/ Direct(e)
Worker(e) ==
    TakeJob(e) \/ Process(e) \/ ProcessDirectly(e) \/ Complete(e) \/ JobFails(e) \/ Stall(e)

Next ==
    \/ \E e \in Emails : Producer(e) \/ Worker(e)
    \/ WorkerError \/ TimerFires
    \/ TimePasses \/ QuotaUsedUp \/ QuotaRenewed \/ Restart

Spec == Init /\ [][Next]_vars

\* Awaits return, timers fire, and the worker takes its jobs in turn: strong,
\* because it is busy with another again and again.  No quota need be renewed.
FairSpec ==
    /\ Spec
    /\ \A e \in Emails : WF_vars(Producer(e)) /\ SF_vars(Worker(e))
    /\ WF_vars(WorkerError) /\ WF_vars(TimerFires)
    /\ WF_vars(TimePasses)

------------------------------------------------------------------------------
(* As long as Redis has gone away no more often than a job may stall, no   *)
(* email is given up before a mail server refused it: an error of Redis    *)
(* alone loses none, at the producer, in the queue or at the worker.       *)
LostOnlyIfRefused ==
    restarts = 0 /\ outages <= MaxStalledCount =>
        \A e \in Emails : At(e, "lost") => e \in failed

(* Where a mail server means what it says and no active job loses its lock *)
(* (the constants of the run), no email is delivered twice: neither the    *)
(* fallbacks nor the retries repeat a mail that was taken.                 *)
AtMostOneCopy ==
    \A e \in Emails : copies[e] <= 1

(* Every email that is sent arrives or is given up, as long as the quota   *)
(* holds: retries end.                                                     *)
EveryEmailEnds == \A e \in Emails : At(e, "queued") ~> email[e] \in Ended

(* A worker that Redis refuses stops asking, in every outage anew.         *)
Refused == ~forced /\ overQuota
StopsAsking == paused \/ ~overQuota
WorkerStopsAsking == Refused ~> StopsAsking

(* "Schedule check to resume worker polling after a 15-minute cooldown":   *)
(* a worker that was paused polls again.                                   *)
PausedWorkerResumes == paused ~> ~paused
==============================================================================
