------------------------------ MODULE Connect ------------------------------
(***************************************************************************)
(* Connecting to an endpoint: retryUntilReady (internal/client/client.go)  *)
(* and the probes ConnectPubSub and ConnectStorage give it.  Time is       *)
(* counted in seconds.  It passes only while the process waits for         *)
(* something, so a step takes no time but a wait that nothing ends takes   *)
(* as long as it likes.                                                    *)
(***************************************************************************)
EXTENDS Integers

CONSTANTS
    ProbeLimits,  \* how long a probe may last: operationTimeout for Cloud
                  \* Storage, the library's own limit for Pub/Sub
    AnswerTime,   \* how long a probe of an endpoint that is up may last
    ReadyTimes    \* when the endpoint comes up

maxRetries == 15
initialDelay == 1
maxDelay == 30
totalTimeout == 300

ASSUME ConnectAssumption ==
    /\ ProbeLimits \subseteq Nat \ {0} /\ ReadyTimes \subseteq Nat
    /\ AnswerTime \in Nat /\ \A l \in ProbeLimits : AnswerTime <= l

VARIABLES
    pc,          \* "probe", "sleep", "connected", "timeout" or "exhausted"
    attempt,     \* the loop variable
    since,       \* when the current probe or delay began
    now,
    readyAt,     \* when the endpoint comes up
    probeLimit,  \* how long a probe of this endpoint may last
    cancelledAt  \* when SIGINT or SIGTERM arrived, if it did: a set of at most one

endpoint == <<readyAt, probeLimit>>

vars == <<pc, attempt, since, now, endpoint, cancelledAt>>

Init ==
    /\ pc = "probe" /\ attempt = 0 /\ since = 0 /\ now = 0
    /\ readyAt \in ReadyTimes /\ probeLimit \in ProbeLimits
    /\ cancelledAt = {}

\* ctx.Err() # nil, for the context with the timeout.
ctxDone == cancelledAt # {} \/ now >= totalTimeout

\* Mutant: the delay is not capped.
delay_Uncapped == initialDelay * 2^attempt

\* Mutant: it does not grow.
delay_Constant == initialDelay

delay ==
    IF initialDelay * 2^attempt > maxDelay THEN maxDelay ELSE initialDelay * 2^attempt

-----------------------------------------------------------------------------
(* The probe. *)

\* It was sent to an endpoint that is up.
Asked == since >= readyAt

mayAnswer == now >= readyAt

mustReturn ==
    \/ ctxDone
    \/ now - since >= (IF Asked THEN AnswerTime ELSE probeLimit)

mayFail == ctxDone \/ ~Asked

\* probe returned nil.
ProbeAnswers ==
    /\ pc = "probe" /\ mayAnswer
    /\ pc' = "connected"
    /\ UNCHANGED <<attempt, since, now, endpoint, cancelledAt>>

\* probe returned an error: the context is looked at, then the delay begins.
ProbeFails ==
    /\ pc = "probe" /\ mayFail
    /\ \/ ctxDone /\ pc' = "timeout" /\ UNCHANGED since
       \/ ~ctxDone /\ pc' = "sleep" /\ since' = now
    /\ UNCHANGED <<attempt, now, endpoint, cancelledAt>>

-----------------------------------------------------------------------------
(* The select. *)

elapsed == now - since >= delay

\* Mutant: time.Sleep instead of a select.
cancels_Never == FALSE

cancels == ctxDone

\* When both channels are ready, select picks either.
DelayEnds ==
    /\ pc = "sleep" /\ elapsed
    /\ attempt' = attempt + 1
    /\ pc' = IF attempt' <= maxRetries THEN "probe" ELSE "exhausted"
    /\ since' = now
    /\ UNCHANGED <<now, endpoint, cancelledAt>>

\* Mutant: the break leaves the select and not the loop, which waits again.
SleepCancelled_WaitsAgain ==
    /\ pc = "sleep" /\ cancels
    /\ since' = now
    /\ UNCHANGED <<pc, attempt, now, endpoint, cancelledAt>>

SleepCancelled ==
    /\ pc = "sleep" /\ cancels
    /\ pc' = "timeout"
    /\ UNCHANGED <<attempt, since, now, endpoint, cancelledAt>>

retryUntilReady == ProbeAnswers \/ ProbeFails \/ DelayEnds \/ SleepCancelled

-----------------------------------------------------------------------------
Signal ==
    /\ pc \in {"probe", "sleep"} /\ cancelledAt = {}
    /\ cancelledAt' = {now}
    /\ UNCHANGED <<pc, attempt, since, now, endpoint>>

\* A second passes while the process waits for the endpoint or the delay.
Tick ==
    /\ \/ pc = "probe" /\ ~mustReturn
       \/ pc = "sleep" /\ ~elapsed /\ ~cancels
    /\ now' = now + 1
    /\ UNCHANGED <<pc, attempt, since, endpoint, cancelledAt>>

Next == retryUntilReady \/ Signal \/ Tick

Spec == Init /\ [][Next]_vars

FairSpec == Spec /\ WF_vars(retryUntilReady) /\ WF_vars(Tick)

-----------------------------------------------------------------------------
(* Properties. *)

Ended == pc \in {"connected", "timeout", "exhausted"}

\* Every variable has its type, and no wait began in the future.
TypeOK ==
    /\ pc \in {"probe", "sleep", "connected", "timeout", "exhausted"}
    /\ attempt \in 0..(maxRetries + 1)
    /\ now \in Nat /\ since \in 0..now
    /\ cancelledAt \subseteq 0..now
    /\ readyAt \in ReadyTimes /\ probeLimit \in ProbeLimits

\* However long probes last, connecting takes no longer than the five minutes
\* it is given, and no second longer after a signal: a wait is never one that
\* the context does not end.
StopsInTime == now <= totalTimeout /\ \A t \in cancelledAt : now <= t

\* An endpoint that comes up early enough for one more delay and two probes,
\* the one it comes up in and the next, is connected to unless a signal comes
\* first: neither the growing delays nor the limit on attempts miss it.
ComesUpInTime ==
    pc \in {"timeout", "exhausted"} /\ cancelledAt = {} =>
        readyAt + probeLimit + maxDelay + AnswerTime > totalTimeout

\* The limit on attempts is never what ends the loop: the delays between
\* sixteen attempts add up to more than totalTimeout.
AttemptsNeverRunOut == pc # "exhausted"

-----------------------------------------------------------------------------
(* Why these hold: the inductive invariant. *)

\* The delays before an attempt, added up: 1, 2, 4, 8, 16, then 30 each.
DelaysBefore(a) == IF a <= 5 THEN 2^a - 1 ELSE 31 + 30 * (a - 5)

\* How long the process has waited: no probe and no delay lasts longer than
\* it may, and the delays so far have really been waited for.
Paced ==
    /\ pc \in {"probe", "sleep"} => attempt <= maxRetries /\ since >= DelaysBefore(attempt)
    /\ pc = "probe" => now - since <= (IF Asked THEN AnswerTime ELSE probeLimit)
    /\ pc = "sleep" => now - since <= delay

\* Without a signal, only a probe that the endpoint was not up for is followed
\* by a delay.
NotMissed ==
    cancelledAt = {} =>
        /\ pc = "sleep" => since < readyAt + probeLimit
        /\ pc = "probe" => since < readyAt + probeLimit + maxDelay

\* The three bounds on connecting hold in every state, with what they rest on:
\* how fast the loop gets on, and where it is when the endpoint comes up.
ConnectInv ==
    /\ TypeOK /\ Paced /\ NotMissed
    /\ StopsInTime /\ AttemptsNeverRunOut /\ ComesUpInTime

-----------------------------------------------------------------------------
\* Connecting ends.
EventuallyEnds == <>Ended
=============================================================================
