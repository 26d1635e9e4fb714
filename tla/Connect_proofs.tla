--------------------------- MODULE Connect_proofs ---------------------------
(***************************************************************************)
(* The bounds of the connection loop, for every time the endpoint may come *)
(* up, every limit on a probe and every answer time.                       *)
(***************************************************************************)
EXTENDS Connect, TLAPS

\* What a delay adds to the delays before it (retryUntilReady): it is positive
\* and at most maxDelay, and the cap takes over at the sixth.
LEMMA DelayBounds ==
    ASSUME attempt \in 0..maxRetries
    PROVE  /\ delay \in 1..maxDelay
           /\ DelaysBefore(attempt) \in Int
           /\ DelaysBefore(attempt) + delay = DelaysBefore(attempt + 1)
  <1>1. attempt \in 0..15
    BY DEF maxRetries
  <1>2. CASE attempt = 0
    BY <1>2 DEF delay, DelaysBefore, initialDelay, maxDelay
  <1>3. CASE attempt = 1
    BY <1>3 DEF delay, DelaysBefore, initialDelay, maxDelay
  <1>4. CASE attempt = 2
    BY <1>4 DEF delay, DelaysBefore, initialDelay, maxDelay
  <1>5. CASE attempt = 3
    BY <1>5 DEF delay, DelaysBefore, initialDelay, maxDelay
  <1>6. CASE attempt = 4
    BY <1>6 DEF delay, DelaysBefore, initialDelay, maxDelay
  <1>7. CASE attempt = 5
    BY <1>7 DEF delay, DelaysBefore, initialDelay, maxDelay
  <1>8. CASE attempt \in 6..15
    <2>1. 2^attempt \in Int /\ 2^attempt >= 64
      <3>1. CASE attempt = 6
        BY <3>1
      <3>2. CASE attempt = 7
        BY <3>2
      <3>3. CASE attempt = 8
        BY <3>3
      <3>4. CASE attempt = 9
        BY <3>4
      <3>5. CASE attempt = 10
        BY <3>5
      <3>6. CASE attempt = 11
        BY <3>6
      <3>7. CASE attempt = 12
        BY <3>7
      <3>8. CASE attempt = 13
        BY <3>8
      <3>9. CASE attempt = 14
        BY <3>9
      <3>10. CASE attempt = 15
        BY <3>10
      <3> QED
        BY <1>8, <3>1, <3>2, <3>3, <3>4, <3>5, <3>6, <3>7, <3>8, <3>9, <3>10
    <2>2. delay = 30
      BY <2>1 DEF delay, initialDelay, maxDelay
    <2> QED
      BY <2>2, <1>8 DEF DelaysBefore, maxDelay
  <1> QED
    BY <1>1, <1>2, <1>3, <1>4, <1>5, <1>6, <1>7, <1>8

\* The loop begins in the invariant.
LEMMA InitConnect == Init => ConnectInv
  <1>1. 2^0 = 1
    OBVIOUS
  <1> QED
    BY <1>1, ConnectAssumption
    DEF Init, ConnectInv, TypeOK, Paced, NotMissed, StopsInTime, ComesUpInTime,
        AttemptsNeverRunOut, DelaysBefore, maxRetries, totalTimeout, maxDelay, Asked

\* The types the arithmetic of every step rests on.
LEMMA Numbers ==
    ASSUME ConnectInv
    PROVE  /\ now \in Nat /\ since \in Nat /\ since <= now
           /\ readyAt \in Nat /\ probeLimit \in Nat \ {0}
           /\ AnswerTime \in Nat /\ AnswerTime <= probeLimit
           /\ attempt \in Nat
  BY ConnectAssumption DEF ConnectInv, TypeOK, maxRetries

\* A probe that answers ends the loop.
LEMMA AnswersKeeps == ASSUME ConnectInv, ProbeAnswers PROVE ConnectInv'
  BY DEF ProbeAnswers, endpoint, ConnectInv, TypeOK, Paced, NotMissed, StopsInTime,
         ComesUpInTime, AttemptsNeverRunOut

\* A probe that fails without the context being done was sent before the
\* endpoint was up; one that fails because the time is up began too late.
LEMMA FailsKeeps == ASSUME ConnectInv, ProbeFails PROVE ConnectInv'
  <1> USE Numbers
  <1> USE DEF endpoint, ConnectInv, TypeOK, Paced, NotMissed, StopsInTime,
              ComesUpInTime, AttemptsNeverRunOut
  <1>1. CASE ctxDone
    <2>1. /\ pc = "probe" /\ pc' = "timeout"
          /\ UNCHANGED <<attempt, since, now, readyAt, probeLimit, cancelledAt>>
      BY <1>1 DEF ProbeFails
    <2>2. Paced' /\ NotMissed' /\ TypeOK' /\ StopsInTime' /\ AttemptsNeverRunOut'
      BY <2>1
    <2>3. ASSUME cancelledAt = {} PROVE readyAt + probeLimit + maxDelay + AnswerTime > totalTimeout
      <3>1. now >= totalTimeout
        BY <1>1, <2>3 DEF ctxDone
      <3>2. now < readyAt + probeLimit + maxDelay + AnswerTime
        BY <2>1, <2>3 DEF Asked, maxDelay
      <3> QED
        BY <3>1, <3>2 DEF maxDelay, totalTimeout
    <2> QED
      BY <2>1, <2>2, <2>3
  <1>2. CASE ~ctxDone
    <2>1. pc = "probe" /\ pc' = "sleep" /\ since' = now /\ since < readyAt
      BY <1>2 DEF ProbeFails, mayFail, Asked
    <2>2. UNCHANGED <<attempt, now, readyAt, probeLimit, cancelledAt>>
      BY DEF ProbeFails
    <2>3. delay' = delay /\ DelaysBefore(attempt)' = DelaysBefore(attempt)
      BY <2>2 DEF delay, DelaysBefore
    <2>4. delay \in 1..maxDelay /\ DelaysBefore(attempt) \in Int
      BY <2>1, DelayBounds
    <2>5. now < readyAt + probeLimit
      BY <2>1 DEF Asked
    <2>6. Paced'
      BY <2>1, <2>2, <2>3, <2>4
    <2> QED
      BY <2>1, <2>2, <2>5, <2>6
  <1> QED
    BY <1>1, <1>2

\* After a delay the next probe begins, at most maxDelay later; there is no
\* time left for a seventeenth.
LEMMA DelayKeeps == ASSUME ConnectInv, DelayEnds PROVE ConnectInv'
  <1> USE Numbers
  <1> USE DEF endpoint, ConnectInv, TypeOK, Paced, NotMissed, StopsInTime,
              ComesUpInTime, AttemptsNeverRunOut
  <1>1. pc = "sleep" /\ attempt \in 0..maxRetries /\ now - since >= delay
    BY DEF DelayEnds, elapsed
  <1>2. /\ UNCHANGED <<now, readyAt, probeLimit, cancelledAt>>
        /\ since' = now /\ attempt' = attempt + 1
    BY DEF DelayEnds
  <1>3. now >= DelaysBefore(attempt + 1)
    BY <1>1, DelayBounds
  <1>4. attempt + 1 <= maxRetries
    <2>1. CASE attempt = 15
      BY <1>3, <2>1 DEF DelaysBefore, totalTimeout
    <2> QED
      BY <1>1, <2>1 DEF maxRetries
  <1>5. pc' = "probe"
    BY <1>2, <1>4 DEF DelayEnds
  <1>6. now - since <= maxDelay
    BY <1>1, DelayBounds
  <1>7. DelaysBefore(attempt)' = DelaysBefore(attempt + 1)
    BY <1>2 DEF DelaysBefore
  <1>8. Paced'
    BY <1>2, <1>3, <1>4, <1>5, <1>7
  <1>9. NotMissed'
    BY <1>1, <1>2, <1>5, <1>6 DEF maxDelay
  <1>10. TypeOK' /\ StopsInTime' /\ AttemptsNeverRunOut' /\ ComesUpInTime'
    BY <1>1, <1>2, <1>4, <1>5 DEF maxRetries
  <1> HIDE DEF TypeOK, Paced, NotMissed, StopsInTime, ComesUpInTime, AttemptsNeverRunOut
  <1> QED
    BY <1>8, <1>9, <1>10

\* A delay that the context ends began at most maxDelay ago.
LEMMA CancelKeeps == ASSUME ConnectInv, SleepCancelled PROVE ConnectInv'
  <1> USE Numbers
  <1> USE DEF endpoint, ConnectInv, TypeOK, Paced, NotMissed, StopsInTime,
              ComesUpInTime, AttemptsNeverRunOut
  <1>1. pc = "sleep" /\ ctxDone /\ attempt \in 0..maxRetries
    BY DEF SleepCancelled, cancels
  <1>2. now - since <= maxDelay
    BY <1>1, DelayBounds DEF maxDelay
  <1>3. /\ pc' = "timeout"
        /\ UNCHANGED <<attempt, since, now, readyAt, probeLimit, cancelledAt>>
    BY DEF SleepCancelled
  <1>4. Paced' /\ NotMissed' /\ TypeOK' /\ StopsInTime' /\ AttemptsNeverRunOut'
    BY <1>3
  <1>5. ComesUpInTime'
    BY <1>1, <1>2, <1>3 DEF ctxDone, maxDelay, totalTimeout
  <1> QED
    BY <1>4, <1>5

\* A signal excuses what comes after it.
LEMMA SignalKeeps == ASSUME ConnectInv, Signal PROVE ConnectInv'
  <1>1. UNCHANGED <<pc, attempt, since, now, readyAt, probeLimit>> /\ cancelledAt' = {now}
    BY DEF Signal, endpoint
  <1>2. delay' = delay /\ DelaysBefore(attempt)' = DelaysBefore(attempt) /\ Asked' = Asked
    BY <1>1 DEF delay, DelaysBefore, Asked
  <1> QED
    BY <1>1, <1>2, Numbers
    DEF ConnectInv, TypeOK, Paced, NotMissed, StopsInTime, ComesUpInTime,
        AttemptsNeverRunOut

\* Time passes only before the deadline, before a signal, and while the probe
\* or the delay may still last.
LEMMA TickKeeps == ASSUME ConnectInv, Tick PROVE ConnectInv'
  <1> USE Numbers
  <1>1. UNCHANGED <<pc, attempt, since, readyAt, probeLimit, cancelledAt>> /\ now' = now + 1
    BY DEF Tick, endpoint
  <1>2. delay' = delay /\ DelaysBefore(attempt)' = DelaysBefore(attempt) /\ Asked' = Asked
    BY <1>1 DEF delay, DelaysBefore, Asked
  <1>3. pc \in {"probe", "sleep"} /\ cancelledAt = {} /\ now < totalTimeout
    BY DEF Tick, mustReturn, cancels, ctxDone, totalTimeout
  <1>4. Paced'
    <2>1. CASE pc = "probe"
      BY <1>1, <1>2, <2>1 DEF Tick, mustReturn, ConnectInv, Paced
    <2>2. CASE pc = "sleep"
      <3>1. attempt \in 0..maxRetries
        BY <2>2 DEF ConnectInv, TypeOK, Paced
      <3>2. delay \in 1..maxDelay
        BY <3>1, DelayBounds
      <3> QED
        BY <1>1, <1>2, <2>2, <3>2 DEF Tick, elapsed, ConnectInv, Paced, maxDelay
    <2> QED
      BY <1>3, <2>1, <2>2
  <1> QED
    BY <1>1, <1>3, <1>4
    DEF ConnectInv, TypeOK, NotMissed, StopsInTime, ComesUpInTime, AttemptsNeverRunOut,
        totalTimeout

\* The inductive invariant of connecting (retryUntilReady): how fast the loop
\* gets on, and where it is when the endpoint comes up.
THEOREM ConnectInvariant == Spec => []ConnectInv
  <1>1. ASSUME ConnectInv, [Next]_vars PROVE ConnectInv'
    <2>1. CASE UNCHANGED vars
      BY <1>1, <2>1
      DEF vars, endpoint, ConnectInv, TypeOK, Paced, NotMissed, StopsInTime,
          ComesUpInTime, AttemptsNeverRunOut, DelaysBefore, delay, Asked
    <2> QED
      BY <1>1, <2>1, AnswersKeeps, FailsKeeps, DelayKeeps, CancelKeeps, SignalKeeps,
         TickKeeps
      DEF Next, retryUntilReady
  <1> QED
    BY InitConnect, <1>1, PTL DEF Spec

\* Connecting takes no longer than its five minutes, and no longer than until
\* a signal arrives, whatever the probes do.
THEOREM ConnectingStopsInTime == Spec => []StopsInTime
  <1>1. ConnectInv => StopsInTime
    BY DEF ConnectInv
  <1> QED
    BY ConnectInvariant, <1>1, PTL

\* The attempts of retryUntilReady never run out: the time always does first.
THEOREM TimeEndsTheLoop == Spec => []AttemptsNeverRunOut
  <1>1. ConnectInv => AttemptsNeverRunOut
    BY DEF ConnectInv
  <1> QED
    BY ConnectInvariant, <1>1, PTL

\* An endpoint that comes up in time is connected to unless a signal comes
\* first, whenever it comes up and however long a probe may last.
THEOREM ReadyEndpointIsMet == Spec => []ComesUpInTime
  <1>1. ConnectInv => ComesUpInTime
    BY DEF ConnectInv
  <1> QED
    BY ConnectInvariant, <1>1, PTL
=============================================================================
