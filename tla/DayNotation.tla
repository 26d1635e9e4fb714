---------------------------- MODULE DayNotation ----------------------------
(***************************************************************************)
(* Durations as they are written, in days ("7d") or in Go's notation, and  *)
(* their validation (internal/config/config.go), with the width of a       *)
(* time.Duration: 64 bit, in nanoseconds.  A second is a multiple of 2^9   *)
(* ns, so a duration is counted here in units of 2^9 ns modulo 2^55.  A    *)
(* number is five limbs of 11 bit, the lowest first: TLC's own integers    *)
(* have 32 bit.                                                            *)
(***************************************************************************)
EXTENDS Integers, Sequences

Base == 2048

Number == [1..5 -> 0..(Base - 1)]

\* a * n modulo 2^55, limb by limb with a carry; n is a number of TLC's, and
\* a negative result comes out in two's complement.
Mul(a, n) ==
    LET carry[i \in 0..5] ==
            IF i = 0 THEN 0 ELSE (a[i] * n + carry[i - 1]) \div Base
    IN  [i \in 1..5 |-> (a[i] * n + carry[i - 1]) % Base]

\* 1,953,125 units.
Second == <<1381, 953, 0, 0, 0>>

Seconds(n) == Mul(Second, n)

Negative(a) == a[5] >= Base \div 2

\* a < b for numbers that are not negative.
Less(a, b) ==
    \E i \in 1..5 : a[i] < b[i] /\ \A j \in (i + 1)..5 : a[j] = b[j]

-----------------------------------------------------------------------------
\* What a text counts: days, or hours, minutes or seconds.
Units == {"d", "h", "m", "s"}

Size ==
    [d |-> Mul(Seconds(3600), 24), h |-> Seconds(3600), m |-> Seconds(60),
     s |-> Seconds(1)]

\* The bound on what is counted.
MaxCount == 1000000

\* A text of w[2] times the unit w[1].  Days are multiplied without a look at
\* overflow.  Go's own parser reports it, but no other unit has MaxCount of
\* them overflow.
ParseDuration(w) == Mul(Size[w[1]], w[2])

Limits ==
    [message_retention |-> [lo |-> Seconds(600), hi |-> Mul(Seconds(86400), 31)],
     expiration_ttl    |-> [lo |-> Seconds(86400), hi |-> Mul(Seconds(86400), 365)],
     ack_deadline      |-> [lo |-> Seconds(10), hi |-> Seconds(600)],
     minimum_backoff   |-> [lo |-> Seconds(0), hi |-> Seconds(600)],
     maximum_backoff   |-> [lo |-> Seconds(0), hi |-> Seconds(600)]]

\* Mutant: the limit itself is refused.
validateDurationRange_Strict(d, lo, hi) ==
    ~Negative(d) /\ ~Less(d, lo) /\ Less(d, hi)

validateDurationRange(d, lo, hi) ==
    ~Negative(d) /\ ~Less(d, lo) /\ ~Less(hi, d)
=============================================================================
