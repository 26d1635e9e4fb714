---------------------------- MODULE Load_proofs ----------------------------
(***************************************************************************)
(* Loading a config, for every file, environment and number of loads: what *)
(* a load returns is what the file means, and it is an error exactly when  *)
(* the file is not acceptable.                                             *)
(***************************************************************************)
EXTENDS Load, TLAPS

\* The value of an optional that has one.
LEMMA TheOnly ==
    ASSUME NEW S, NEW o \in Opt(S), o # {}
    PROVE  The(o) \in S /\ o = {The(o)}
  <1>1. PICK x \in o : TRUE
    OBVIOUS
  <1>2. The(o) \in o
    BY <1>1 DEF The
  <1> QED
    BY <1>2 DEF Opt

\* The file and the environment are what the assumptions say, and stay so.
Given == raw \in Raws /\ env \in Environments

\* expandEnvVars gives every text of the file its meaning, whether its variable
\* is set, unset or there is none.
LEMMA ExpandsToMeaning ==
    ASSUME Given, NEW text \in Texts
    PROVE  expandEnvVars(text) = Meaning(text)
  <1>1. Reference[text] \in Opt(Variables)
    BY LoadAssumption
  <1>2. env \in [Variables -> Opt(Texts)]
    BY LoadAssumption DEF Given
  <1>3. CASE \E v \in Reference[text] : env[v] # {}
    <2>1. PICK v \in Reference[text] : env[v] # {}
      BY <1>3
    <2>2. v \in Variables /\ Reference[text] = {v} /\ The(Reference[text]) = v
      BY <1>1, <2>1, TheOnly DEF Opt
    <2>3. UNION {env[w] : w \in Reference[text]} = env[v]
      BY <2>2
    <2> QED
      BY <1>3, <2>1, <2>2, <2>3 DEF expandEnvVars, Meaning
  <1>4. CASE ~\E v \in Reference[text] : env[v] # {}
    <2>1. UNION {env[w] : w \in Reference[text]} = {}
      BY <1>4
    <2> QED
      BY <1>4, <2>1 DEF expandEnvVars, Meaning
  <1> QED
    BY <1>3, <1>4

\* expandConfig visits every text field of the config types.
LEMMA VisitsEveryField == StringFields \subseteq Expanded /\ MapFields \subseteq Expanded
  <1>9. MapFields \subseteq Expanded
    BY DEF Expanded, MapFields
  <1> SUFFICES ASSUME NEW f \in StringFields PROVE f \in Expanded
    BY <1>9
  <1>1. CASE f \in {"file"} \X {"strategy", "project_id"}
    BY <1>1 DEF Expanded
  <1>2. CASE f \in {"topic 1", "topic 2"} \X {"name", "strategy", "message_retention"}
    BY <1>2 DEF Expanded
  <1>3. CASE f \in {"subscription"} \X {"name", "strategy", "ack_deadline",
                      "message_retention", "filter", "expiration_ttl",
                      "push_endpoint", "push_wrapper"}
    BY <1>3 DEF Expanded
  <1>4. CASE f \in {"push_oidc_token"} \X {"service_account_email", "audience"}
    BY <1>4 DEF Expanded
  <1>5. CASE f \in {"dead_letter"} \X {"topic"}
    BY <1>5 DEF Expanded
  <1>6. CASE f \in {"retry"} \X {"minimum_backoff", "maximum_backoff"}
    BY <1>6 DEF Expanded
  <1>7. CASE f \in {"credential"} \X {"path", "strategy", "account", "token_uri"}
    BY <1>7 DEF Expanded
  <1>8. CASE f \in {"bucket"} \X {"name", "strategy", "location", "storage_class"}
    BY <1>8 DEF Expanded
  <1> QED
    BY <1>1, <1>2, <1>3, <1>4, <1>5, <1>6, <1>7, <1>8 DEF StringFields

\* A map that expandMap makes stands for the map it is given.
LEMMA ExpandedMapStands ==
    ASSUME Given, NEW m, IsMap(m), NEW out \in expandMap(m)
    PROVE  Stands(out, m)
  <1>1. \A k \in DOMAIN m : expandEnvVars(k) = Meaning(k) /\ expandEnvVars(m[k]) = Meaning(m[k])
    BY ExpandsToMeaning DEF IsMap
  <1>2. /\ DOMAIN out = {expandEnvVars(k) : k \in DOMAIN m}
        /\ \A key \in DOMAIN out : \E k \in DOMAIN m :
              expandEnvVars(k) = key /\ out[key] = expandEnvVars(m[k])
    BY DEF expandMap
  <1>3. {expandEnvVars(k) : k \in DOMAIN m} = {Meaning(k) : k \in DOMAIN m}
    BY <1>1
  <1> QED
    BY <1>1, <1>2, <1>3 DEF Stands

\* What expandConfig returns has the meaning of the file.
LEMMA ExpandedMeaning ==
    ASSUME Given, NEW c \in expandConfig
    PROVE  /\ \A f \in StringFields : c.texts[f] = Means(f)
           /\ \A f \in MapFields : Stands(c.maps[f], raw.maps[f])
  <1>1. /\ raw.texts \in [StringFields -> Texts]
        /\ \A f \in MapFields : IsMap(raw.maps[f])
    BY LoadAssumption DEF Given
  <1>2. /\ c.texts = ExpandedTexts
        /\ \A f \in MapFields : c.maps[f] \in ExpandedMap(f)
    BY DEF expandConfig
  <1>3. \A f \in StringFields : c.texts[f] = Means(f)
    BY <1>1, <1>2, VisitsEveryField, ExpandsToMeaning DEF ExpandedTexts, Means
  <1>4. \A f \in MapFields : Stands(c.maps[f], raw.maps[f])
    BY <1>1, <1>2, VisitsEveryField, ExpandedMapStands DEF ExpandedMap
  <1> QED
    BY <1>3, <1>4

-----------------------------------------------------------------------------
(* The arithmetic of durations: five limbs with carries, as TLC computes it,  *)
(* against numbers.                                                           *)

\* c are the carries of Mul: the function its definition names by recursion.
Carries(a, n, c) ==
    c = [i \in 0..5 |-> IF i = 0 THEN 0 ELSE (a[i] * n + c[i - 1]) \div Base]

\* There are such carries, whatever is multiplied.
LEMMA CarryExists ==
    ASSUME NEW a, NEW n
    PROVE  \E c : Carries(a, n, c)
  <1> DEFINE c0 == 0
             c1 == (a[1] * n + c0) \div Base
             c2 == (a[2] * n + c1) \div Base
             c3 == (a[3] * n + c2) \div Base
             c4 == (a[4] * n + c3) \div Base
             c5 == (a[5] * n + c4) \div Base
             c == [i \in 0..5 |-> IF i = 0 THEN c0 ELSE IF i = 1 THEN c1 ELSE IF i = 2 THEN c2
                                  ELSE IF i = 3 THEN c3 ELSE IF i = 4 THEN c4 ELSE c5]
  <1>1. /\ c[0] = c0 /\ c[1] = c1 /\ c[2] = c2 /\ c[3] = c3 /\ c[4] = c4 /\ c[5] = c5
    OBVIOUS
  <1> HIDE DEF c0, c1, c2, c3, c4, c5
  <1>2. ASSUME NEW i \in 0..5
        PROVE  c[i] = IF i = 0 THEN 0 ELSE (a[i] * n + c[i - 1]) \div Base
    <2>1. CASE i = 0
      BY <2>1, <1>1 DEF c0
    <2>2. CASE i = 1
      BY <2>2, <1>1 DEF c1
    <2>3. CASE i = 2
      BY <2>3, <1>1 DEF c2
    <2>4. CASE i = 3
      BY <2>4, <1>1 DEF c3
    <2>5. CASE i = 4
      BY <2>5, <1>1 DEF c4
    <2>6. CASE i = 5
      BY <2>6, <1>1 DEF c5
    <2> QED
      BY <2>1, <2>2, <2>3, <2>4, <2>5, <2>6
  <1>3. Carries(a, n, c)
    BY <1>2 DEF Carries
  <1> QED
    BY <1>3

\* So Mul is what its five steps make of them.
LEMMA MulIs ==
    ASSUME NEW a, NEW n
    PROVE  \E c : /\ Carries(a, n, c)
                  /\ Mul(a, n) = [i \in 1..5 |-> (a[i] * n + c[i - 1]) % Base]
  <1>1. PICK c : c = CHOOSE d : Carries(a, n, d)
    OBVIOUS
  <1>2. Carries(a, n, c)
    BY <1>1, CarryExists
  <1>3. Mul(a, n) = [i \in 1..5 |-> (a[i] * n + (CHOOSE d : Carries(a, n, d))[i - 1]) % Base]
    BY DEF Mul, Carries
  <1> QED
    BY <1>1, <1>2, <1>3

\* The values of a limb.
Digit == 0..2047

\* A limb below a number.
Cons(x, y) == x + Base * y

\* The number that five limbs stand for.
Value(a) == Cons(a[1], Cons(a[2], Cons(a[3], Cons(a[4], a[5]))))

\* 2^55.
Width == Base * (Base * (Base * (Base * Base)))

\* One step of Mul: x * n and the carry c give the digit r and the carry d.
DigitOf(x, n, c, d, r) == x * n + c = Base * d + r

\* y * n and the carry c are z, but for a multiple of the width.
Product(y, n, c, z, q) == y * n + c = z + q

\* A limb is a number.
LEMMA DigitFacts == 0..(Base - 1) = Digit /\ \A x \in Digit : x \in Int
  BY DEF Base, Digit

\* Quotient and remainder of one step.
LEMMA Divides ==
    ASSUME NEW x \in Int
    PROVE  /\ x \div Base \in Int /\ x % Base \in Digit /\ x % Base \in Int
           /\ x = Base * (x \div Base) + (x % Base)
  <1>1. x \div 2048 \in Int
    OBVIOUS
  <1>2. x % 2048 \in Int /\ 0 <= x % 2048 /\ x % 2048 < 2048
    OBVIOUS
  <1>3. x = 2048 * (x \div 2048) + (x % 2048)
    OBVIOUS
  <1> QED
    BY <1>1, <1>2, <1>3 DEF Base, Digit

\* A number is five limbs.
LEMMA NumberIs == Number = [1..5 -> Digit]
  BY DigitFacts, Zenon DEF Number

\* The five limbs of a number.
LEMMA Limbs ==
    ASSUME NEW a \in Number
    PROVE  /\ a[1] \in Digit /\ a[2] \in Digit /\ a[3] \in Digit
           /\ a[4] \in Digit /\ a[5] \in Digit
           /\ a[1] \in Int /\ a[2] \in Int /\ a[3] \in Int /\ a[4] \in Int /\ a[5] \in Int
  <1>1. a \in [1..5 -> Digit]
    BY DigitFacts DEF Number
  <1>2. /\ a[1] \in Digit /\ a[2] \in Digit /\ a[3] \in Digit
        /\ a[4] \in Digit /\ a[5] \in Digit
    BY <1>1
  <1> QED
    BY <1>2, DigitFacts

\* A limb below a number gives a number.
LEMMA ConsInt == \A x, y \in Int : Cons(x, y) \in Int
  BY DEF Cons, Base

\* The value of a number is one.
LEMMA ValueInt == ASSUME NEW a \in Number PROVE Value(a) \in Int
  BY Limbs, ConsInt DEF Value

\* A product, and one more limb below it.
LEMMA NextDigit ==
    ASSUME NEW x \in Int, NEW y \in Int, NEW n \in Int, NEW c \in Int, NEW d \in Int,
           NEW r \in Int, NEW z \in Int, NEW q \in Int,
           DigitOf(x, n, c, d, r), Product(y, n, d, z, q)
    PROVE  Product(Cons(x, y), n, c, Cons(r, z), Base * q)
  <1>1. (x + Base * y) * n = x * n + Base * (y * n)
    BY DEF Base
  <1>2. PICK s \in Int, t \in Int : s = x * n /\ t = y * n
    OBVIOUS
  <1>3. s + c = Base * d + r /\ t + d = z + q
    BY <1>2 DEF DigitOf, Product
  <1>4. s + Base * t + c = (r + Base * z) + Base * q
    BY <1>3 DEF Base
  <1> QED
    BY <1>1, <1>2, <1>4 DEF Cons, Product

\* Mul multiplies modulo 2^55, for factors of either sign.
LEMMA MulValue ==
    ASSUME NEW a \in Number, NEW n \in Int
    PROVE  /\ Mul(a, n) \in Number
           /\ \E k \in Int : Value(a) * n = Value(Mul(a, n)) + Width * k
  <1>1. PICK c : /\ Carries(a, n, c)
                 /\ Mul(a, n) = [i \in 1..5 |-> (a[i] * n + c[i - 1]) % Base]
    BY MulIs
  <1>2. a[1] \in Int /\ a[2] \in Int /\ a[3] \in Int /\ a[4] \in Int /\ a[5] \in Int
    BY Limbs
  <1>3. c[0] = 0 /\ \A i \in 1..5 : c[i] = (a[i] * n + c[i - 1]) \div Base
    BY <1>1 DEF Carries
  <1>4. PICK r : r = Mul(a, n)
    OBVIOUS
  <1>5. ASSUME NEW i \in 1..5, a[i] \in Int, c[i - 1] \in Int
        PROVE  c[i] \in Int /\ r[i] \in Digit /\ DigitOf(a[i], n, c[i - 1], c[i], r[i])
    <2>1. PICK x \in Int : x = a[i] * n + c[i - 1]
      BY <1>5
    <2>2. r[i] = x % Base /\ c[i] = x \div Base
      BY <1>1, <1>3, <1>4, <2>1
    <2>3. /\ x \div Base \in Int /\ x % Base \in Digit /\ x % Base \in Int
          /\ x = Base * (x \div Base) + (x % Base)
      BY Divides
    <2>4. c[i] \in Int /\ r[i] \in Digit
      BY <2>2, <2>3
    <2>5. a[i] * n + c[i - 1] = Base * c[i] + r[i]
      BY <2>1, <2>2, <2>3
    <2> QED
      BY <2>4, <2>5 DEF DigitOf
  <1>6. c[1] \in Int /\ r[1] \in Digit /\ DigitOf(a[1], n, 0, c[1], r[1])
    BY <1>2, <1>3, <1>5
  <1>7. c[2] \in Int /\ r[2] \in Digit /\ DigitOf(a[2], n, c[1], c[2], r[2])
    BY <1>2, <1>5, <1>6
  <1>8. c[3] \in Int /\ r[3] \in Digit /\ DigitOf(a[3], n, c[2], c[3], r[3])
    BY <1>2, <1>5, <1>7
  <1>9. c[4] \in Int /\ r[4] \in Digit /\ DigitOf(a[4], n, c[3], c[4], r[4])
    BY <1>2, <1>5, <1>8
  <1>10. c[5] \in Int /\ r[5] \in Digit /\ DigitOf(a[5], n, c[4], c[5], r[5])
    BY <1>2, <1>5, <1>9
  <1>11. r \in Number
    <2>1. r = [i \in 1..5 |-> r[i]]
      BY <1>1, <1>4
    <2>2. \A i \in 1..5 : r[i] \in Digit
      BY <1>6, <1>7, <1>8, <1>9, <1>10
    <2> QED
      BY <2>1, <2>2, DigitFacts DEF Number
  <1>12. r[1] \in Int /\ r[2] \in Int /\ r[3] \in Int /\ r[4] \in Int /\ r[5] \in Int
    BY <1>11, Limbs
  <1>13. PICK q4, q3, q2, q1, q0 \in Int :
            /\ q4 = Base * c[5] /\ q3 = Base * q4 /\ q2 = Base * q3
            /\ q1 = Base * q2 /\ q0 = Base * q1
    BY <1>10 DEF Base
  <1>14. Product(a[5], n, c[4], r[5], q4)
    BY <1>2, <1>9, <1>10, <1>12, <1>13 DEF DigitOf, Product, Base
  <1> DEFINE A4 == Cons(a[4], a[5])
             A3 == Cons(a[3], A4)
             A2 == Cons(a[2], A3)
             R4 == Cons(r[4], r[5])
             R3 == Cons(r[3], R4)
             R2 == Cons(r[2], R3)
  <1>15. A4 \in Int /\ A3 \in Int /\ A2 \in Int /\ R4 \in Int /\ R3 \in Int /\ R2 \in Int
    BY <1>2, <1>12, ConsInt
  <1>16. Product(A4, n, c[3], R4, q3)
    BY <1>2, <1>8, <1>9, <1>12, <1>13, <1>14, <1>15, NextDigit
  <1>17. Product(A3, n, c[2], R3, q2)
    BY <1>2, <1>7, <1>8, <1>12, <1>13, <1>15, <1>16, NextDigit
  <1>18. Product(A2, n, c[1], R2, q1)
    BY <1>2, <1>6, <1>7, <1>12, <1>13, <1>15, <1>17, NextDigit
  <1>19. Product(Cons(a[1], A2), n, 0, Cons(r[1], R2), q0)
    BY <1>2, <1>6, <1>12, <1>13, <1>15, <1>18, NextDigit
  <1>20. Value(a) = Cons(a[1], A2) /\ Value(r) = Cons(r[1], R2)
    BY DEF Value
  <1>21. Value(a) \in Int /\ Value(r) \in Int
    BY <1>11, ValueInt
  <1>22. q0 = Width * c[5]
    BY <1>10, <1>13 DEF Width, Base
  <1> QED
    BY <1>4, <1>10, <1>11, <1>19, <1>20, <1>21, <1>22 DEF Product

\* Numbers are compared by their highest limbs first.
LEMMA Digits ==
    ASSUME NEW x \in Digit, NEW y \in Digit, NEW u \in Int, NEW v \in Int
    PROVE  /\ Cons(x, u) < Cons(y, v) <=> u < v \/ (u = v /\ x < y)
           /\ Cons(x, u) = Cons(y, v) <=> u = v /\ x = y
  BY DEF Cons, Base, Digit

\* Less compares values.
LEMMA LessIsLess ==
    ASSUME NEW a \in Number, NEW b \in Number
    PROVE  Less(a, b) <=> Value(a) < Value(b)
  <1>2. Less(a, b) <=>
          \/ a[5] < b[5]
          \/ a[4] < b[4] /\ a[5] = b[5]
          \/ a[3] < b[3] /\ a[4] = b[4] /\ a[5] = b[5]
          \/ a[2] < b[2] /\ a[3] = b[3] /\ a[4] = b[4] /\ a[5] = b[5]
          \/ a[1] < b[1] /\ a[2] = b[2] /\ a[3] = b[3] /\ a[4] = b[4] /\ a[5] = b[5]
    <2>1. \A i \in 1..5 : i = 1 \/ i = 2 \/ i = 3 \/ i = 4 \/ i = 5
      OBVIOUS
    <2>2. /\ \A j \in 6..5 : FALSE
          /\ \A j : j \in 5..5 <=> j = 5
          /\ \A j : j \in 4..5 <=> j = 4 \/ j = 5
          /\ \A j : j \in 3..5 <=> j = 3 \/ j = 4 \/ j = 5
          /\ \A j : j \in 2..5 <=> j = 2 \/ j = 3 \/ j = 4 \/ j = 5
      OBVIOUS
    <2>3. 1 + 1 = 2 /\ 2 + 1 = 3 /\ 3 + 1 = 4 /\ 4 + 1 = 5 /\ 5 + 1 = 6
      OBVIOUS
    <2> QED
      BY <2>1, <2>2, <2>3 DEF Less
  <1> DEFINE a4 == Cons(a[4], a[5])
             a3 == Cons(a[3], a4)
             a2 == Cons(a[2], a3)
             b4 == Cons(b[4], b[5])
             b3 == Cons(b[3], b4)
             b2 == Cons(b[2], b3)
  <1>3. a4 \in Int /\ a3 \in Int /\ a2 \in Int /\ b4 \in Int /\ b3 \in Int /\ b2 \in Int
    BY Limbs, ConsInt
  <1>4. /\ a4 < b4 <=> a[5] < b[5] \/ (a[5] = b[5] /\ a[4] < b[4])
        /\ a4 = b4 <=> a[5] = b[5] /\ a[4] = b[4]
    BY <1>3, Limbs, Digits
  <1>5. /\ a3 < b3 <=> a4 < b4 \/ (a4 = b4 /\ a[3] < b[3])
        /\ a3 = b3 <=> a4 = b4 /\ a[3] = b[3]
    BY <1>3, Limbs, Digits
  <1>6. /\ a2 < b2 <=> a3 < b3 \/ (a3 = b3 /\ a[2] < b[2])
        /\ a2 = b2 <=> a3 = b3 /\ a[2] = b[2]
    BY <1>3, Limbs, Digits
  <1>7. Cons(a[1], a2) < Cons(b[1], b2) <=> a2 < b2 \/ (a2 = b2 /\ a[1] < b[1])
    BY <1>3, Limbs, Digits
  <1>8. Value(a) = Cons(a[1], a2) /\ Value(b) = Cons(b[1], b2)
    BY DEF Value
  <1> QED
    BY <1>2, <1>4, <1>5, <1>6, <1>7, <1>8

\* A number of that value with the highest digit x lies below the width, and is
\* in its upper half when the digit is.
Reads(v, x) == v \in Int /\ 0 <= v /\ v < Width /\ (x >= 1024 <=> 2 * v >= Width)

\* Five digits, read as a number.
LEMMA FiveDigits ==
    ASSUME NEW x1 \in Digit, NEW x2 \in Digit, NEW x3 \in Digit, NEW x4 \in Digit,
           NEW x5 \in Digit
    PROVE  Reads(Cons(x1, Cons(x2, Cons(x3, Cons(x4, x5)))), x5)
  BY DEF Cons, Base, Digit, Width, Reads

\* A number lies below the width; it is negative in the upper half.
LEMMA ValueBounds ==
    ASSUME NEW a \in Number
    PROVE  /\ Value(a) \in Int /\ 0 <= Value(a) /\ Value(a) < Width
           /\ Negative(a) <=> 2 * Value(a) >= Width
  <1>1. Negative(a) <=> a[5] >= 1024
    BY DEF Negative, Base
  <1>2. Reads(Value(a), a[5])
    BY Limbs, FiveDigits DEF Value
  <1> QED
    BY <1>1, <1>2 DEF Reads

\* A product that lies below the width does not wrap.
LEMMA MulExact ==
    ASSUME NEW a \in Number, NEW n \in Int, NEW w \in Int, w = Value(a) * n, 0 <= w, w < Width
    PROVE  Mul(a, n) \in Number /\ Value(Mul(a, n)) = w
  <1>1. PICK k \in Int : w = Value(Mul(a, n)) + Width * k
    BY MulValue
  <1>2. Mul(a, n) \in Number
    BY MulValue
  <1>3. PICK v \in Int : v = Value(Mul(a, n)) /\ 0 <= v /\ v < Width
    BY <1>2, ValueBounds
  <1>4. v = w
    BY <1>1, <1>3 DEF Width, Base
  <1> QED
    BY <1>2, <1>3, <1>4

\* A product that is a little below zero wraps once.
LEMMA MulWraps ==
    ASSUME NEW a \in Number, NEW n \in Int, NEW w \in Int, w = Value(a) * n, w < 0, 0 < w + Width
    PROVE  Mul(a, n) \in Number /\ Value(Mul(a, n)) = w + Width
  <1>1. PICK k \in Int : w = Value(Mul(a, n)) + Width * k
    BY MulValue
  <1>2. Mul(a, n) \in Number
    BY MulValue
  <1>3. PICK v \in Int : v = Value(Mul(a, n)) /\ 0 <= v /\ v < Width
    BY <1>2, ValueBounds
  <1>4. v = w + Width
    BY <1>1, <1>3 DEF Width, Base
  <1> QED
    BY <1>2, <1>3, <1>4

\* A second, in units of 2^9 ns.
Unit == 1953125

\* A day, in units of 2^9 ns.
DayUnits == 86400 * Unit

\* What a number of seconds is worth.
LEMMA SecondsValue ==
    ASSUME NEW n \in Int, 0 <= n, n <= 86400
    PROVE  Seconds(n) \in Number /\ Value(Seconds(n)) = Unit * n
  <1>1. Second \in Number
    <2>1. Second \in [1..5 -> Digit]
      BY SMT DEF Second, Digit
    <2> QED
      BY <2>1, NumberIs
  <1>2. Value(Second) = Unit
    BY SMT DEF Second, Value, Cons, Base, Unit
  <1>3. 0 <= Unit * n /\ Unit * n < Width /\ Unit * n \in Int
    BY SMT DEF Unit, Width, Base
  <1> QED
    BY <1>1, <1>2, <1>3, MulExact DEF Seconds

\* A product with a number on either side of zero: it is negative when the number is,
\* and has its value when it is not.
LEMMA MulSigned ==
    ASSUME NEW a \in Number, NEW n \in Int, NEW z \in Int, z = Value(a) * n,
           n < 0 <=> z < 0, 2 * z < Width, -Width <= 2 * z
    PROVE  /\ Mul(a, n) \in Number
           /\ Negative(Mul(a, n)) <=> n < 0
           /\ n >= 0 => Value(Mul(a, n)) = z
  <1>1. CASE n >= 0
    <2>1. 0 <= z /\ z < Width
      BY <1>1, SMT DEF Width, Base
    <2>2. Mul(a, n) \in Number /\ Value(Mul(a, n)) = z
      BY <2>1, MulExact
    <2>3. Negative(Mul(a, n)) <=> 2 * Value(Mul(a, n)) >= Width
      BY <2>2, ValueBounds
    <2>4. ~(2 * z >= Width)
      BY SMT DEF Width, Base
    <2> QED
      BY <1>1, <2>2, <2>3, <2>4
  <1>2. CASE n < 0
    <2>1. z < 0 /\ 0 < z + Width /\ 2 * (z + Width) >= Width
      BY <1>2, SMT DEF Width, Base
    <2>2. Mul(a, n) \in Number /\ Value(Mul(a, n)) = z + Width
      BY <2>1, MulWraps
    <2>3. Negative(Mul(a, n))
      BY <2>1, <2>2, ValueBounds
    <2> QED
      BY <1>2, <2>2, <2>3
  <1> QED
    BY <1>1, <1>2

\* The sizes of the units.
LEMMA SizeValue ==
    ASSUME NEW u \in Units
    PROVE  /\ Size[u] \in Number /\ Value(Size[u]) = Unit * SecondsPer[u]
           /\ SecondsPer[u] \in Int /\ SecondsPer[u] > 0
  <1>1. CASE u = "d"
    <2>1. PICK h : h = Seconds(3600)
      OBVIOUS
    <2>2. h \in Number /\ Value(h) = Unit * 3600
      BY <2>1, SecondsValue, SMT
    <2>3. PICK w \in Int : w = Unit * 3600 * 24
      BY DEF Unit
    <2>4. 0 <= w /\ w < Width /\ w = Unit * 86400
      BY <2>3, SMT DEF Unit, Width, Base
    <2>5. Mul(h, 24) \in Number /\ Value(Mul(h, 24)) = w
      BY <2>2, <2>3, <2>4, MulExact, SMT
    <2>6. Size[u] = Mul(h, 24) /\ SecondsPer[u] = 86400
      BY <1>1, <2>1, SMT DEF Size, SecondsPer
    <2> QED
      BY <2>4, <2>5, <2>6, SMT
  <1>2. CASE u = "h"
    <2>1. Seconds(3600) \in Number /\ Value(Seconds(3600)) = Unit * 3600
      BY SecondsValue, SMT
    <2>2. Size[u] = Seconds(3600) /\ SecondsPer[u] = 3600
      BY <1>2, SMT DEF Size, SecondsPer
    <2> QED
      BY <2>1, <2>2, SMT
  <1>3. CASE u = "m"
    <2>1. Seconds(60) \in Number /\ Value(Seconds(60)) = Unit * 60
      BY SecondsValue, SMT
    <2>2. Size[u] = Seconds(60) /\ SecondsPer[u] = 60
      BY <1>3, SMT DEF Size, SecondsPer
    <2> QED
      BY <2>1, <2>2, SMT
  <1>4. CASE u = "s"
    <2>1. Seconds(1) \in Number /\ Value(Seconds(1)) = Unit * 1
      BY SecondsValue, SMT
    <2>2. Size[u] = Seconds(1) /\ SecondsPer[u] = 1
      BY <1>4, SMT DEF Size, SecondsPer
    <2> QED
      BY <2>1, <2>2, SMT
  <1> QED
    BY <1>1, <1>2, <1>3, <1>4, SMT DEF Units

\* A count of a unit, as it is written.
Counted == Units \X (-MaxCount..MaxCount)

\* Its unit and its number.
LEMMA CountedParts ==
    ASSUME NEW w \in Counted
    PROVE  w[1] \in Units /\ w[2] \in Int /\ -1000000 <= w[2] /\ w[2] <= 1000000
  <1>1. w[1] \in Units /\ w[2] \in -MaxCount..MaxCount
    BY DEF Counted
  <1>2. MaxCount \in Int
    BY SMT DEF MaxCount
  <1>3. w[2] \in Int /\ -MaxCount <= w[2] /\ w[2] <= MaxCount
    BY <1>1, <1>2, SMT
  <1>4. -1000000 <= w[2] /\ w[2] <= 1000000
    BY <1>3, SMT DEF MaxCount
  <1> QED
    BY <1>1, <1>3, <1>4, SMT

\* The seconds of a count.
LEMMA SecondsAre ==
    ASSUME NEW w \in Counted
    PROVE  SecondsOf(w) \in Int /\ SecondsOf(w) = SecondsPer[w[1]] * w[2]
  <1>1. w[1] \in Units /\ w[2] \in Int
    BY CountedParts, SMT
  <1>2. SecondsOf(w) = SecondsPer[w[1]] * w[2]
    BY <1>1, SMT DEF SecondsOf, SecondsPer, Units
  <1>3. SecondsPer[w[1]] \in Int
    BY <1>1, SizeValue, SMT
  <1> QED
    BY <1>1, <1>2, <1>3, SMT

\* What ParseDuration returns, for what fits.
LEMMA ParsedValue ==
    ASSUME NEW w \in Counted, Fits(w)
    PROVE  /\ ParseDuration(w) \in Number
           /\ Negative(ParseDuration(w)) <=> w[2] < 0
           /\ w[2] >= 0 => Value(ParseDuration(w)) = Unit * SecondsOf(w)
  <1>1. PICK u \in Units : u = w[1]
    BY CountedParts, SMT
  <1>2. PICK n \in Int : n = w[2] /\ -1000000 <= n /\ n <= 1000000
    BY CountedParts, SMT
  <1>3. u = "d" => -106751 <= n /\ n <= 106751
    <2>1. -MaxFit..MaxFit \subseteq {i \in Int : -106751 <= i /\ i <= 106751}
      BY SMT DEF MaxFit
    <2> QED
      BY <1>1, <1>2, <2>1, SMT DEF Fits
  <1>4. PICK z \in Int : z = Unit * SecondsPer[u] * n
    BY <1>2, SizeValue, SMT DEF Unit
  <1>5. /\ n < 0 <=> z < 0
        /\ 2 * z < Width /\ -Width <= 2 * z
    <2>1. CASE u = "d"
      BY <1>2, <1>3, <1>4, <2>1, SMTT(60) DEF SecondsPer, Unit, Width, Base
    <2>2. CASE u = "h"
      BY <1>2, <1>4, <2>2, SMTT(60) DEF SecondsPer, Unit, Width, Base
    <2>3. CASE u = "m"
      BY <1>2, <1>4, <2>3, SMTT(60) DEF SecondsPer, Unit, Width, Base
    <2>4. CASE u = "s"
      BY <1>2, <1>4, <2>4, SMTT(60) DEF SecondsPer, Unit, Width, Base
    <2> QED
      BY <2>1, <2>2, <2>3, <2>4, SMT DEF Units
  <1>6. Size[u] \in Number /\ z = Value(Size[u]) * n
    BY <1>4, SizeValue, SMT
  <1>7. /\ Mul(Size[u], n) \in Number
        /\ Negative(Mul(Size[u], n)) <=> n < 0
        /\ n >= 0 => Value(Mul(Size[u], n)) = z
    BY <1>2, <1>5, <1>6, MulSigned, SMT
  <1>8. ParseDuration(w) = Mul(Size[u], n)
    BY <1>1, <1>2, SMT DEF ParseDuration
  <1>9. z = Unit * SecondsOf(w)
    <2>1. PICK p \in Int : p = SecondsPer[u]
      BY SizeValue, SMT
    <2>2. SecondsOf(w) = p * n
      BY <1>1, <1>2, <2>1, SecondsAre, SMT
    <2>3. Unit * p * n = Unit * (p * n)
      BY <1>2, <2>1, SMT DEF Unit
    <2> QED
      BY <1>4, <2>1, <2>2, <2>3, SMT
  <1> QED
    BY <1>2, <1>7, <1>8, <1>9, SMT

\* A limit of x seconds.
IsLimit(t, x) == t \in Number /\ Value(t) = Unit * x

\* The limits are what they are written as.
LEMMA LimitsAre ==
    /\ IsLimit(Seconds(0), 0) /\ IsLimit(Seconds(10), 10) /\ IsLimit(Seconds(600), 600)
    /\ IsLimit(Seconds(86400), 86400) /\ IsLimit(Mul(Seconds(86400), 31), 2678400)
    /\ IsLimit(Mul(Seconds(86400), 365), 31536000)
  <1>1. Seconds(0) \in Number /\ Value(Seconds(0)) = Unit * 0
    BY SecondsValue, SMT
  <1>2. Seconds(10) \in Number /\ Value(Seconds(10)) = Unit * 10
    BY SecondsValue, SMT
  <1>3. Seconds(600) \in Number /\ Value(Seconds(600)) = Unit * 600
    BY SecondsValue, SMT
  <1>4. Seconds(86400) \in Number /\ Value(Seconds(86400)) = Unit * 86400
    <2>1. PICK s \in Int : s = 86400 /\ 0 <= s /\ s <= 86400
      BY SMT
    <2> QED
      BY <2>1, SecondsValue, SMT
  <1>5. PICK y \in Int : y = Unit * 86400 * 31
    BY DEF Unit
  <1>6. PICK z \in Int : z = Unit * 86400 * 365
    BY DEF Unit
  <1>7. 0 <= y /\ y < Width /\ y = Unit * 2678400 /\ 0 <= z /\ z < Width /\ z = Unit * 31536000
    BY <1>5, <1>6, SMT DEF Unit, Width, Base
  <1>8. Mul(Seconds(86400), 31) \in Number /\ Value(Mul(Seconds(86400), 31)) = y
    BY <1>4, <1>5, <1>7, MulExact, SMT
  <1>9. Mul(Seconds(86400), 365) \in Number /\ Value(Mul(Seconds(86400), 365)) = z
    BY <1>4, <1>6, <1>7, MulExact, SMT
  <1> QED
    BY <1>1, <1>2, <1>3, <1>4, <1>7, <1>8, <1>9, SMT DEF IsLimit

\* Within x and y seconds.
Between(w, x, y) == w[2] >= 0 /\ x <= SecondsOf(w) /\ SecondsOf(w) <= y

\* validateDurationRange compares seconds.
LEMMA RangeIsBetween ==
    ASSUME NEW w \in Counted, Fits(w), NEW lo, NEW hi, NEW x \in Int, NEW y \in Int,
           IsLimit(lo, x), IsLimit(hi, y)
    PROVE  validateDurationRange(ParseDuration(w), lo, hi) <=> Between(w, x, y)
  <1>1. PICK n \in Int, v \in Int : n = w[2] /\ v = SecondsOf(w)
    BY CountedParts, SecondsAre
  <1>2. PICK t \in Number : /\ t = ParseDuration(w) /\ (Negative(t) <=> n < 0)
                            /\ n >= 0 => Value(t) = Unit * v
    BY <1>1, ParsedValue
  <1>3. validateDurationRange(t, lo, hi) <=> ~Negative(t) /\ ~Less(t, lo) /\ ~Less(hi, t)
    BY DEF validateDurationRange
  <1>4. Less(t, lo) <=> Value(t) < Unit * x
    BY LessIsLess DEF IsLimit
  <1>5. Less(hi, t) <=> Unit * y < Value(t)
    BY LessIsLess DEF IsLimit
  <1>6. CASE n >= 0
    <2>1. Unit * v < Unit * x <=> v < x
      BY SMT DEF Unit
    <2>2. Unit * y < Unit * v <=> y < v
      BY SMT DEF Unit
    <2>3. ~Negative(t) /\ Value(t) = Unit * v
      BY <1>2, <1>6
    <2>4. validateDurationRange(t, lo, hi) <=> ~(v < x) /\ ~(y < v)
      BY <1>3, <1>4, <1>5, <2>1, <2>2, <2>3
    <2> QED
      BY <1>1, <1>2, <1>6, <2>4 DEF Between
  <1>7. CASE n < 0
    BY <1>1, <1>2, <1>3, <1>7 DEF Between
  <1> QED
    BY <1>6, <1>7

\* Which numbers of a unit lie between the limits of each field.
LEMMA CountsBetween ==
    ASSUME NEW w \in Counted
    PROVE  /\ Between(w, 600, 2678400) <=> Within(w, RetentionRange)
           /\ Between(w, 86400, 31536000) <=> Within(w, ExpirationRange)
           /\ Between(w, 10, 600) <=> Within(w, AckRange)
           /\ Between(w, 0, 600) <=> Within(w, BackoffRange)
  <1>1. PICK n \in Int, u \in Units : n = w[2] /\ u = w[1]
    BY CountedParts
  <1>2. u = "d" \/ u = "h" \/ u = "m" \/ u = "s"
    BY DEF Units
  <1>3. Between(w, 600, 2678400) <=> Within(w, RetentionRange)
    BY <1>1, <1>2, SMT DEF Between, SecondsOf, SecondsPer, Within, RetentionRange
  <1>4. Between(w, 86400, 31536000) <=> Within(w, ExpirationRange)
    BY <1>1, <1>2, SMT DEF Between, SecondsOf, SecondsPer, Within, ExpirationRange
  <1>5. Between(w, 10, 600) <=> Within(w, AckRange)
    BY <1>1, <1>2, SMT DEF Between, SecondsOf, SecondsPer, Within, AckRange
  <1>6. Between(w, 0, 600) <=> Within(w, BackoffRange)
    BY <1>1, <1>2, SMT DEF Between, SecondsOf, SecondsPer, Within, BackoffRange
  <1> QED
    BY <1>3, <1>4, <1>5, <1>6, SMT

\* So validateDurationRange accepts what it should, in every field.
LEMMA RangesAreRight ==
    ASSUME NEW w \in Counted, Fits(w), NEW f \in DOMAIN RangeOf
    PROVE  /\ f \in DOMAIN Limits
           /\ validateDurationRange(ParseDuration(w), Limits[f].lo, Limits[f].hi)
                 <=> Within(w, RangeOf[f])
  <1>1. CASE f = "message_retention"
    <2>1. /\ f \in DOMAIN Limits
          /\ Limits[f].lo = Seconds(600) /\ Limits[f].hi = Mul(Seconds(86400), 31)
      BY <1>1, SMT DEF Limits
    <2>2. Between(w, 600, 2678400) <=> Within(w, RangeOf[f])
      BY <1>1, CountsBetween, SMT DEF RangeOf
    <2> QED
      BY <2>1, <2>2, LimitsAre, RangeIsBetween, SMT
  <1>2. CASE f = "expiration_ttl"
    <2>1. /\ f \in DOMAIN Limits
          /\ Limits[f].lo = Seconds(86400) /\ Limits[f].hi = Mul(Seconds(86400), 365)
      BY <1>2, SMT DEF Limits
    <2>2. Between(w, 86400, 31536000) <=> Within(w, RangeOf[f])
      BY <1>2, CountsBetween, SMT DEF RangeOf
    <2> QED
      BY <2>1, <2>2, LimitsAre, RangeIsBetween, SMT
  <1>3. CASE f = "ack_deadline"
    <2>1. /\ f \in DOMAIN Limits
          /\ Limits[f].lo = Seconds(10) /\ Limits[f].hi = Seconds(600)
      BY <1>3, SMT DEF Limits
    <2>2. Between(w, 10, 600) <=> Within(w, RangeOf[f])
      BY <1>3, CountsBetween, SMT DEF RangeOf
    <2> QED
      BY <2>1, <2>2, LimitsAre, RangeIsBetween, SMT
  <1>4. CASE f \in {"minimum_backoff", "maximum_backoff"}
    <2>1. /\ f \in DOMAIN Limits
          /\ Limits[f].lo = Seconds(0) /\ Limits[f].hi = Seconds(600)
      BY <1>4, SMT DEF Limits
    <2>2. Between(w, 0, 600) <=> Within(w, RangeOf[f])
      BY <1>4, CountsBetween, SMT DEF RangeOf
    <2> QED
      BY <2>1, <2>2, LimitsAre, RangeIsBetween, SMT
  <1> QED
    BY <1>1, <1>2, <1>3, <1>4 DEF RangeOf

\* The durations of a file that fit.
AllFit == \A f \in DurationFields : \A w \in Written[Means(f)] : Fits(w)

\* What is written in a field of the file.
LEMMA WrittenCounted ==
    ASSUME Given, NEW f \in StringFields
    PROVE  Written[Means(f)] \in Opt(Counted)
  <1>1. raw.texts[f] \in Texts
    BY LoadAssumption DEF Given
  <1>2. Means(f) \in Texts
    <2>1. PICK t \in Texts : t = raw.texts[f]
      BY <1>1
    <2>2. Reference[t] \in Opt(Variables) /\ env \in [Variables -> Opt(Texts)]
      BY LoadAssumption DEF Given
    <2>3. CASE \E v \in Reference[t] : env[v] # {}
      <3>1. PICK v \in Reference[t] : env[v] # {}
        BY <2>3
      <3>2. v \in Variables /\ The(Reference[t]) = v
        BY <2>2, <3>1, TheOnly DEF Opt
      <3>3. The(env[v]) \in Texts
        BY <2>2, <3>1, <3>2, TheOnly
      <3> QED
        BY <2>1, <2>3, <3>2, <3>3, ExpandsToMeaning DEF Means, expandEnvVars
    <2>4. CASE ~\E v \in Reference[t] : env[v] # {}
      BY <2>1, <2>4, ExpandsToMeaning DEF Means, expandEnvVars
    <2> QED
      BY <2>3, <2>4
  <1> QED
    BY <1>2, LoadAssumption DEF Counted

\* validateDurations accepts what it should, in all fields.
LEMMA DurationsAreRight ==
    ASSUME Given, AllFit, NEW c, \A f \in StringFields : c.texts[f] = Means(f)
    PROVE  validateDurations(c) <=>
             \A f \in DurationFields : \E w \in Written[Means(f)] : Within(w, RangeOf[f[2]])
  <1>1. DOMAIN Limits = DOMAIN RangeOf
    BY DEF Limits, RangeOf
  <1>2. validateDurations(c) <=>
          \A f \in DurationFields : \E d \in Parsed(Means(f)) :
              validateDurationRange(d, Limits[f[2]].lo, Limits[f[2]].hi)
    BY <1>1 DEF validateDurations, DurationFields
  <1>3. ASSUME NEW f \in DurationFields
        PROVE  (\E d \in Parsed(Means(f)) :
                   validateDurationRange(d, Limits[f[2]].lo, Limits[f[2]].hi))
               <=> \E w \in Written[Means(f)] : Within(w, RangeOf[f[2]])
    <2>1. f \in StringFields /\ f[2] \in DOMAIN RangeOf
      BY DEF DurationFields
    <2>2. \A w \in Written[Means(f)] : w \in Counted /\ Fits(w)
      BY <2>1, WrittenCounted DEF Opt, AllFit
    <2>3. \A w \in Written[Means(f)] :
             validateDurationRange(ParseDuration(w), Limits[f[2]].lo, Limits[f[2]].hi)
                <=> Within(w, RangeOf[f[2]])
      BY <2>1, <2>2, RangesAreRight
    <2> QED
      BY <2>3 DEF Parsed
  <1> QED
    BY <1>2, <1>3

\* A duration within the range of a backoff compares as its seconds do.
LEMMA BackoffsCompare ==
    ASSUME NEW v \in Counted, NEW w \in Counted, Fits(v), Fits(w), v[2] >= 0, w[2] >= 0
    PROVE  /\ Less(ParseDuration(v), ParseDuration(w)) <=> SecondsOf(v) < SecondsOf(w)
           /\ Less(Seconds(0), ParseDuration(v)) <=> v[2] # 0
           /\ SecondsOf(v) >= 0 /\ (SecondsOf(v) = 0 <=> v[2] = 0)
  <1>1. PICK x \in Int, y \in Int, n \in Int :
           x = SecondsOf(v) /\ y = SecondsOf(w) /\ n = v[2] /\ n >= 0
    BY CountedParts, SecondsAre
  <1>2. PICK s \in Number, t \in Number :
           /\ s = ParseDuration(v) /\ t = ParseDuration(w)
           /\ Value(s) = Unit * x /\ Value(t) = Unit * y
    BY <1>1, ParsedValue
  <1>3. Less(s, t) <=> Unit * x < Unit * y
    BY <1>2, LessIsLess
  <1>4. Less(Seconds(0), s) <=> Unit * 0 < Unit * x
    BY <1>2, LessIsLess, LimitsAre DEF IsLimit
  <1>5. /\ Unit * x < Unit * y <=> x < y
        /\ Unit * 0 < Unit * x <=> 0 < x
    BY SMT DEF Unit
  <1>6. PICK p \in Int : p = SecondsPer[v[1]] /\ p > 0 /\ x = p * n
    BY <1>1, CountedParts, SizeValue, SecondsAre
  <1>7. x >= 0 /\ (x = 0 <=> n = 0)
    <2>1. p = 86400 \/ p = 3600 \/ p = 60 \/ p = 1
      BY <1>6, CountedParts DEF SecondsPer, Units
    <2> QED
      BY <1>1, <1>6, <2>1, SMT
  <1> QED
    BY <1>1, <1>2, <1>3, <1>4, <1>5, <1>7

\* validateRetry compares the bounds of the backoff, once they are in range.
LEMMA RetryIsRight ==
    ASSUME Given, AllFit, NEW c, \A f \in StringFields : c.texts[f] = Means(f),
           \A f \in DurationFields : \E w \in Written[Means(f)] : Within(w, RangeOf[f[2]])
    PROVE  validateRetry(c) <=>
             \A min \in Written[Means(<<"retry", "minimum_backoff">>)],
                max \in Written[Means(<<"retry", "maximum_backoff">>)] :
                max[2] # 0 => SecondsOf(min) <= SecondsOf(max)
  <1> DEFINE F == <<"retry", "minimum_backoff">>
             G == <<"retry", "maximum_backoff">>
  <1>1. F \in StringFields /\ G \in StringFields
    BY DEF StringFields
  <1>2. ASSUME NEW f \in {F, G}, NEW w \in Written[Means(f)]
        PROVE  w \in Counted /\ Fits(w) /\ w[2] >= 0
    <2>1. Means(f) # ""
      BY <1>2, LoadAssumption
    <2>2. f \in StringFields /\ f[2] \in {"minimum_backoff", "maximum_backoff"}
      BY <1>1, <1>2
    <2>3. f \in DurationFields
      BY <2>1, <2>2 DEF DurationFields, RangeOf
    <2>4. Written[Means(f)] \in Opt(Counted)
      BY <2>2, WrittenCounted
    <2>5. PICK v \in Written[Means(f)] : Within(v, RangeOf[f[2]])
      BY <2>3
    <2>6. v = w /\ w \in Counted
      BY <1>2, <2>4, <2>5 DEF Opt
    <2>7. RangeOf[f[2]] = BackoffRange
      BY <2>2 DEF RangeOf
    <2>8. w[1] \in Units
      BY <2>6, CountedParts
    <2>9. w[2] >= 0
      BY <2>5, <2>6, <2>7, <2>8 DEF Units, BackoffRange, Within
    <2> QED
      BY <1>2, <2>3, <2>6, <2>9 DEF AllFit
  <1>3. validateRetry(c) <=>
          \A min \in Written[Means(F)], max \in Written[Means(G)] :
             Less(Seconds(0), ParseDuration(min)) /\ Less(Seconds(0), ParseDuration(max))
                => ~Less(ParseDuration(max), ParseDuration(min))
    BY <1>1 DEF validateRetry, Parsed
  <1>4. ASSUME NEW min \in Written[Means(F)], NEW max \in Written[Means(G)]
        PROVE  (Less(Seconds(0), ParseDuration(min)) /\ Less(Seconds(0), ParseDuration(max))
                   => ~Less(ParseDuration(max), ParseDuration(min)))
               <=> (max[2] # 0 => SecondsOf(min) <= SecondsOf(max))
    <2>1. min \in Counted /\ Fits(min) /\ min[2] >= 0 /\ max \in Counted /\ Fits(max) /\ max[2] >= 0
      BY <1>2
    <2>2. PICK x \in Int, y \in Int : x = SecondsOf(min) /\ y = SecondsOf(max)
      BY <2>1, SecondsAre
    <2>3. /\ Less(ParseDuration(max), ParseDuration(min)) <=> y < x
          /\ Less(Seconds(0), ParseDuration(min)) <=> min[2] # 0
          /\ Less(Seconds(0), ParseDuration(max)) <=> max[2] # 0
          /\ x >= 0 /\ y >= 0 /\ (x = 0 <=> min[2] = 0)
      BY <2>1, <2>2, BackoffsCompare
    <2>4. (min[2] # 0 => ~(y < x)) <=> SecondsOf(min) <= SecondsOf(max)
      BY <2>2, <2>3
    <2> QED
      BY <2>3, <2>4
  <1> QED
    BY <1>3, <1>4

\* validate says of an expanded file what the file means.
LEMMA ValidIsAcceptable ==
    ASSUME Given, NEW c \in expandConfig, AllFit
    PROVE  validate(c) <=> Acceptable
  <1>1. \A f \in StringFields : c.texts[f] = Means(f)
    BY ExpandedMeaning
  <1>2. /\ <<"topic 1", "name">> \in StringFields /\ <<"topic 2", "name">> \in StringFields
        /\ <<"dead_letter", "topic">> \in StringFields
        /\ <<"subscription", "push_endpoint">> \in StringFields
    BY DEF StringFields
  <1>3. validateDurations(c) <=>
          \A f \in DurationFields : \E w \in Written[Means(f)] : Within(w, RangeOf[f[2]])
    BY <1>1, DurationsAreRight
  <1>4. CASE validateDurations(c)
    <2>1. validateRetry(c) <=>
             \A min \in Written[Means(<<"retry", "minimum_backoff">>)],
                max \in Written[Means(<<"retry", "maximum_backoff">>)] :
                max[2] # 0 => SecondsOf(min) <= SecondsOf(max)
      BY <1>1, <1>3, <1>4, RetryIsRight
    <2> QED
      BY <1>1, <1>2, <1>3, <1>4, <2>1 DEF validate, Acceptable
  <1>5. CASE ~validateDurations(c)
    BY <1>3, <1>5 DEF validate, Acceptable
  <1> QED
    BY <1>4, <1>5

-----------------------------------------------------------------------------
\* A load that has ended: its outcome and its config are those of one expansion.
Ended(l) ==
    \E c \in expandConfig :
        /\ outcome[l] = IF validate(c) THEN "ok" ELSE "error"
        /\ config[l] = IF validate(c) THEN {c} ELSE {}

\* The inductive invariant.
LoadInv ==
    /\ Given
    /\ outcome \in [Loads -> {"none", "ok", "error"}] /\ DOMAIN config = Loads
    /\ config = [l \in Loads |-> config[l]]
    /\ \A l \in Loads :
          IF outcome[l] = "none" THEN config[l] = {} ELSE Ended(l)

\* It holds before the first load.
LEMMA LoadInit == Init => LoadInv
  BY DEF Init, LoadInv, Given

\* A load ends with one expansion of the file and leaves the others alone.
LEMMA LoadStep == LoadInv /\ [Next]_vars => LoadInv'
  <1> SUFFICES ASSUME LoadInv, [Next]_vars PROVE LoadInv'
    OBVIOUS
  <1>1. raw' = raw /\ env' = env
    BY DEF Next, LoadFile, vars
  <1>2. expandConfig' = expandConfig
    BY <1>1 DEF expandConfig, ExpandedTexts, ExpandedMap, expandMap, expandEnvVars
  <1>3. Given'
    BY <1>1 DEF LoadInv, Given
  <1>4. CASE UNCHANGED vars
    BY <1>2, <1>3, <1>4 DEF LoadInv, Ended, vars
  <1>5. ASSUME NEW l \in Loads, LoadFile(l) PROVE LoadInv'
    <2>1. PICK c \in expandConfig :
             /\ outcome' = [outcome EXCEPT ![l] = IF validate(c) THEN "ok" ELSE "error"]
             /\ config' = [config EXCEPT ![l] = IF validate(c) THEN {c} ELSE {}]
      BY <1>5 DEF LoadFile
    <2>2. /\ outcome' \in [Loads -> {"none", "ok", "error"}] /\ DOMAIN config' = Loads
          /\ config' = [m \in Loads |-> config'[m]]
      BY <2>1 DEF LoadInv
    <2>3. /\ outcome'[l] = IF validate(c) THEN "ok" ELSE "error"
          /\ config'[l] = IF validate(c) THEN {c} ELSE {}
      BY <2>1 DEF LoadInv
    <2>4. Ended(l)' /\ outcome'[l] # "none"
      BY <1>2, <2>3 DEF Ended
    <2>5. ASSUME NEW m \in Loads, m # l
          PROVE  IF outcome'[m] = "none" THEN config'[m] = {} ELSE Ended(m)'
      <3>1. outcome'[m] = outcome[m] /\ config'[m] = config[m]
        BY <2>1, <2>5 DEF LoadInv
      <3> QED
        BY <1>2, <3>1 DEF LoadInv, Ended
    <2>6. \A m \in Loads : IF outcome'[m] = "none" THEN config'[m] = {} ELSE Ended(m)'
      BY <2>4, <2>5
    <2> QED
      BY <1>3, <2>2, <2>6 DEF LoadInv
  <1> QED
    BY <1>4, <1>5 DEF Next

-----------------------------------------------------------------------------
\* No text of a loaded config is left unexpanded or expanded twice, in any file
\* and environment: expandConfig reaches every field, and every key and value.
THEOREM EverythingExpanded == Spec => []NothingUnexpanded
  <1>1. LoadInv => NothingUnexpanded
    <2> SUFFICES ASSUME LoadInv, NEW l \in Loads, NEW c \in config[l]
                 PROVE  /\ \A f \in StringFields : c.texts[f] = Means(f)
                        /\ \A f \in MapFields : Stands(c.maps[f], raw.maps[f])
      BY DEF NothingUnexpanded
    <2>1. c \in expandConfig /\ Given
      BY DEF LoadInv, Ended
    <2> QED
      BY <2>1, ExpandedMeaning
  <1> QED
    BY <1>1, LoadInit, LoadStep, PTL DEF Spec

\* A file loads exactly when it is acceptable with its variables replaced, for
\* every file and environment whose durations fit into a time.Duration: what is
\* validated is what the file means, and the 64 bit arithmetic of ParseDuration,
\* validateDurationRange and validateRetry accepts exactly the durations in the
\* range of their field, with the bounds of a backoff in order.
THEOREM LoadsTheValid == Spec => []LoadsExactlyTheValid
  <1>1. LoadInv => LoadsExactlyTheValid
    <2> SUFFICES ASSUME LoadInv, AllFit, NEW l \in Loads, outcome[l] # "none"
                 PROVE  outcome[l] = "ok" <=> Acceptable
      BY DEF LoadsExactlyTheValid, AllFit
    <2>1. PICK c \in expandConfig : outcome[l] = IF validate(c) THEN "ok" ELSE "error"
      BY DEF LoadInv, Ended
    <2>2. validate(c) <=> Acceptable
      BY <2>1, ValidIsAcceptable DEF LoadInv
    <2> QED
      BY <2>1, <2>2
  <1> QED
    BY <1>1, LoadInit, LoadStep, PTL DEF Spec
=============================================================================
