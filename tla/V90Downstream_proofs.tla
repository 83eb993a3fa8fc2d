------------------------ MODULE V90Downstream_proofs ------------------------
(***************************************************************************)
(* Why the far end gets the frames that were given (FramesDecode).  In     *)
(* order: the value of a frame comes back from its digits; the sign bits   *)
(* come back from the differential coding; bit 0 of a part carries no      *)
(* data, so its sign gives the shaper's step away, and the step gives the  *)
(* other bits; what waits in the ring is not overwritten before it goes    *)
(* out; and the line is training of whole frames and then the frames of    *)
(* the mapper, of which the first Late symbols were discarded.             *)
(*                                                                         *)
(* The invariant says that there is a history of the call: the sign bits   *)
(* of every frame, the signs and states of every part as the shaper chose  *)
(* them, and every symbol.  It is not part of the state: a frame is        *)
(* signed Late symbols after it was given, and the mapper forgets it.      *)
(***************************************************************************)
EXTENDS V90Downstream, SequenceTheorems, FiniteSetTheorems, TLAPS

-----------------------------------------------------------------------------
(* Division with remainder, and numbers in a mixed radix: the magnitudes of a frame. *)

\* Integer division with remainder, as a rule for any two results of it.
LEMMA DivModOf ==
  ASSUME NEW b \in Int, NEW n \in Nat \ {0}
  PROVE \A q, r : q = b \div n /\ r = b % n =>  q \in Int /\ r \in 0 .. n - 1 /\ b = n * q + r
  OBVIOUS

\* Every integer is the quotient times the divisor plus the remainder.
LEMMA DivMod ==
  ASSUME NEW a \in Int, NEW m \in Nat \ {0}
  PROVE  \E q \in Int, r \in 0 .. m - 1 : a \div m = q /\ a % m = r /\ a = m * q + r
<1>1. \E q, r : q = a \div m /\ r = a % m
  OBVIOUS
<1> QED BY <1>1, DivModOf

\* Multiplication distributes over subtraction.
LEMMA Distr == ASSUME NEW a \in Int, NEW b \in Int, NEW c \in Int
  PROVE a * (b - c) = a * b - a * c /\ a * b \in Int /\ a * c \in Int
  OBVIOUS

\* A multiple of m that is not zero is at least m away from zero.
LEMMA Mul == ASSUME NEW m \in Nat \ {0}, NEW k \in Int
  PROVE m * k \in Int /\ (k >= 1 => m * k >= m) /\ (k <= -1 => m * k <= -m)
  OBVIOUS

\* A multiple of m that is closer to zero than m is zero.
LEMMA SmallProduct == \A m \in Nat \ {0} : \A k \in Int : m * k < m /\ -m < m * k => k = 0
  BY Mul

\* Quotient and remainder are the only ones.
LEMMA Unique ==
  ASSUME NEW m \in Nat \ {0}, NEW q \in Int, NEW r \in 0 .. m - 1, NEW a \in Int, a = m * q + r
  PROVE a % m = r /\ a \div m = q
<1>1. PICK u \in Int, s \in 0 .. m - 1 : a \div m = u /\ a % m = s /\ a = m * u + s
  BY DivMod
<1>2. m * (q - u) = s - r
  BY <1>1, Distr
<1>3. q - u = 0
  <2>1. q - u \in Int /\ m * (q - u) < m /\ -m < m * (q - u)
    BY <1>1, <1>2
  <2> QED BY <2>1, SmallProduct, Zenon
<1> QED BY <1>1, <1>3

\* Adding to a remainder and to the number is the same: ring indices may be reduced at any time.
LEMMA ModAdd == ASSUME NEW m \in Nat \ {0}, NEW a \in Int, NEW k \in Int
  PROVE ((a % m) + k) % m = (a + k) % m
<1>1. PICK q \in Int, r \in 0 .. m - 1 : (a + k) % m = r /\ a + k = m * q + r
  <2>1. \A b \in Int : \E q \in Int, r \in 0 .. m - 1 :
                            b \div m = q /\ b % m = r /\ b = m * q + r
    BY DivMod
  <2>2. a + k \in Int
    OBVIOUS
  <2> QED BY <2>1, <2>2, Zenon
<1>2. PICK s \in Int, t \in 0 .. m - 1 : a % m = t /\ a = m * s + t
  <2>1. \A b \in Int : \E q1 \in Int, r1 \in 0 .. m - 1 :
                            b \div m = q1 /\ b % m = r1 /\ b = m * q1 + r1
    BY DivMod
  <2> QED BY <2>1, Zenon
<1>3. t + k = m * (q - s) + r
  <2>1. m * (q - s) = m * q - m * s /\ m * q \in Int /\ m * s \in Int
    BY Distr
  <2> QED BY <1>1, <1>2, <2>1
<1>4. (t + k) % m = r
  <2>1. \A b \in Int : b = m * (q - s) + r => b % m = r
    BY Unique
  <2>2. t + k \in Int
    OBVIOUS
  <2> QED BY <1>3, <2>1, <2>2, Zenon
<1> QED BY <1>1, <1>2, <1>4

\* Two numbers less than m apart with the same remainder are equal.
LEMMA ModSame ==
  ASSUME NEW m \in Nat \ {0}, NEW a \in Int, NEW b \in Int, a % m = b % m, a - b < m, b - a < m
  PROVE a = b
<1>1. PICK u \in Int, r \in 0 .. m - 1 : a % m = r /\ a = m * u + r
  BY DivMod
<1>2. PICK q \in Int, s \in 0 .. m - 1 : b % m = s /\ b = m * q + s
  BY DivMod
<1>3. a - b = m * (u - q) /\ r = s
  BY <1>1, <1>2, Distr
<1>4. u - q = 0
  <2>1. u - q \in Int /\ m * (u - q) < m /\ -m < m * (u - q)
    BY <1>1, <1>2, <1>3
  <2> QED BY <2>1, SmallProduct, Zenon
<1>5. u = q
  BY <1>4
<1> QED BY <1>1, <1>2, <1>3, <1>4, <1>5
\* The same operations, to be looked into only where it is said.
Quot(a, b) == a \div b
Rem(a, b) == a % b
Times(a, b) == a * b

\* DivMod of these.
LEMMA QuotRem ==
  ASSUME NEW a \in Int, NEW m \in Nat \ {0}
  PROVE  \E q \in Int, r \in 0 .. m - 1 : Quot(a, m) = q /\ Rem(a, m) = r /\ a = m * q + r
  BY DivMod DEF Quot, Rem

\* Unique of these.
LEMMA QuotIs ==
  ASSUME NEW m \in Nat \ {0}, NEW q \in Int, NEW r \in 0 .. m - 1, NEW a \in Int, a = m * q + r
  PROVE  Quot(a, m) = q /\ Rem(a, m) = r
  BY Unique DEF Quot, Rem

\* Dividing by b and then by c is dividing by their product.
LEMMA QuotTwice ==
  ASSUME NEW a \in Nat, NEW b \in Nat \ {0}, NEW c \in Nat \ {0}, NEW m \in Nat \ {0}, m = b * c
  PROVE  /\ m \in Nat \ {0} /\ Quot(a, b) \in Nat
         /\ Quot(a, m) = Quot(Quot(a, b), c) /\ Quot(a, m) \in Nat
<1>0. a \in Int
  OBVIOUS
<1>1. PICK q \in Int, r \in 0 .. b - 1 : Quot(a, b) = q /\ Rem(a, b) = r /\ a = b * q + r
  BY <1>0, QuotRem
<1>2. q \in Nat
  BY <1>1, Mul
<1>3. PICK s \in Int, u \in 0 .. c - 1 : Quot(q, c) = s /\ Rem(q, c) = u /\ q = c * s + u
  BY QuotRem
<1>4. s \in Nat
  BY <1>2, <1>3, Mul
<1>5. m \in Nat \ {0}
  OBVIOUS
<1>6. a = m * s + (b * u + r)
  BY <1>1, <1>3
<1>7. b * u + r \in 0 .. m - 1
  <2>1. b * u <= b * (c - 1) /\ b * u \in Nat
    BY <1>3
  <2>2. b * (c - 1) = b * c - b
    OBVIOUS
  <2> QED BY <1>1, <1>5, <2>1, <2>2
<1>8. Quot(a, m) = s
  <2>1. PICK x \in 0 .. m - 1 : x = b * u + r
    BY <1>7
  <2>2. a = m * s + x
    BY <1>6, <2>1
  <2> QED BY <1>0, <1>5, <2>1, <2>2, QuotIs, Zenon
<1> QED BY <1>1, <1>2, <1>3, <1>4, <1>5, <1>8

\* The place of a digit: what v has above b is the digit times b and what it has above b times c.
LEMMA OneDigit ==
  ASSUME NEW v \in Nat, NEW b \in Nat \ {0}, NEW c \in Nat \ {0}, NEW m \in Nat \ {0}, m = b * c
  PROVE  /\ Times(Quot(v, b), b) = Times(Rem(Quot(v, b), c), b) + Times(Quot(v, m), m)
         /\ Quot(v, b) \in Nat /\ Quot(v, m) \in Nat /\ Rem(Quot(v, b), c) \in Nat
         /\ m \in Nat \ {0}
<1>1. Quot(v, b) \in Nat /\ Quot(v, m) \in Nat
  BY QuotTwice
<1>4. Quot(v, m) = Quot(Quot(v, b), c)
  BY QuotTwice
<1>2. PICK q \in Int : q = Quot(v, b)
  BY <1>1
<1>3. PICK s \in Int, u \in 0 .. c - 1 : Quot(q, c) = s /\ Rem(q, c) = u /\ q = c * s + u
  BY QuotRem
<1>5. q * b = u * b + s * (b * c)
  BY <1>3
<1> QED BY <1>1, <1>2, <1>3, <1>4, <1>5 DEF Times

\* The recursive function Weight multiplies the sizes of the digits below.
LEMMA WeightIs ==
  ASSUME p.sizes \in [Symbols -> Nat \ {0}]
  PROVE  Weight[0] = 1 /\ \A i \in 1 .. 5 : Weight[i] = Weight[i - 1] * p.sizes[i - 1]
<1> DEFINE z == p.sizes
           w == [i \in Symbols |->
                   IF i = 0 THEN 1 ELSE IF i = 1 THEN 1 * z[0] ELSE IF i = 2 THEN 1 * z[0] * z[1]
                   ELSE IF i = 3 THEN 1 * z[0] * z[1] * z[2]
                   ELSE IF i = 4 THEN 1 * z[0] * z[1] * z[2] * z[3]
                   ELSE 1 * z[0] * z[1] * z[2] * z[3] * z[4]]
<1>1. \A i \in Symbols : w[i] = IF i = 0 THEN 1 ELSE w[i - 1] * z[i - 1]
  BY DEF Symbols
<1>2. w = [i \in Symbols |-> IF i = 0 THEN 1 ELSE w[i - 1] * z[i - 1]]
  <2>1. w = [i \in Symbols |-> w[i]]
    OBVIOUS
  <2> HIDE DEF w
  <2> QED BY <1>1, <2>1, Zenon
<1> HIDE DEF w
<1>3. Weight = [i \in Symbols |-> IF i = 0 THEN 1 ELSE Weight[i - 1] * z[i - 1]]
  BY <1>2 DEF Weight
<1> QED BY <1>3 DEF Symbols

(* Numbers in a mixed radix: the value is the sum of its digits by their   *)
(* places (digit 5 takes what is left).                                    *)
LEMMA MixedRadix ==
  ASSUME NEW v \in Nat, NEW w \in [Symbols -> Nat \ {0}], NEW z \in [Symbols -> Nat \ {0}],
         w[0] = 1, \A i \in 1 .. 5 : w[i] = w[i - 1] * z[i - 1], v < w[5] * z[5],
         NEW d \in [Symbols -> Int], \A i \in Symbols : d[i] = Rem(Quot(v, w[i]), z[i])
  PROVE  d[0] + d[1] * w[1] + d[2] * w[2] + d[3] * w[3] + d[4] * w[4] + d[5] * w[5] = v
<1> DEFINE r(i) == Times(Quot(v, w[i]), w[i])
           e(i) == Times(d[i], w[i])
<1>1. ASSUME NEW i \in 0 .. 4
      PROVE  r(i) = e(i) + r(i + 1) /\ r(i) \in Int /\ e(i) \in Int
  <2>1. PICK b \in Nat \ {0}, y \in Nat \ {0}, m \in Nat \ {0} : b = w[i] /\ y = z[i] /\ m = w[i + 1]
    BY DEF Symbols
  <2>2. m = b * y
    BY <2>1 DEF Symbols
  <2>3. Times(Quot(v, b), b) = Times(Rem(Quot(v, b), y), b) + Times(Quot(v, m), m)
    BY <2>2, OneDigit
  <2>4. Quot(v, b) \in Nat /\ Rem(Quot(v, b), y) \in Nat
    BY <2>2, OneDigit
  <2>5. Times(Quot(v, b), b) \in Int /\ Times(Rem(Quot(v, b), y), b) \in Int
    BY <2>4 DEF Times
  <2>6. d[i] = Rem(Quot(v, b), y)
    BY <2>1 DEF Symbols
  <2> QED BY <2>1, <2>3, <2>5, <2>6
<1>2. r(5) = e(5) /\ e(5) \in Int
  <2>1. PICK b \in Nat \ {0}, y \in Nat \ {0} : b = w[5] /\ y = z[5]
    BY DEF Symbols
  <2>2. PICK m \in Nat \ {0} : m = b * y
    OBVIOUS
  <2>3. Quot(v, m) = 0
    <3>1. v = m * 0 + v /\ v \in 0 .. m - 1 /\ v \in Int /\ 0 \in Int
      BY <2>1, <2>2
    <3> QED BY <3>1, QuotIs
  <2>4. Times(Quot(v, b), b) = Times(Rem(Quot(v, b), y), b) + Times(Quot(v, m), m)
    BY <2>2, OneDigit
  <2>5. Quot(v, b) \in Nat /\ Rem(Quot(v, b), y) \in Nat
    BY <2>2, OneDigit
  <2>6. Times(0, m) = 0 /\ Times(Rem(Quot(v, b), y), b) \in Int
    BY <2>5 DEF Times
  <2>7. d[5] = Rem(Quot(v, b), y)
    BY <2>1 DEF Symbols
  <2> QED BY <2>1, <2>3, <2>4, <2>6, <2>7
<1>3. r(0) = v /\ e(0) = d[0]
  <2>1. Quot(v, 1) = v
    <3>1. v = 1 * v + 0 /\ v \in Int /\ 0 \in 0 .. 1 - 1 /\ 1 \in Nat \ {0}
      OBVIOUS
    <3> QED BY <3>1, QuotIs, ZenonT(40)
  <2>2. d[0] \in Int
    BY DEF Symbols
  <2> QED BY <2>1, <2>2 DEF Times
<1>4. d[0] + e(1) + e(2) + e(3) + e(4) + e(5) = v
  <2>1. /\ r(0) = e(0) + r(1) /\ r(1) = e(1) + r(2) /\ r(2) = e(2) + r(3)
        /\ r(3) = e(3) + r(4) /\ r(4) = e(4) + r(5)
        /\ e(0) \in Int /\ e(1) \in Int /\ e(2) \in Int /\ e(3) \in Int /\ e(4) \in Int
    BY <1>1
  <2> HIDE DEF r, e
  <2> QED BY <1>2, <1>3, <2>1
<1> QED BY <1>4, Zenon DEF Times

\* What the digits of the sizes stand for.
LEMMA Weights ==
  ASSUME p \in Params
  PROVE  LET w == [i \in Symbols |-> Weight[i]]
         IN  /\ p.sizes \in [Symbols -> Nat \ {0}] /\ w \in [Symbols -> Nat \ {0}]
             /\ w[0] = 1 /\ \A i \in 1 .. 5 : w[i] = w[i - 1] * p.sizes[i - 1]
<1> DEFINE w == [i \in Symbols |-> Weight[i]]
           z == p.sizes
<1>1. z \in [Symbols -> Nat \ {0}]
  BY Valid
<1>2. w[0] = 1 /\ \A i \in 1 .. 5 : w[i] = w[i - 1] * z[i - 1]
  BY <1>1, WeightIs DEF Symbols
<1>3. \A a, b \in Nat \ {0} : a * b \in Nat \ {0}
  OBVIOUS
<1>4. /\ z[0] \in Nat \ {0} /\ z[1] \in Nat \ {0} /\ z[2] \in Nat \ {0} /\ z[3] \in Nat \ {0}
      /\ z[4] \in Nat \ {0} /\ z[5] \in Nat \ {0}
  BY <1>1 DEF Symbols
<1>5. w[1] = w[0] * z[0] /\ w[2] = w[1] * z[1] /\ w[3] = w[2] * z[2] /\ w[4] = w[3] * z[3]
      /\ w[5] = w[4] * z[4]
  <2> HIDE DEF w
  <2> QED BY <1>2
<1>6. w \in [Symbols -> Nat \ {0}]
  <2>0. w[0] \in Nat \ {0}
    BY <1>2
  <2> HIDE DEF w, z
  <2>1. w[1] \in Nat \ {0}
    BY <1>3, <1>4, <1>5, <2>0, Zenon
  <2>2. w[2] \in Nat \ {0}
    BY <1>3, <1>4, <1>5, <2>1, Zenon
  <2>3. w[3] \in Nat \ {0}
    BY <1>3, <1>4, <1>5, <2>2, Zenon
  <2>4. w[4] \in Nat \ {0}
    BY <1>3, <1>4, <1>5, <2>3, Zenon
  <2>5. w[5] \in Nat \ {0}
    BY <1>3, <1>4, <1>5, <2>4, Zenon
  <2> QED BY <2>0, <2>1, <2>2, <2>3, <2>4, <2>5 DEF Symbols, w
<1> QED BY <1>1, <1>2, <1>6

\* The digits are numbers.
LEMMA DigitsAre ==
  ASSUME p \in Params, NEW frame, frame.value \in Nat
  PROVE  Digits(frame) \in [Symbols -> Int]
<1> DEFINE v == frame.value
           w == [i \in Symbols |-> Weight[i]]
           z == p.sizes
           d == Digits(frame)
<1>1. z \in [Symbols -> Nat \ {0}] /\ w \in [Symbols -> Nat \ {0}]
  BY Weights
<1>2. \A i \in Symbols : d[i] = Rem(Quot(v, w[i]), z[i])
  BY DEF Digits, Quot, Rem
<1>3. \A i \in Symbols : Rem(Quot(v, w[i]), z[i]) \in Int
  <2> SUFFICES ASSUME NEW i \in Symbols PROVE Rem(Quot(v, w[i]), z[i]) \in Int
    OBVIOUS
  <2>1. PICK b \in Nat \ {0}, y \in Nat \ {0} : b = w[i] /\ y = z[i]
    BY <1>1
  <2>2. PICK m \in Nat \ {0} : m = b * y
    OBVIOUS
  <2>3. Rem(Quot(v, b), y) \in Nat
    BY <2>2, OneDigit
  <2> QED BY <2>1, <2>3
<1>4. d = [i \in Symbols |-> d[i]]
  BY DEF Digits
<1>5. \A i \in Symbols : d[i] \in Int
  BY <1>2, <1>3
<1>6. d \in [Symbols -> Int]
  <2> HIDE DEF d
  <2> QED BY <1>4, <1>5
<1> QED BY <1>6

(* V90PcmMapper::decode's value is that of encode.                         *)
LEMMA DigitsValue ==
  ASSUME NEW c \in Params, p = c, NEW frame, frame.value \in Nat, frame.value < 2 ^ c.K
  PROVE  Value(Digits(frame)) = frame.value
<1> DEFINE v == frame.value
           w == [i \in Symbols |-> Weight[i]]
           z == p.sizes
           d == Digits(frame)
<1>1. z \in [Symbols -> Nat \ {0}] /\ 2 ^ c.K \in Nat
      /\ z[0] * z[1] * z[2] * z[3] * z[4] * z[5] >= 2 ^ c.K
  BY Valid
<1>2. w[0] = 1 /\ \A i \in 1 .. 5 : w[i] = w[i - 1] * z[i - 1]
  BY Weights
<1>3. \A a, b \in Nat \ {0} : a * b \in Nat \ {0}
  OBVIOUS
<1>4. /\ z[0] \in Nat \ {0} /\ z[1] \in Nat \ {0} /\ z[2] \in Nat \ {0} /\ z[3] \in Nat \ {0}
      /\ z[4] \in Nat \ {0} /\ z[5] \in Nat \ {0}
  BY <1>1 DEF Symbols
<1>5. w[1] = w[0] * z[0] /\ w[2] = w[1] * z[1] /\ w[3] = w[2] * z[2] /\ w[4] = w[3] * z[3]
      /\ w[5] = w[4] * z[4]
  <2> HIDE DEF w
  <2> QED BY <1>2
<1>6. w \in [Symbols -> Nat \ {0}]
  BY Weights
<1>7. v < w[5] * z[5]
  <2>1. w[5] = z[0] * z[1] * z[2] * z[3] * z[4]
    <3> HIDE DEF w, z
    <3> QED BY <1>2, <1>4, <1>5
  <2>2. w[5] * z[5] = z[0] * z[1] * z[2] * z[3] * z[4] * z[5]
    BY <2>1
  <2>3. v < 2 ^ c.K /\ v \in Nat
    OBVIOUS
  <2>4. w[5] * z[5] >= 2 ^ c.K
    BY <1>1, <2>2, Zenon
  <2>5. w[5] * z[5] \in Nat \ {0}
    BY <1>3, <1>4, <1>6 DEF Symbols
  <2>6. \A a, b, e \in Nat : a < b /\ e >= b => a < e
    OBVIOUS
  <2> HIDE DEF w, z, v
  <2> QED BY <1>1, <2>3, <2>4, <2>5, <2>6, Zenon
<1>8. \A i \in Symbols : d[i] = Rem(Quot(v, w[i]), z[i])
  BY DEF Digits, Quot, Rem
<1>9. d \in [Symbols -> Int]
  BY DigitsAre
<1>10. d[0] + d[1] * w[1] + d[2] * w[2] + d[3] * w[3] + d[4] * w[4] + d[5] * w[5] = v
  <2>1. v \in Nat
    OBVIOUS
  <2> HIDE DEF d, w, z, v
  <2> QED BY <1>1, <1>2, <1>6, <1>7, <1>8, <1>9, <2>1, MixedRadix
<1>11. v % (2 ^ c.K) = v
  <2>1. \A m \in Nat \ {0} : v < m => v % m = v
    BY Unique
  <2> QED BY <2>1, Valid
<1> HIDE DEF d
<1>12. d[0] + d[1] * Weight[1] + d[2] * Weight[2] + d[3] * Weight[3]
          + d[4] * Weight[4] + d[5] * Weight[5] = v
  BY <1>10 DEF Symbols
<1> QED BY <1>11, <1>12, Zenon DEF Value, d

-----------------------------------------------------------------------------
(* The sign bits of a frame, and their differential decoding. *)

\* The layout of the sign bits for each S, V90PcmMapper's table by cases.
LEMMA Layout ==
  /\ p.S = 6 => FrameSize = 6 /\ Differential = <<0, 1, 2, 3, 4, 5>> /\ Plain = {}
  /\ p.S = 5 => FrameSize = 6 /\ Differential = <<1, 3, 5>> /\ Plain = {2, 4}
  /\ p.S = 4 => FrameSize = 3 /\ Differential = <<1, 4>> /\ Plain = {2, 5}
  /\ p.S = 3 => FrameSize = 2 /\ Differential = <<1, 3, 5>> /\ Plain = {}
<1>1. p.S = 6 => FrameSize = 6 /\ Differential = <<0, 1, 2, 3, 4, 5>> /\ Plain = {}
  BY DEF FrameSize, Differential, Plain
<1>2. p.S = 5 => FrameSize = 6 /\ Differential = <<1, 3, 5>> /\ Plain = {2, 4}
  BY DEF FrameSize, Differential, Plain
<1>3. p.S = 4 => FrameSize = 3 /\ Differential = <<1, 4>> /\ Plain = {2, 5}
  BY DEF FrameSize, Differential, Plain
<1>4. p.S = 3 => FrameSize = 2 /\ Differential = <<1, 3, 5>> /\ Plain = {}
  BY DEF FrameSize, Differential, Plain
<1> QED BY <1>1, <1>2, <1>3, <1>4

\* The symbols whose signs carry bits.
DataSymbols == Plain \cup {Differential[k] : k \in DOMAIN Differential}

\* The symbols whose signs carry data, by S.
LEMMA DataSymbolsAre ==
  /\ p.S = 6 => DataSymbols = Symbols
  /\ p.S = 5 => DataSymbols = {1, 2, 3, 4, 5}
  /\ p.S = 4 => DataSymbols = {1, 2, 4, 5}
  /\ p.S = 3 => DataSymbols = {1, 3, 5}
<1>1. ASSUME p.S = 6 PROVE DataSymbols = Symbols
  <2>1. Differential = <<0, 1, 2, 3, 4, 5>> /\ Plain = {} /\ DOMAIN Differential = 1 .. 6
    BY <1>1, Layout
  <2> QED BY <2>1 DEF DataSymbols, Symbols
<1>2. ASSUME p.S = 5 PROVE DataSymbols = {1, 2, 3, 4, 5}
  <2>1. Differential = <<1, 3, 5>> /\ Plain = {2, 4} /\ DOMAIN Differential = 1 .. 3
    BY <1>2, Layout
  <2> QED BY <2>1 DEF DataSymbols
<1>3. ASSUME p.S = 4 PROVE DataSymbols = {1, 2, 4, 5}
  <2>1. Differential = <<1, 4>> /\ Plain = {2, 5} /\ DOMAIN Differential = 1 .. 2
    BY <1>3, Layout
  <2> QED BY <2>1 DEF DataSymbols
<1>4. ASSUME p.S = 3 PROVE DataSymbols = {1, 3, 5}
  <2>1. Differential = <<1, 3, 5>> /\ Plain = {} /\ DOMAIN Differential = 1 .. 3
    BY <1>4, Layout
  <2> QED BY <2>1 DEF DataSymbols
<1> QED BY <1>1, <1>2, <1>3, <1>4

\* Carried counts the data symbols before a symbol.
LEMMA CarriedNext ==
  /\ Carried(0) = 0
  /\ \A i \in 0 .. 4 : Carried(i) \in Nat /\ Carried(i + 1) = Carried(i) + (IF i \in DataSymbols THEN 1 ELSE 0)
<1> DEFINE Before(i) == {j \in Symbols : j < i /\ j \in DataSymbols}
<1>1. \A i : Carried(i) = Cardinality(Before(i))
  <2> SUFFICES ASSUME NEW i PROVE Carried(i) = Cardinality(Before(i))
    OBVIOUS
  <2>1. {j \in Symbols : j < i /\ (j \in Plain \/ \E k \in DOMAIN Differential : Differential[k] = j)}
          = Before(i)
    BY DEF DataSymbols
  <2> QED BY <2>1 DEF Carried
<1>2. Before(0) = {}
  BY DEF Symbols
<1>3. ASSUME NEW i \in 0 .. 4
      PROVE  /\ Cardinality(Before(i)) \in Nat
             /\ Cardinality(Before(i + 1)) = Cardinality(Before(i)) + (IF i \in DataSymbols THEN 1 ELSE 0)
  <2>1. IsFiniteSet(Before(i))
    <3>1. IsFiniteSet(Symbols)
      <4>1. Symbols = 0 .. 5 /\ 0 \in Int /\ 5 \in Int
        BY DEF Symbols
      <4> QED BY <4>1, FS_Interval, Zenon
    <3>2. Before(i) \subseteq Symbols
      OBVIOUS
    <3> QED BY <3>1, <3>2, FS_Subset
  <2>2. CASE i \in DataSymbols
    <3>1. Before(i + 1) = Before(i) \cup {i} /\ i \notin Before(i)
      BY <2>2 DEF Symbols
    <3> HIDE DEF Before
    <3> QED BY <2>1, <2>2, <3>1, FS_AddElement, FS_CardinalityType
  <2>3. CASE i \notin DataSymbols
    <3>1. Before(i + 1) = Before(i)
      BY <2>3 DEF Symbols
    <3> HIDE DEF Before
    <3> QED BY <2>1, <2>3, <3>1, FS_CardinalityType
  <2> QED BY <2>2, <2>3
<1> HIDE DEF Before
<1> QED BY <1>1, <1>2, <1>3, FS_EmptySet

\* The bit of the input that each data symbol carries, by S.
LEMMA CarriedIs ==
  /\ p.S = 6 => \A i \in Symbols : Carried(i) = i
  /\ p.S = 5 => /\ Carried(1) = 0 /\ Carried(2) = 1 /\ Carried(3) = 2 /\ Carried(4) = 3
                /\ Carried(5) = 4
  /\ p.S = 4 => Carried(1) = 0 /\ Carried(2) = 1 /\ Carried(4) = 2 /\ Carried(5) = 3
  /\ p.S = 3 => Carried(1) = 0 /\ Carried(3) = 1 /\ Carried(5) = 2
<1> DEFINE more(i) == IF i \in DataSymbols THEN 1 ELSE 0
<1>1. /\ Carried(0) = 0 /\ Carried(1) = Carried(0) + more(0) /\ Carried(2) = Carried(1) + more(1)
      /\ Carried(3) = Carried(2) + more(2) /\ Carried(4) = Carried(3) + more(3)
      /\ Carried(5) = Carried(4) + more(4)
  BY CarriedNext
<1>2. ASSUME p.S = 6 PROVE \A i \in Symbols : Carried(i) = i
  <2>1. more(0) = 1 /\ more(1) = 1 /\ more(2) = 1 /\ more(3) = 1 /\ more(4) = 1
    BY <1>2, DataSymbolsAre DEF Symbols
  <2> HIDE DEF more
  <2> QED BY <1>1, <2>1 DEF Symbols
<1>3. ASSUME p.S = 5
      PROVE  Carried(1) = 0 /\ Carried(2) = 1 /\ Carried(3) = 2 /\ Carried(4) = 3 /\ Carried(5) = 4
  <2>1. more(0) = 0 /\ more(1) = 1 /\ more(2) = 1 /\ more(3) = 1 /\ more(4) = 1
    BY <1>3, DataSymbolsAre
  <2> HIDE DEF more
  <2> QED BY <1>1, <2>1
<1>4. ASSUME p.S = 4 PROVE Carried(1) = 0 /\ Carried(2) = 1 /\ Carried(4) = 2 /\ Carried(5) = 3
  <2>1. more(0) = 0 /\ more(1) = 1 /\ more(2) = 1 /\ more(3) = 0 /\ more(4) = 1
    BY <1>4, DataSymbolsAre
  <2> HIDE DEF more
  <2> QED BY <1>1, <2>1
<1>5. ASSUME p.S = 3 PROVE Carried(1) = 0 /\ Carried(3) = 1 /\ Carried(5) = 2
  <2>1. more(0) = 0 /\ more(1) = 1 /\ more(2) = 0 /\ more(3) = 1 /\ more(4) = 0
    BY <1>5, DataSymbolsAre
  <2> HIDE DEF more
  <2> QED BY <1>1, <2>1
<1> QED BY <1>2, <1>3, <1>4, <1>5

\* Bits and the signs of a frame.
Bit == 0 .. 1
Signs == [Symbols -> Bit]

\* Xor of two bits is a bit, and 0 only if they are equal.
LEMMA XorBits ==
  \A a, b \in Bit : Xor(a, b) \in Bit /\ Xor(a, b) = (IF a = b THEN 0 ELSE 1)
  BY DEF Bit, Xor

(* Which symbol carries which bit of the input.                            *)
LEMMA Carriers ==
  ASSUME p.S \in 3 .. 6
  PROVE  /\ \A k \in DOMAIN Differential : Differential[k] \in Symbols /\ Differential[k] \notin Plain
         /\ \A k, j \in DOMAIN Differential : k < j => Differential[k] < Differential[j]
         /\ Len(Differential) \in Nat \ {0} /\ DOMAIN Differential = 1 .. Len(Differential)
         /\ Plain \subseteq Symbols
         /\ \A i, j \in DataSymbols : Carried(i) = Carried(j) => i = j
         /\ \A b \in 0 .. p.S - 1 : \E i \in DataSymbols : Carried(i) = b
         /\ \A i \in DataSymbols : Carried(i) \in Symbols
<1>1. CASE p.S = 6
  <2>1. /\ Differential = <<0, 1, 2, 3, 4, 5>> /\ Plain = {} /\ DOMAIN Differential = 1 .. 6
        /\ Len(Differential) = 6
    BY <1>1, Layout
  <2> QED BY <1>1, <2>1, DataSymbolsAre, CarriedIs DEF Symbols
<1>2. CASE p.S = 5
  <2>1. /\ Differential = <<1, 3, 5>> /\ Plain = {2, 4} /\ DOMAIN Differential = 1 .. 3
        /\ Len(Differential) = 3
    BY <1>2, Layout
  <2> QED BY <1>2, <2>1, DataSymbolsAre, CarriedIs DEF Symbols
<1>3. CASE p.S = 4
  <2>1. /\ Differential = <<1, 4>> /\ Plain = {2, 5} /\ DOMAIN Differential = 1 .. 2
        /\ Len(Differential) = 2
    BY <1>3, Layout
  <2> QED BY <1>3, <2>1, DataSymbolsAre, CarriedIs DEF Symbols
<1>4. CASE p.S = 3
  <2>1. /\ Differential = <<1, 3, 5>> /\ Plain = {} /\ DOMAIN Differential = 1 .. 3
        /\ Len(Differential) = 3
    BY <1>4, Layout
  <2> QED BY <1>4, <2>1, DataSymbolsAre, CarriedIs DEF Symbols
<1> QED BY <1>1, <1>2, <1>3, <1>4

(* Each differential bit is the one before it, inverted by a one; the      *)
(* plain bits are what they carry, the others are zero.                    *)
LEMMA SignBitsAre ==
  ASSUME p.S \in 3 .. 6, NEW frame, frame.signs \in Signs, NEW last \in Bit
  PROVE  LET bits == SignBits(frame, last)
         IN  /\ bits \in Signs
             /\ \A i \in Symbols \ DataSymbols : bits[i] = 0
             /\ \A i \in Plain : bits[i] = frame.signs[Carried(i)]
             /\ \A k \in DOMAIN Differential :
                  bits[Differential[k]] = Xor(IF k = 1 THEN last ELSE bits[Differential[k - 1]],
                                              frame.signs[Carried(Differential[k])])
<1> DEFINE bits == SignBits(frame, last)
           one(k) == frame.signs[Carried(Differential[k])] = 1
           Ones(i) == {k \in DOMAIN Differential : Differential[k] <= i /\ one(k)}
           count(i) == Cardinality(Ones(i))
<1>1. \A i \in Symbols : IsFiniteSet(Ones(i)) /\ count(i) \in Nat
  <2>1. IsFiniteSet(1 .. Len(Differential))
    BY Carriers, FS_Interval
  <2>2. \A i \in Symbols : Ones(i) \subseteq 1 .. Len(Differential)
    BY Carriers
  <2> HIDE DEF Ones
  <2> QED BY <2>1, <2>2, FS_Subset, FS_CardinalityType
<1>2. \A i \in DataSymbols \ Plain : bits[i] = Xor(last, count(i))
  BY Carriers DEF SignBits, DataSymbols
<1>3. \A i \in Plain : bits[i] = frame.signs[Carried(i)]
  BY Carriers DEF SignBits
<1>4. \A i \in Symbols \ DataSymbols : bits[i] = 0
  BY DEF SignBits, DataSymbols
<1>5. bits \in Signs
  <2>1. \A n \in Nat : Xor(last, n) \in Bit
    BY DEF Xor, Bit
  <2>2. \A i \in Symbols : bits[i] \in Bit
    <3>1. \A i \in Plain : bits[i] \in Bit
      BY <1>3, Carriers DEF Signs, DataSymbols
    <3>2. \A i \in DataSymbols \ Plain : i \in Symbols
      BY Carriers DEF DataSymbols
    <3>3. \A i \in DataSymbols \ Plain : bits[i] \in Bit
      <4> HIDE DEF bits, count
      <4> QED BY <1>1, <1>2, <2>1, <3>2
    <3>4. 0 \in Bit
      BY DEF Bit
    <3> HIDE DEF bits
    <3> QED BY <3>1, <3>3, <3>4, <1>4
  <2>3. bits = [i \in Symbols |-> bits[i]]
    BY DEF SignBits
  <2> HIDE DEF bits
  <2> QED BY <2>2, <2>3 DEF Signs
<1>6. ASSUME NEW k \in DOMAIN Differential
      PROVE  bits[Differential[k]] = Xor(IF k = 1 THEN last ELSE bits[Differential[k - 1]],
                                         frame.signs[Carried(Differential[k])])
  <2> DEFINE before == IF k = 1 THEN {} ELSE Ones(Differential[k - 1])
             s == frame.signs[Carried(Differential[k])]
  <2>1. s \in Bit
    BY Carriers DEF Signs, DataSymbols
  <2>2. Ones(Differential[k]) = before \cup (IF s = 1 THEN {k} ELSE {}) /\ k \notin before
    <3>1. k - 1 \in DOMAIN Differential \/ k = 1
      BY Carriers
    <3>2. ASSUME NEW j \in DOMAIN Differential
          PROVE  Differential[j] <= Differential[k] <=> j < k \/ j = k
      BY Carriers DEF Symbols
    <3>3. ASSUME NEW j \in DOMAIN Differential, k # 1
          PROVE  Differential[j] <= Differential[k - 1] <=> j < k
      BY <3>1, <3>3, Carriers DEF Symbols
    <3> QED BY <3>2, <3>3, Carriers
  <2>3. IsFiniteSet(before) /\ Cardinality(before) \in Nat
    <3>1. CASE k = 1
      BY <3>1, FS_EmptySet
    <3>2. CASE k # 1
      <4>1. Differential[k - 1] \in Symbols
        BY <3>2, Carriers
      <4> HIDE DEF Ones
      <4> QED BY <1>1, <3>2, <4>1
    <3> QED BY <3>1, <3>2
  <2>4. count(Differential[k]) = Cardinality(before) + s
    <3>1. CASE s = 1
      <4>1. Ones(Differential[k]) = before \cup {k} /\ k \notin before
        BY <2>2, <3>1
      <4> HIDE DEF Ones, before, s
      <4> QED BY <2>3, <3>1, <4>1, FS_AddElement
    <3>2. CASE s = 0
      <4>1. Ones(Differential[k]) = before
        BY <2>2, <3>2
      <4> HIDE DEF Ones, before, s
      <4> QED BY <2>3, <3>2, <4>1
    <3> HIDE DEF s
    <3> QED BY <2>1, <3>1, <3>2 DEF Bit
  <2>5. Differential[k] \in DataSymbols \ Plain
    BY Carriers DEF DataSymbols
  <2>6. bits[Differential[k]] = Xor(last, Cardinality(before) + s)
    <3> HIDE DEF bits, count, before, s
    <3> QED BY <1>2, <2>4, <2>5
  <2>7. (IF k = 1 THEN last ELSE bits[Differential[k - 1]]) = Xor(last, Cardinality(before))
    <3>1. CASE k = 1
      BY <3>1, FS_EmptySet DEF Xor, Bit
    <3>2. CASE k # 1
      <4>1. Differential[k - 1] \in DataSymbols \ Plain
        BY <3>2, Carriers DEF DataSymbols
      <4> HIDE DEF bits
      <4> QED BY <1>2, <3>2, <4>1
    <3> QED BY <3>1, <3>2
  <2>8. \A n \in Nat, x \in Bit : Xor(last, n + x) = Xor(Xor(last, n), x)
    BY DEF Xor, Bit
  <2> HIDE DEF bits, before, s
  <2> QED BY <2>1, <2>3, <2>6, <2>7, <2>8 DEF s
<1> HIDE DEF bits
<1> QED BY <1>3, <1>4, <1>5, <1>6 DEF bits

(* What decode makes of six bits, given the last bit of the frame before.  *)
DataOf(bits, last) ==
  [b \in 0 .. p.S - 1 |->
     IF \E i \in Plain : Carried(i) = b
     THEN bits[CHOOSE i \in Plain : Carried(i) = b]
     ELSE LET k == CHOOSE k \in DOMAIN Differential : Carried(Differential[k]) = b
          IN  Xor(bits[Differential[k]], IF k = 1 THEN last ELSE bits[Differential[k - 1]])]

\* The differential decoding of decode gives back the sign bits that encode was given.
LEMMA BitsDecode ==
  ASSUME p.S \in 3 .. 6, NEW frame, frame.signs \in Signs, NEW last \in Bit,
         NEW bits, \A i \in Symbols : bits[i] = SignBits(frame, last)[i]
  PROVE  \A b \in 0 .. p.S - 1 : DataOf(bits, last)[b] = frame.signs[b]
<1> DEFINE sent == SignBits(frame, last)
<1> SUFFICES ASSUME NEW b \in 0 .. p.S - 1
             PROVE  DataOf(bits, last)[b] = frame.signs[b]
  OBVIOUS
<1>1. CASE \E i \in Plain : Carried(i) = b
  <2> DEFINE i == CHOOSE i \in Plain : Carried(i) = b
  <2>1. i \in Plain /\ Carried(i) = b
    BY <1>1
  <2>2. DataOf(bits, last)[b] = bits[i]
    BY <1>1 DEF DataOf
  <2> HIDE DEF i
  <2> QED BY <2>1, <2>2, Carriers, SignBitsAre
<1>2. CASE ~\E i \in Plain : Carried(i) = b
  <2> DEFINE k == CHOOSE k \in DOMAIN Differential : Carried(Differential[k]) = b
             before == IF k = 1 THEN last ELSE bits[Differential[k - 1]]
             was == IF k = 1 THEN last ELSE sent[Differential[k - 1]]
  <2>1. k \in DOMAIN Differential /\ Carried(Differential[k]) = b
    <3>1. \E j \in DOMAIN Differential : Carried(Differential[j]) = b
      BY <1>2, Carriers DEF DataSymbols
    <3> QED BY <3>1
  <2>2. DataOf(bits, last)[b] = Xor(bits[Differential[k]], before)
    BY <1>2 DEF DataOf
  <2> HIDE DEF k
  <2>3. sent[Differential[k]] = Xor(was, frame.signs[b]) /\ sent \in Signs
    BY <2>1, SignBitsAre
  <2>4. before = was /\ was \in Bit /\ bits[Differential[k]] = sent[Differential[k]]
    <3>1. CASE k = 1
      BY <2>1, <3>1, Carriers
    <3>2. CASE k # 1
      <4>1. Differential[k - 1] \in Symbols /\ Differential[k] \in Symbols
        BY <2>1, <3>2, Carriers
      <4> HIDE DEF sent
      <4> QED BY <2>3, <3>2, <4>1 DEF sent, Signs
    <3> QED BY <3>1, <3>2
  <2>5. frame.signs[b] \in Bit
    <3>1. b \in Symbols
      BY DEF Symbols
    <3> QED BY <3>1 DEF Signs
  <2>6. \A x, y \in Bit : Xor(Xor(x, y), x) = y
    BY DEF Xor, Bit
  <2> HIDE DEF before, was, sent
  <2> QED BY <2>2, <2>3, <2>4, <2>5, <2>6
<1> QED BY <1>1, <1>2

-----------------------------------------------------------------------------
(* V90PcmMapper::decode, and the spectral shaper undone. *)

\* A mapping frame is a whole number of shaping frames, and the first symbol of each carries no data.
LEMMA Geometry ==
  ASSUME p.S \in 3 .. 6
  PROVE  /\ p.S = 6 => Parts = 0 /\ FrameSize = 6
         /\ p.S # 6 => \/ Parts = 1 /\ FrameSize = 6
                       \/ Parts = 2 /\ FrameSize = 3
                       \/ Parts = 3 /\ FrameSize = 2
         /\ \A h \in 1 .. Parts : (h - 1) * FrameSize \in Symbols \ DataSymbols
<1>1. CASE p.S = 6
  BY <1>1, Layout DEF Parts
<1>2. CASE p.S = 5
  BY <1>2, Layout, DataSymbolsAre DEF Parts, Symbols
<1>3. CASE p.S = 4
  BY <1>3, Layout, DataSymbolsAre DEF Parts, Symbols
<1>4. CASE p.S = 3
  BY <1>4, Layout, DataSymbolsAre DEF Parts, Symbols
<1> QED BY <1>1, <1>2, <1>3, <1>4

\* The shaper's states that the signs t give away.
States(t, a, q) ==
  q = [h \in 0 .. Parts |-> IF h = 0 THEN a ELSE Xor(q[h - 1], Xor(t[h][0], t[h - 1][0]))]

\* The recursive function of decode that follows the shaper's state is defined.
LEMMA StatesDefined ==
  ASSUME Parts \in 0 .. 3, NEW t, NEW a
  PROVE  \E q : States(t, a, q)
<1> DEFINE q1 == Xor(a, Xor(t[1][0], t[0][0]))
           q2 == Xor(q1, Xor(t[2][0], t[1][0]))
           q3 == Xor(q2, Xor(t[3][0], t[2][0]))
           q == [h \in 0 .. Parts |-> IF h = 0 THEN a ELSE IF h = 1 THEN q1 ELSE IF h = 2 THEN q2 ELSE q3]
<1>1. ASSUME NEW h \in 0 .. Parts
      PROVE  q[h] = IF h = 0 THEN a ELSE Xor(q[h - 1], Xor(t[h][0], t[h - 1][0]))
  <2>1. h \in {0, 1, 2, 3} /\ (h # 0 => h - 1 \in 0 .. Parts)
    OBVIOUS
  <2> QED BY <2>1
<1>2. q = [h \in 0 .. Parts |-> q[h]]
  OBVIOUS
<1> HIDE DEF q
<1>3. q = [h \in 0 .. Parts |-> IF h = 0 THEN a ELSE Xor(q[h - 1], Xor(t[h][0], t[h - 1][0]))]
  BY <1>1, <1>2, Zenon
<1> QED BY <1>3 DEF States

\* What Decode is made of: the signs by parts, the bits of a part and of the frame, the shaper's states.
HeardParts(d, signs) == [h \in 0 .. Parts |-> IF h = 0 THEN d.t ELSE PartOf(signs, h)]
HeardPart(t, q, h) == Inverted(Inverted(t[h], t[h - 1]), SignOp(q[h], q[h - 1]))
HeardBits(t, q) == [i \in Symbols |-> HeardPart(t, q, 1 + i \div FrameSize)[i % FrameSize]]
HeardStates(d, signs) == CHOOSE q : States(HeardParts(d, signs), d.q, q)
Heard(d, signs) == IF p.S = 6 THEN signs ELSE HeardBits(HeardParts(d, signs), HeardStates(d, signs))

\* The states that decode finds obey its recursion.
LEMMA HeardStatesAre ==
  ASSUME Parts \in 0 .. 3, NEW d, NEW signs
  PROVE  States(HeardParts(d, signs), d.q, HeardStates(d, signs))
<1>1. \E q : States(HeardParts(d, signs), d.q, q)
  BY StatesDefined
<1> QED BY <1>1, Zenon DEF HeardStates

\* Decode in the terms above.
LEMMA DecodeIs ==
  ASSUME NEW d, NEW signs
  PROVE  Decode(d, signs) =
           [data |-> DataOf(Heard(d, signs), d.last), last |-> LastBit(Heard(d, signs)),
            t |-> HeardParts(d, signs)[Parts], q |-> HeardStates(d, signs)[Parts]]
  BY DEF Decode, DataOf, Heard, HeardBits, HeardPart, HeardParts, HeardStates, States

\* The two ends agree on the first n symbols of a part.
AgreeOn(n, s, t) == \A i \in Symbols : i < n => s[i] = t[i]

\* The two cancellations of the shaper's arithmetic.
LEMMA XorCancels ==
  \A a, b, c \in Bit : /\ Xor(Xor(Xor(Xor(a, b), c), a), c) = b
                       /\ Xor(a, Xor(Xor(Xor(b, 0), Xor(c, a)), b)) = c
<1> SUFFICES ASSUME NEW a \in Bit, NEW b \in Bit, NEW c \in Bit
             PROVE  /\ Xor(Xor(Xor(Xor(a, b), c), a), c) = b
                    /\ Xor(a, Xor(Xor(Xor(b, 0), Xor(c, a)), b)) = c
  OBVIOUS
<1>1. a \in {0, 1} /\ b \in {0, 1} /\ c \in {0, 1}
  BY DEF Bit
<1> QED BY <1>1, XorBits DEF Bit

\* sign_op gives bits, and inverts bit 0 when the state changes.
LEMMA SignOpBits ==
  ASSUME NEW new \in Bit, NEW old \in Bit
  PROVE  SignOp(new, old) \in Signs /\ SignOp(new, old)[0] = Xor(new, old)
<1>1. \A i \in Symbols : (IF i % 2 = 0 THEN Xor(new, old) ELSE new) \in Bit
  BY XorBits
<1> QED BY <1>1 DEF SignOp, Signs, Symbols

\* An inversion of bits gives bits.
LEMMA InvertedBits ==
  ASSUME NEW s \in Signs, NEW t \in Signs
  PROVE  Inverted(s, t) \in Signs /\ \A i \in Symbols : Inverted(s, t)[i] = Xor(s[i], t[i])
  BY XorBits DEF Inverted, Signs

(* The decoder's arithmetic undoes the encoder's: from the signs of two    *)
(* parts and the shaper's state before the second it finds the state after *)
(* it and the bits of that part, whichever of the two states the shaper    *)
(* took (V90PcmMapper::decode against encode).                             *)
THEOREM ShaperUndone ==
  ASSUME NEW n \in 1 .. 6,
         NEW before \in Signs, NEW bits \in Signs, bits[0] = 0,
         NEW old \in Bit, NEW new \in Bit,
         NEW heardBefore \in Signs, AgreeOn(n, heardBefore, before),
         NEW heard \in Signs,
         AgreeOn(n, heard, Inverted(Inverted(before, bits), SignOp(new, old)))
  PROVE  LET q == Xor(old, Xor(heard[0], heardBefore[0]))
         IN  /\ q = new
             /\ AgreeOn(n, Inverted(Inverted(heard, heardBefore), SignOp(q, old)), bits)
<1> DEFINE op == SignOp(new, old)
           shaped == Inverted(Inverted(before, bits), op)
           q == Xor(old, Xor(heard[0], heardBefore[0]))
<1>1. op \in Signs /\ op[0] = Xor(new, old)
  BY SignOpBits
<1>2. \A i \in Symbols : shaped[i] = Xor(Xor(before[i], bits[i]), op[i])
  BY <1>1, InvertedBits
<1>3. \A i \in Symbols : before[i] \in Bit /\ bits[i] \in Bit /\ op[i] \in Bit
  BY <1>1 DEF Signs
<1>4. q = new
  <2>1. 0 \in Symbols /\ 0 < n
    BY DEF Symbols
  <2>2. heard[0] = Xor(Xor(before[0], 0), Xor(new, old)) /\ heardBefore[0] = before[0]
    BY <1>1, <1>2, <2>1 DEF AgreeOn
  <2> QED BY <1>3, <2>1, <2>2, XorCancels
<1>5. ASSUME NEW i \in Symbols, i < n
      PROVE  Inverted(Inverted(heard, heardBefore), op)[i] = bits[i]
  <2>1. Inverted(Inverted(heard, heardBefore), op)[i] = Xor(Xor(heard[i], heardBefore[i]), op[i])
    BY <1>1, InvertedBits
  <2>2. heard[i] = Xor(Xor(before[i], bits[i]), op[i]) /\ heardBefore[i] = before[i]
    BY <1>2, <1>5 DEF AgreeOn
  <2> QED BY <1>3, <2>1, <2>2, XorBits DEF Bit
<1> HIDE DEF q
<1>6. AgreeOn(n, Inverted(Inverted(heard, heardBefore), SignOp(q, old)), bits)
  BY <1>4, <1>5 DEF AgreeOn
<1> QED BY <1>4, <1>6 DEF q

\* The parts and states that decode finds in six signs: the state after a part is the sign of its first symbol.
LEMMA HeardPartsAre ==
  ASSUME Parts \in 0 .. 3, NEW d, d.t \in Signs, d.q = d.t[0], NEW signs \in Signs,
         FrameSize \in 1 .. 6, Parts * FrameSize <= 6, \A h \in 1 .. Parts : (h - 1) * FrameSize \in Symbols
  PROVE  LET t == HeardParts(d, signs)
             q == HeardStates(d, signs)
         IN  /\ t \in [0 .. Parts -> Signs] /\ t[0] = d.t
             /\ \A h \in 1 .. Parts, i \in 0 .. FrameSize - 1 : t[h][i] = signs[(h - 1) * FrameSize + i]
             /\ \A h \in 0 .. Parts : q[h] = t[h][0] /\ q[h] \in Bit
             /\ \A h \in 1 .. Parts : q[h] = Xor(q[h - 1], Xor(t[h][0], t[h - 1][0]))
<1> DEFINE t == HeardParts(d, signs)
           q == HeardStates(d, signs)
           n == Parts
           f == FrameSize
<1>1. ASSUME NEW h \in 1 .. n, NEW i \in Symbols, i < f
      PROVE  (h - 1) * f + i \in Symbols
  <2>1. /\ (h = 1 => (h - 1) * f = 0) /\ (h = 2 => (h - 1) * f = f) /\ (h = 3 => (h - 1) * f = f + f)
        /\ (n = 1 => n * f = f) /\ (n = 2 => n * f = f + f) /\ (n = 3 => n * f = f + f + f)
    OBVIOUS
  <2>2. n \in 0 .. 3 /\ f \in 1 .. 6 /\ n * f <= 6
    OBVIOUS
  <2> HIDE DEF n, f
  <2> QED BY <1>1, <2>1, <2>2 DEF Symbols
<1>2. ASSUME NEW h \in 1 .. n
      PROVE  /\ PartOf(signs, h) \in Signs
             /\ \A i \in 0 .. f - 1 : PartOf(signs, h)[i] = signs[(h - 1) * f + i]
  <2>1. \A i \in Symbols : (IF i < f THEN signs[(h - 1) * f + i] ELSE 0) \in Bit
    BY <1>1 DEF Signs, Bit
  <2>2. \A i \in 0 .. f - 1 : i \in Symbols /\ i < f
    BY DEF Symbols
  <2> QED BY <2>1, <2>2 DEF PartOf, Signs
<1>3. t \in [0 .. n -> Signs] /\ t[0] = d.t /\ \A h \in 1 .. n : t[h] = PartOf(signs, h)
  BY <1>2 DEF HeardParts
<1>4. States(t, d.q, q)
  BY HeardStatesAre
<1>5. q[0] = d.q /\ \A h \in 1 .. n : q[h] = Xor(q[h - 1], Xor(t[h][0], t[h - 1][0]))
  <2> HIDE DEF q, t
  <2> QED BY <1>4 DEF States
<1>6. \A h \in 0 .. n : t[h][0] \in Bit
  BY <1>3 DEF Signs, Symbols
<1>7. q[0] = t[0][0] /\ \A h \in 1 .. n : q[h - 1] = t[h - 1][0] => q[h] = t[h][0]
  <2>1. \A a, b \in Bit : Xor(a, Xor(b, a)) = b
    BY DEF Xor, Bit
  <2> HIDE DEF q, t
  <2> QED BY <1>3, <1>5, <1>6, <2>1
<1>8. \A h \in 0 .. n : q[h] = t[h][0]
  <2>1. n \in 0 .. 3
    OBVIOUS
  <2> HIDE DEF q, t, n
  <2>2. 1 <= n => q[1] = t[1][0]
    BY <1>7, <2>1
  <2>3. 2 <= n => q[2] = t[2][0]
    BY <1>7, <2>1, <2>2
  <2>4. 3 <= n => q[3] = t[3][0]
    BY <1>7, <2>1, <2>3
  <2> QED BY <1>7, <2>1, <2>2, <2>3, <2>4
<1> HIDE DEF t, q
<1> QED BY <1>2, <1>3, <1>5, <1>6, <1>8 DEF t, q

(* What the shaper sent in a frame: its states Q and the signs T after each *)
(* part, for the bits of the frame.                                         *)
Shapes(T, Q, bits) ==
  /\ \A h \in 0 .. Parts : T[h] \in Signs /\ Q[h] = T[h][0]
  /\ \A h \in 1 .. Parts : T[h] = Inverted(Inverted(T[h - 1], PartOf(bits, h)), SignOp(Q[h], Q[h - 1]))

\* decode undoes the shaping of a whole frame; only the frame's bits need the part before it to be known.
LEMMA PartsDecode ==
  ASSUME p.S \in 3 .. 5, NEW d, d.t \in Signs, d.q = d.t[0], NEW signs \in Signs,
         NEW T, NEW Q, NEW bits \in Signs, Shapes(T, Q, bits),
         \A i \in Symbols \ DataSymbols : bits[i] = 0,
         \A h \in 1 .. Parts, i \in 0 .. FrameSize - 1 : signs[(h - 1) * FrameSize + i] = T[h][i]
  PROVE  /\ Decode(d, signs).t \in Signs /\ Decode(d, signs).q = Decode(d, signs).t[0]
         /\ AgreeOn(FrameSize, Decode(d, signs).t, T[Parts])
         /\ AgreeOn(FrameSize, d.t, T[0]) => \A i \in Symbols : Heard(d, signs)[i] = bits[i]
<1> DEFINE t == HeardParts(d, signs)
           q == HeardStates(d, signs)
           f == FrameSize
           n == Parts
<1>1. (n = 1 /\ f = 6) \/ (n = 2 /\ f = 3) \/ (n = 3 /\ f = 2)
  BY Geometry
<1>2. \A h \in 1 .. n : (h - 1) * f \in Symbols \ DataSymbols
  BY Geometry
<1>3. /\ t \in [0 .. n -> Signs] /\ t[0] = d.t
      /\ \A h \in 1 .. n, i \in 0 .. f - 1 : t[h][i] = signs[(h - 1) * f + i]
      /\ \A h \in 0 .. n : q[h] = t[h][0] /\ q[h] \in Bit
      /\ \A h \in 1 .. n : q[h] = Xor(q[h - 1], Xor(t[h][0], t[h - 1][0]))
  <2>1. n \in 0 .. 3 /\ f \in 1 .. 6 /\ n * f <= 6
    BY <1>1
  <2> QED BY <1>2, <2>1, HeardPartsAre
<1>4. ASSUME NEW h \in 1 .. n PROVE AgreeOn(f, t[h], T[h])
  <2>1. \A i \in 0 .. f - 1 : t[h][i] = T[h][i]
    <3> HIDE DEF t, q
    <3> QED BY <1>3
  <2>2. \A i \in Symbols : i < f => i \in 0 .. f - 1
    BY <1>1 DEF Symbols
  <2> HIDE DEF t, f
  <2> QED BY <2>1, <2>2 DEF AgreeOn
<1>5. Decode(d, signs).t = t[n] /\ Decode(d, signs).q = q[n]
  BY DecodeIs
<1>6. n \in 1 .. n
  BY <1>1
<1>7. ASSUME AgreeOn(f, d.t, T[0]), NEW h \in 1 .. n
      PROVE  AgreeOn(f, HeardPart(t, q, h), PartOf(bits, h))
  <2>1. \A g \in 0 .. n : AgreeOn(f, t[g], T[g])
    BY <1>3, <1>4, <1>7
  <2>2. q[h - 1] = Q[h - 1]
    <3>1. t[h - 1][0] = T[h - 1][0]
      BY <1>1, <2>1 DEF AgreeOn, Symbols
    <3>2. h - 1 \in 0 .. n
      BY <1>1
    <3>3. Q[h - 1] = T[h - 1][0]
      BY <3>2 DEF Shapes
    <3>4. q[h - 1] = t[h - 1][0]
      BY <1>3, <3>2
    <3> HIDE DEF t, q
    <3> QED BY <3>1, <3>3, <3>4
  <2>3. PartOf(bits, h) \in Signs /\ PartOf(bits, h)[0] = 0
    <3>1. PartOf(bits, h)[0] = bits[(h - 1) * f]
      BY <1>1 DEF PartOf, Symbols
    <3>2. \A i \in Symbols : (IF i < f THEN bits[(h - 1) * f + i] ELSE 0) \in Bit
      BY <1>1 DEF Signs, Symbols, Bit
    <3> QED BY <1>2, <3>1, <3>2 DEF PartOf, Signs
  <2>4. /\ T[h - 1] \in Signs /\ Q[h] \in Bit /\ Q[h - 1] \in Bit
        /\ T[h] = Inverted(Inverted(T[h - 1], PartOf(bits, h)), SignOp(Q[h], Q[h - 1]))
    <3>1. h - 1 \in 0 .. n /\ h \in 0 .. n
      BY <1>1
    <3>2. /\ T[h - 1] \in Signs /\ Q[h - 1] = T[h - 1][0] /\ T[h] \in Signs /\ Q[h] = T[h][0]
          /\ T[h] = Inverted(Inverted(T[h - 1], PartOf(bits, h)), SignOp(Q[h], Q[h - 1]))
      BY <3>1 DEF Shapes
    <3>3. 0 \in Symbols
      BY DEF Symbols
    <3> QED BY <3>2, <3>3 DEF Signs
  <2>5. /\ t[h] \in Signs /\ t[h - 1] \in Signs /\ f \in 1 .. 6
        /\ AgreeOn(f, t[h], T[h]) /\ AgreeOn(f, t[h - 1], T[h - 1])
        /\ q[h] = Xor(Q[h - 1], Xor(t[h][0], t[h - 1][0]))
    BY <1>1, <1>3, <2>1, <2>2
  <2> DEFINE m == Xor(Q[h - 1], Xor(t[h][0], t[h - 1][0]))
  <2>6. AgreeOn(f, Inverted(Inverted(t[h], t[h - 1]), SignOp(m, Q[h - 1])), PartOf(bits, h))
    <3>1. \E x \in Signs, y \in Signs : x = T[h - 1] /\ y = PartOf(bits, h)
      BY <2>3, <2>4
    <3> HIDE DEF t, q, f
    <3> QED BY <2>3, <2>4, <2>5, ShaperUndone, SMTT(30)
  <2> HIDE DEF m
  <2>7. q[h] = m
    BY <2>5 DEF m
  <2> QED BY <2>2, <2>6, <2>7 DEF HeardPart
<1>8. ASSUME AgreeOn(f, d.t, T[0]), NEW i \in Symbols PROVE Heard(d, signs)[i] = bits[i]
  <2> DEFINE h == 1 + i \div f
             j == i % f
  <2>1. h \in 1 .. n /\ j \in Symbols /\ j < f /\ (h - 1) * f + j = i
    <3>1. i \in 0 .. 5
      BY DEF Symbols
    <3>2. CASE n = 1 /\ f = 6
      BY <3>1, <3>2 DEF Symbols
    <3>3. CASE n = 2 /\ f = 3
      BY <3>1, <3>3 DEF Symbols
    <3>4. CASE n = 3 /\ f = 2
      BY <3>1, <3>4 DEF Symbols
    <3> QED BY <1>1, <3>2, <3>3, <3>4
  <2>2. Heard(d, signs)[i] = HeardPart(t, q, h)[j]
    BY DEF Heard, HeardBits
  <2>3. PartOf(bits, h)[j] = bits[(h - 1) * f + j]
    BY <2>1 DEF PartOf
  <2> HIDE DEF h, j, t, q, f, n
  <2> QED BY <1>7, <1>8, <2>1, <2>2, <2>3 DEF AgreeOn
<1> HIDE DEF t, q, n
<1> QED BY <1>3, <1>4, <1>5, <1>6, <1>8 DEF n

-----------------------------------------------------------------------------
(* V90PcmMapper::encode, its ring and the frames that wait in it. *)

\* What Encode is made of.
NewRing(m, frame) ==
  [i \in DOMAIN m.ring |->
     IF \E j \in Symbols : At(m.ptr + j) = i
     THEN Digits(frame)[CHOOSE j \in Symbols : At(m.ptr + j) = i] ELSE m.ring[i]]
NewParts(m, bits) ==
  [i \in DOMAIN m.pp |->
     IF \E h \in 1 .. Parts : At(m.ptr + (h - 1) * FrameSize) = i
     THEN PartOf(bits, CHOOSE h \in 1 .. Parts : At(m.ptr + (h - 1) * FrameSize) = i)
     ELSE m.pp[i]]
ShaperStates(m, path) == [h \in 0 .. Parts |-> IF h = 0 THEN m.q ELSE path[h]]
Turns(m, pp, q, t) ==
  t = [h \in 0 .. Parts |->
         IF h = 0 THEN m.t
         ELSE Inverted(Inverted(t[h - 1], pp[Shaped(m.ptr, h)]), SignOp(q[h], q[h - 1]))]
SentSigns(m, pp, q) == CHOOSE t : Turns(m, pp, q, t)
SentSign(bits, t, i) == IF p.S = 6 THEN bits[i] ELSE t[1 + i \div FrameSize][i % FrameSize]

\* The recursive function of Encode that signs the parts is defined.
LEMMA TurnsDefined ==
  ASSUME Parts \in 0 .. 3, NEW m, NEW pp, NEW q
  PROVE  \E t : Turns(m, pp, q, t)
<1> DEFINE step(a, h) == Inverted(Inverted(a, pp[Shaped(m.ptr, h)]), SignOp(q[h], q[h - 1]))
           t1 == step(m.t, 1)
           t2 == step(t1, 2)
           t3 == step(t2, 3)
           t == [h \in 0 .. Parts |-> IF h = 0 THEN m.t ELSE IF h = 1 THEN t1 ELSE IF h = 2 THEN t2 ELSE t3]
<1>1. ASSUME NEW h \in 0 .. Parts
      PROVE  t[h] = IF h = 0 THEN m.t ELSE step(t[h - 1], h)
  <2>1. h \in {0, 1, 2, 3} /\ (h # 0 => h - 1 \in 0 .. Parts)
    OBVIOUS
  <2> HIDE DEF step
  <2> QED BY <2>1
<1>2. t = [h \in 0 .. Parts |-> t[h]]
  OBVIOUS
<1> HIDE DEF t
<1>3. Turns(m, pp, q, t)
  BY <1>1, <1>2, Zenon DEF Turns
<1> QED BY <1>3

\* The signs that Encode sends obey its recursion.
LEMMA SentSignsAre ==
  ASSUME Parts \in 0 .. 3, NEW m, NEW pp, NEW q
  PROVE  Turns(m, pp, q, SentSigns(m, pp, q))
<1>1. \E t : Turns(m, pp, q, t)
  BY TurnsDefined
<1> QED BY <1>1, Zenon DEF SentSigns

\* Encode in the terms above.
LEMMA EncodeIs ==
  ASSUME NEW m, NEW frame, NEW path
  PROVE  LET bits == SignBits(frame, m.last)
             pp == NewParts(m, bits)
             q == ShaperStates(m, path)
             t == SentSigns(m, pp, q)
         IN  Encode(m, frame, path) =
               [mapper |-> [ring |-> NewRing(m, frame), pp |-> pp, ptr |-> At(m.ptr + 6),
                            last |-> LastBit(bits), t |-> t[Parts], q |-> q[Parts]],
                out |-> [i \in 1 .. 6 |-> Mapped(NewRing(m, frame)[At(m.ptr - Late + i - 1)],
                                                 SentSign(bits, t, i - 1))]]
  BY DEF Encode, NewRing, NewParts, ShaperStates, Turns, SentSigns, SentSign

\* Positions on the ring are integers, reduced.
LEMMA AtAdds ==
  ASSUME NEW a \in Int, NEW k \in Int
  PROVE  At(a) \in 0 .. RingBuf - 1 /\ At(At(a) + k) = At(a + k)
<1>1. RingBuf \in Nat \ {0}
  BY RingIsDeep
<1>2. ((a % RingBuf) + k) % RingBuf = (a + k) % RingBuf
  BY <1>1, ModAdd
<1>3. PICK r \in 0 .. RingBuf - 1 : a % RingBuf = r
  <2>1. \E q \in Int, r \in 0 .. RingBuf - 1 : a \div RingBuf = q /\ a % RingBuf = r /\ a = RingBuf * q + r
    BY <1>1, DivMod
  <2> QED BY <2>1
<1> QED BY <1>2, <1>3 DEF At

\* Positions less than 24 apart are different places of the ring.
LEMMA AtDiffers ==
  ASSUME NEW a \in Int, NEW b \in Int, a < b, b - a < 24
  PROVE  At(a) # At(b)
<1>1. RingBuf \in Nat \ {0} /\ a - b < RingBuf /\ b - a < RingBuf
  BY RingIsDeep
<1>2. a % RingBuf = b % RingBuf => a = b
  BY <1>1, ModSame
<1> QED BY <1>2 DEF At

\* The delay is at most three shaping frames of at most six symbols.
LEMMA LateIs ==
  ASSUME p \in Params
  PROVE  p.S \in 3 .. 6 /\ p.ld \in 0 .. 3 /\ Late \in 0 .. 18 /\ FrameSize \in {2, 3, 6}
<1>1. p.S \in 3 .. 6 /\ p.ld \in 0 .. 3
  BY Valid
<1>2. FrameSize \in {2, 3, 6}
  BY <1>1, Geometry
<1> QED BY <1>1, <1>2 DEF Late

\* The new frame's magnitudes go in without overwriting those that still wait.
LEMMA RingHolds ==
  ASSUME p \in Params, NEW g \in Nat, NEW m, m.ptr = At(6 * g), DOMAIN m.ring = 0 .. RingBuf - 1,
         NEW frame
  PROVE  /\ \A i \in Symbols : NewRing(m, frame)[At(6 * g + i)] = Digits(frame)[i]
         /\ \A n \in Int : 6 * g - Late <= n /\ n < 6 * g => NewRing(m, frame)[At(n)] = m.ring[At(n)]
         /\ DOMAIN NewRing(m, frame) = 0 .. RingBuf - 1
         /\ \A i \in 0 .. RingBuf - 1 : \/ NewRing(m, frame)[i] = m.ring[i]
                                        \/ \E j \in Symbols : NewRing(m, frame)[i] = Digits(frame)[j]
<1> DEFINE a == 6 * g
<1>0. a \in Int
  OBVIOUS
<1> HIDE DEF a
<1>1. \A i \in Int : At(m.ptr + i) = At(a + i) /\ At(i) \in 0 .. RingBuf - 1
  BY <1>0, AtAdds DEF a
<1>5. \A j \in Symbols : /\ a + j \in Int /\ At(m.ptr + j) = At(a + j) /\ j \in Int
                           /\ At(a + j) \in 0 .. RingBuf - 1
  <2>1. \A j \in Symbols : j \in Int /\ a + j \in Int
    BY <1>0 DEF Symbols
  <2> QED BY <1>1, <2>1
<1>2. ASSUME NEW i \in Symbols
      PROVE  NewRing(m, frame)[At(a + i)] = Digits(frame)[i]
  <2>1. \A j \in Symbols : At(m.ptr + j) = At(a + i) <=> j = i
    <3> SUFFICES ASSUME NEW j \in Symbols, j # i PROVE At(a + j) # At(a + i)
      BY <1>5
    <3>1. a + j \in Int /\ a + i \in Int
      BY <1>0 DEF Symbols
    <3>2. CASE j < i
      BY <1>0, <3>1, <3>2, AtDiffers DEF Symbols
    <3>3. CASE i < j
      <4>1. At(a + i) # At(a + j)
        BY <1>0, <3>1, <3>3, AtDiffers DEF Symbols
      <4> QED BY <4>1
    <3> QED BY <3>2, <3>3 DEF Symbols
  <2>2. At(a + i) \in DOMAIN m.ring
    BY <1>5
  <2>3. (CHOOSE j \in Symbols : At(m.ptr + j) = At(a + i)) = i
    BY <2>1
  <2> QED BY <2>1, <2>2, <2>3 DEF NewRing
<1>3. ASSUME NEW n \in Int, a - Late <= n, n < a
      PROVE  NewRing(m, frame)[At(n)] = m.ring[At(n)]
  <2>1. \A j \in Symbols : At(m.ptr + j) # At(n)
    <3> SUFFICES ASSUME NEW j \in Symbols PROVE At(n) # At(a + j)
      BY <1>5
    <3>1. j \in 0 .. 5 /\ Late \in 0 .. 18
      BY LateIs DEF Symbols
    <3>2. a + j \in Int /\ n < a + j /\ (a + j) - n < 24
      BY <1>0, <1>3, <3>1
    <3> QED BY <3>2, AtDiffers
  <2>2. At(n) \in DOMAIN m.ring
    BY <1>1
  <2> QED BY <2>1, <2>2 DEF NewRing
<1>4. DOMAIN NewRing(m, frame) = 0 .. RingBuf - 1
  BY DEF NewRing
<1>6. ASSUME NEW i \in 0 .. RingBuf - 1
      PROVE  \/ NewRing(m, frame)[i] = m.ring[i]
             \/ \E j \in Symbols : NewRing(m, frame)[i] = Digits(frame)[j]
  BY DEF NewRing
<1> QED BY <1>2, <1>3, <1>4, <1>6 DEF a

\* The new frame's parts go in without overwriting those that still wait.
LEMMA PartsHold ==
  ASSUME p \in Params, NEW g \in Nat, NEW m, m.ptr = At(6 * g), DOMAIN m.pp = 0 .. RingBuf - 1,
         NEW bits
  PROVE  /\ \A h \in 1 .. Parts : NewParts(m, bits)[At(6 * g + (h - 1) * FrameSize)] = PartOf(bits, h)
         /\ \A n \in Int : 6 * g - Late <= n /\ n < 6 * g => NewParts(m, bits)[At(n)] = m.pp[At(n)]
         /\ DOMAIN NewParts(m, bits) = 0 .. RingBuf - 1
         /\ \A i \in 0 .. RingBuf - 1 : \/ NewParts(m, bits)[i] = m.pp[i]
                                        \/ \E h \in 1 .. Parts : NewParts(m, bits)[i] = PartOf(bits, h)
<1> DEFINE a == 6 * g
           at(h) == (h - 1) * FrameSize
<1>0. a \in Int
  OBVIOUS
<1> HIDE DEF a
<1>1. \A i \in Int : At(m.ptr + i) = At(a + i) /\ At(i) \in 0 .. RingBuf - 1
  BY <1>0, AtAdds DEF a
<1>2. /\ \A h \in 1 .. Parts : at(h) \in Symbols /\ at(h) \in Int
      /\ \A h, j \in 1 .. Parts : h < j => at(h) < at(j)
  <2>1. p.S \in 3 .. 6
    BY LateIs
  <2>2. \A h \in 1 .. Parts : at(h) \in Symbols
    BY <2>1, Geometry
  <2>3. \A h, j \in 1 .. Parts : h < j => at(h) < at(j)
    BY <2>1, Geometry
  <2> QED BY <2>2, <2>3 DEF Symbols
<1> HIDE DEF at
<1>7. \A h \in 1 .. Parts : /\ a + at(h) \in Int /\ At(m.ptr + at(h)) = At(a + at(h))
                            /\ At(a + at(h)) \in 0 .. RingBuf - 1
  <2>1. \A h \in 1 .. Parts : a + at(h) \in Int
    BY <1>0, <1>2
  <2> QED BY <1>1, <1>2, <2>1
<1>8. \A h \in 1 .. Parts : at(h) \in 0 .. 5
  BY <1>2 DEF Symbols
<1>9. \A h, j \in 1 .. Parts : h < j => At(a + at(h)) # At(a + at(j))
  <2> SUFFICES ASSUME NEW h \in 1 .. Parts, NEW j \in 1 .. Parts, h < j
               PROVE  At(a + at(h)) # At(a + at(j))
    OBVIOUS
  <2>1. at(h) < at(j) /\ at(h) \in 0 .. 5 /\ at(j) \in 0 .. 5
    BY <1>2, <1>8
  <2>2. a + at(h) \in Int /\ a + at(j) \in Int /\ a + at(h) < a + at(j) /\ (a + at(j)) - (a + at(h)) < 24
    <3>1. PICK x \in 0 .. 5, y \in 0 .. 5 : x = at(h) /\ y = at(j) /\ x < y
      BY <2>1
    <3>2. \A b, c \in 0 .. 5 : b < c => a + b \in Int /\ a + c \in Int /\ a + b < a + c
                                          /\ (a + c) - (a + b) < 24
      BY <1>0
    <3>3. a + x \in Int /\ a + y \in Int /\ a + x < a + y /\ (a + y) - (a + x) < 24
      BY <3>1, <3>2, Zenon
    <3> QED BY <3>1, <3>3
  <2> QED BY <2>2, AtDiffers
<1>3. ASSUME NEW h \in 1 .. Parts
      PROVE  NewParts(m, bits)[At(a + at(h))] = PartOf(bits, h)
  <2>1. \A j \in 1 .. Parts : At(m.ptr + at(j)) = At(a + at(h)) <=> j = h
    <3>1. ASSUME NEW j \in 1 .. Parts, j # h PROVE At(a + at(j)) # At(a + at(h))
      <4>1. j < h \/ h < j
        BY <3>1
      <4> QED BY <1>9, <4>1
    <3> QED BY <1>7, <3>1
  <2>2. At(a + at(h)) \in DOMAIN m.pp
    BY <1>7
  <2>3. (CHOOSE j \in 1 .. Parts : At(m.ptr + at(j)) = At(a + at(h))) = h
    BY <2>1
  <2> QED BY <2>1, <2>2, <2>3 DEF NewParts, at
<1>4. ASSUME NEW n \in Int, a - Late <= n, n < a
      PROVE  NewParts(m, bits)[At(n)] = m.pp[At(n)]
  <2>1. \A j \in 1 .. Parts : At(m.ptr + at(j)) # At(n)
    <3> SUFFICES ASSUME NEW j \in 1 .. Parts PROVE At(n) # At(a + at(j))
      BY <1>7
    <3>1. at(j) \in 0 .. 5 /\ Late \in 0 .. 18
      BY <1>8, LateIs
    <3>2. n < a + at(j) /\ (a + at(j)) - n < 24
      BY <1>0, <1>4, <3>1
    <3> QED BY <1>7, <3>2, AtDiffers
  <2>2. At(n) \in DOMAIN m.pp
    BY <1>1
  <2> QED BY <2>1, <2>2 DEF NewParts, at
<1>5. DOMAIN NewParts(m, bits) = 0 .. RingBuf - 1
  BY DEF NewParts
<1>6. ASSUME NEW i \in 0 .. RingBuf - 1
      PROVE  \/ NewParts(m, bits)[i] = m.pp[i]
             \/ \E h \in 1 .. Parts : NewParts(m, bits)[i] = PartOf(bits, h)
  BY DEF NewParts
<1> QED BY <1>3, <1>4, <1>5, <1>6 DEF a, at

-----------------------------------------------------------------------------
(* The history of a call, and one frame more of it. *)

\* The last sign bit of the frames before frame k.
Last(H, k) == IF k = 0 THEN 0 ELSE LastBit(H.b[k - 1])
\* The number of part h of the far end's frame k, counted from the first part signed.
Part(k, h) == Parts * k + h + p.ld
\* The sign of symbol i of the far end's frame k.
SignOf(H, k, i) == IF p.S = 6 THEN H.b[k][i] ELSE H.t[Part(k, 1 + i \div FrameSize)][i % FrameSize]

\* The frames up to g were encoded so: b the sign bits by frame, t and q the shaper's
\* signs and states by part, sym the symbols that went out, counted from the first one kept.
History(H, g) ==
  /\ H.t \in [Nat -> Signs] /\ H.q \in [Nat -> Bit] /\ H.b \in [Nat -> Signs]
  /\ \A k \in Nat : k < g => H.b[k] = SignBits(Given(k), Last(H, k))
  /\ \A r \in Nat : r <= Parts * g => H.q[r] = H.t[r][0]
  /\ \A k \in Nat, h \in 1 .. Parts :
       Part(k, h) <= Parts * g =>
         H.t[Part(k, h)] = Inverted(Inverted(H.t[Part(k, h) - 1], PartOf(H.b[k], h)),
                                    SignOp(H.q[Part(k, h)], H.q[Part(k, h) - 1]))
  /\ \A k \in Nat, i \in Symbols :
       6 * k + i + Late < 6 * g => H.sym[6 * k + i] = Mapped(Digits(Given(k))[i], SignOf(H, k, i))

\* History G says of what went before frame g what H says.
Continues(H, G, g) ==
  /\ \A k \in Nat : k < g => G.b[k] = H.b[k]
  /\ \A r \in Nat : r <= Parts * g => G.t[r] = H.t[r] /\ G.q[r] = H.q[r]
  /\ \A s \in Nat : s + Late < 6 * g => G.sym[s] = H.sym[s]

\* The mapper's ring, parts and last signs hold what the history says still waits.
Memory(m, H, g) ==
  /\ m.ptr = At(6 * g) /\ m.last = Last(H, g)
  /\ m.t = H.t[Parts * g] /\ m.q = H.q[Parts * g]
  /\ DOMAIN m.ring = 0 .. RingBuf - 1 /\ DOMAIN m.pp = 0 .. RingBuf - 1
  /\ \A i \in 0 .. RingBuf - 1 : m.ring[i] \in Int /\ m.pp[i] \in Signs /\ m.pp[i][0] = 0
  /\ \A k \in Nat, i \in Symbols :
       6 * k + i < 6 * g /\ 6 * g - Late <= 6 * k + i
         => m.ring[At(6 * k + i)] = Digits(Given(k))[i]
  /\ \A k \in Nat, h \in 1 .. Parts :
       6 * k + (h - 1) * FrameSize < 6 * g /\ 6 * g - Late <= 6 * k + (h - 1) * FrameSize
         => m.pp[At(6 * k + (h - 1) * FrameSize)] = PartOf(H.b[k], h)

\* A frame of the payload is signs and a value that fits.
LEMMA GivenIs ==
  ASSUME p \in Params, payload \in Payloads, NEW k \in Nat
  PROVE  Given(k).signs \in Signs /\ Given(k).value \in Nat /\ Given(k).value < 2 ^ p.K
<1>1. PICK R : R = [signs : [Symbols -> 0 .. 1], value : Nat]
  OBVIOUS
<1>2. payload \in Seq(R) /\ payload # <<>> /\ \A j \in 1 .. Len(payload) : payload[j].value < 2 ^ p.K
  BY <1>1, Sendable
<1>3. Len(payload) \in Nat \ {0}
  BY <1>2
<1>4. k % Len(payload) \in 0 .. Len(payload) - 1
  <2>1. PICK n \in Nat \ {0} : n = Len(payload)
    BY <1>3
  <2>2. k % n \in 0 .. n - 1
    <3>1. k \in Int
      OBVIOUS
    <3>2. \E q \in Int, r \in 0 .. n - 1 : k \div n = q /\ k % n = r /\ k = n * q + r
      BY <3>1, DivMod
    <3> QED BY <3>2
  <2> QED BY <2>1, <2>2
<1>5. PICK r \in 0 .. Len(payload) - 1 : r = k % Len(payload)
  BY <1>4
<1>6. Given(k) = payload[1 + r] /\ 1 + r \in 1 .. Len(payload)
  BY <1>3, <1>5 DEF Given
<1>7. Given(k) \in R /\ Given(k).value < 2 ^ p.K
  BY <1>2, <1>6
<1> QED BY <1>1, <1>7 DEF Signs, Bit

\* A frame's bits in parts: zero first in each.
LEMMA PartBits ==
  ASSUME p \in Params, NEW bits \in Signs, \A i \in Symbols \ DataSymbols : bits[i] = 0, NEW h \in 1 .. Parts
  PROVE  PartOf(bits, h) \in Signs /\ PartOf(bits, h)[0] = 0
<1>1. \/ Parts = 1 /\ FrameSize = 6
      \/ Parts = 2 /\ FrameSize = 3
      \/ Parts = 3 /\ FrameSize = 2
  BY LateIs, Geometry
<1>2. (h - 1) * FrameSize \in Symbols \ DataSymbols
  BY LateIs, Geometry
<1>3. PartOf(bits, h)[0] = bits[(h - 1) * FrameSize]
  BY <1>1, <1>2 DEF PartOf, Symbols
<1>4. \A i \in Symbols : (IF i < FrameSize THEN bits[(h - 1) * FrameSize + i] ELSE 0) \in Bit
  BY <1>1 DEF Signs, Symbols, Bit
<1> QED BY <1>2, <1>3, <1>4 DEF PartOf, Signs

\* The sign bits of the next frame are bits, zero where no data is carried.
LEMMA BitsOf ==
  ASSUME p \in Params, payload \in Payloads, NEW H, NEW g \in Nat, History(H, g)
  PROVE  /\ Last(H, g) \in Bit
         /\ SignBits(Given(g), Last(H, g)) \in Signs
         /\ \A i \in Symbols \ DataSymbols : SignBits(Given(g), Last(H, g))[i] = 0
         /\ LastBit(SignBits(Given(g), Last(H, g))) \in Bit
<1>1. \A bits \in Signs : LastBit(bits) \in Bit
  BY LateIs, Carriers DEF LastBit, Signs
<1>2. Last(H, g) \in Bit
  BY <1>1 DEF Last, History, Bit
<1>3. Given(g).signs \in Signs
  BY GivenIs
<1>4. /\ SignBits(Given(g), Last(H, g)) \in Signs
      /\ \A i \in Symbols \ DataSymbols : SignBits(Given(g), Last(H, g))[i] = 0
  BY <1>2, <1>3, LateIs, SignBitsAre
<1> QED BY <1>1, <1>2, <1>4

(* Symbols and parts: six symbols are Parts parts of FrameSize symbols, and *)
(* Late symbols are ld parts.                                              *)
LEMMA Grid ==
  ASSUME p \in Params, p.S # 6, NEW k \in Nat, NEW g \in Nat
  PROVE  /\ Parts * g \in Nat /\ Parts * (g + 1) = Parts * g + Parts
         /\ \A h \in 1 .. Parts : Part(k, h) \in Nat /\ Part(k, h) - 1 \in Nat
         /\ \A h \in 1 .. Parts : Part(k, h) <= Parts * g => k < g
         /\ \A h \in 1 .. Parts : Part(k, h) <= Parts * g + Parts /\ ~(Part(k, h) <= Parts * g)
              => \E x \in 1 .. Parts : Part(k, h) = Parts * g + x
         /\ \A j, h \in 1 .. Parts : Part(k, j) = Parts * g + h
              => 6 * k + (j - 1) * FrameSize = 6 * g + (h - 1) * FrameSize - Late
         /\ \A i \in Symbols : /\ 1 + i \div FrameSize \in 1 .. Parts
                               /\ i % FrameSize \in Symbols /\ i % FrameSize < FrameSize
                               /\ 6 * k + i + Late < 6 * g => Part(k, 1 + i \div FrameSize) <= Parts * g
         /\ \A i, x \in Symbols : 6 * k + i + Late = 6 * g + x
              => /\ i % FrameSize = x % FrameSize
                 /\ Part(k, 1 + i \div FrameSize) = Parts * g + (1 + x \div FrameSize)
<1>1. \/ Parts = 1 /\ FrameSize = 6
      \/ Parts = 2 /\ FrameSize = 3
      \/ Parts = 3 /\ FrameSize = 2
  BY LateIs, Geometry
<1>2. PICK l \in 0 .. 3 : l = p.ld
  BY LateIs
<1>3. \A i \in Symbols : \E h \in 1 .. Parts, y \in 0 .. FrameSize - 1 :
        i = (h - 1) * FrameSize + y /\ i \div FrameSize = h - 1 /\ i % FrameSize = y
  <2> SUFFICES ASSUME NEW i \in 0 .. 5
               PROVE  \E h \in 1 .. Parts, y \in 0 .. FrameSize - 1 :
                        i = (h - 1) * FrameSize + y /\ i \div FrameSize = h - 1 /\ i % FrameSize = y
    BY DEF Symbols
  <2> DEFINE x == i \div FrameSize
             y == i % FrameSize
  <2>1. x \in Int /\ x + 1 \in 1 .. Parts /\ y \in 0 .. FrameSize - 1 /\ i = x * FrameSize + y
    <3>1. CASE Parts = 1 /\ FrameSize = 6
      BY <3>1
    <3>2. CASE Parts = 2 /\ FrameSize = 3
      BY <3>2
    <3>3. CASE Parts = 3 /\ FrameSize = 2
      BY <3>3
    <3> QED BY <1>1, <3>1, <3>2, <3>3
  <2>2. (x + 1) - 1 = x
    BY <2>1
  <2> QED BY <2>1, <2>2, Zenon
<1>4. ASSUME NEW n \in 1 .. 3, NEW f \in {2, 3, 6}, (n = 1 /\ f = 6) \/ (n = 2 /\ f = 3) \/ (n = 3 /\ f = 2)
      PROVE  /\ n * g \in Nat /\ n * (g + 1) = n * g + n /\ n * k \in Nat
             /\ \A h \in 1 .. n : n * k + h + l <= n * g => k < g
             /\ \A j, h \in 1 .. n : n * k + j + l = n * g + h
                  => 6 * k + (j - 1) * f = 6 * g + (h - 1) * f - f * l
             /\ \A j \in 1 .. n, y \in 0 .. f - 1 :
                  6 * k + ((j - 1) * f + y) + f * l < 6 * g => n * k + j + l <= n * g
             /\ \A j, h \in 1 .. n, y, z \in 0 .. f - 1 :
                  6 * k + ((j - 1) * f + y) + f * l = 6 * g + ((h - 1) * f + z)
                    => y = z /\ n * k + j + l = n * g + h
  <2>1. CASE n = 1 /\ f = 6
    <3>1. n * g = g /\ n * (g + 1) = g + 1 /\ n * k = k
      BY <2>1
    <3>2. \A j, h \in 1 .. n : j = 1 /\ h = 1 /\ (j - 1) * f = 0 /\ (h - 1) * f = 0
      BY <2>1
    <3>3. f * l = 6 * l
      BY <2>1
    <3> QED BY <2>1, <3>1, <3>2, <3>3
  <2>2. CASE n = 2 /\ f = 3
    BY <2>2
  <2>3. CASE n = 3 /\ f = 2
    BY <2>3
  <2> QED BY <1>4, <2>1, <2>2, <2>3
<1>5. Late = FrameSize * l /\ \A h : Part(k, h) = Parts * k + h + l
  BY <1>2 DEF Late, Part
<1>6. /\ Parts * g \in Nat /\ Parts * (g + 1) = Parts * g + Parts
      /\ \A h \in 1 .. Parts : Part(k, h) \in Nat /\ Part(k, h) - 1 \in Nat
      /\ \A h \in 1 .. Parts : Part(k, h) <= Parts * g => k < g
      /\ \A j, h \in 1 .. Parts : Part(k, j) = Parts * g + h
           => 6 * k + (j - 1) * FrameSize = 6 * g + (h - 1) * FrameSize - Late
  <2>1. Parts \in 1 .. 3 /\ FrameSize \in {2, 3, 6}
    BY <1>1
  <2>2. /\ Parts * g \in Nat /\ Parts * (g + 1) = Parts * g + Parts /\ Parts * k \in Nat
        /\ \A h \in 1 .. Parts : Parts * k + h + l <= Parts * g => k < g
        /\ \A j, h \in 1 .. Parts : Parts * k + j + l = Parts * g + h
             => 6 * k + (j - 1) * FrameSize = 6 * g + (h - 1) * FrameSize - FrameSize * l
    BY <1>1, <1>4, <2>1
  <2>3. \A h \in 1 .. Parts : Parts * k + h + l \in Nat /\ (Parts * k + h + l) - 1 \in Nat
    BY <2>1, <2>2
  <2>4. \A h \in 1 .. Parts : Part(k, h) \in Nat /\ Part(k, h) - 1 \in Nat
    BY <1>5, <2>3, Zenon
  <2>5. \A h \in 1 .. Parts : Part(k, h) <= Parts * g => k < g
    BY <1>5, <2>2, Zenon
  <2>6. ASSUME NEW j \in 1 .. Parts, NEW h \in 1 .. Parts, Part(k, j) = Parts * g + h
        PROVE  6 * k + (j - 1) * FrameSize = 6 * g + (h - 1) * FrameSize - Late
    <3>1. Parts * k + j + l = Parts * g + h
      BY <1>5, <2>6, Zenon
    <3>2. 6 * k + (j - 1) * FrameSize = 6 * g + (h - 1) * FrameSize - FrameSize * l
      BY <2>2, <3>1, Zenon
    <3> QED BY <1>5, <3>2, Zenon
  <2> QED BY <2>2, <2>4, <2>5, <2>6
<1>7. \A h \in 1 .. Parts : Part(k, h) <= Parts * g + Parts /\ ~(Part(k, h) <= Parts * g)
        => \E x \in 1 .. Parts : Part(k, h) = Parts * g + x
  <2> SUFFICES ASSUME NEW h \in 1 .. Parts, Part(k, h) <= Parts * g + Parts, ~(Part(k, h) <= Parts * g)
               PROVE  \E x \in 1 .. Parts : Part(k, h) = Parts * g + x
    OBVIOUS
  <2>1. PICK a \in Nat, b \in Nat, n \in 1 .. 3 : a = Part(k, h) /\ b = Parts * g /\ n = Parts
    BY <1>1, <1>6
  <2>2. a - b \in 1 .. n /\ a = b + (a - b)
    BY <2>1
  <2> QED BY <2>1, <2>2
<1>8. ASSUME NEW i \in Symbols
      PROVE  /\ 1 + i \div FrameSize \in 1 .. Parts
             /\ i % FrameSize \in Symbols /\ i % FrameSize < FrameSize
             /\ 6 * k + i + Late < 6 * g => Part(k, 1 + i \div FrameSize) <= Parts * g
  <2>1. PICK h \in 1 .. Parts, y \in 0 .. FrameSize - 1 :
          i = (h - 1) * FrameSize + y /\ i \div FrameSize = h - 1 /\ i % FrameSize = y
    BY <1>3
  <2>2. 1 + i \div FrameSize = h
    BY <1>1, <2>1
  <2>3. y \in Symbols /\ y < FrameSize
    BY <1>1 DEF Symbols
  <2>4. 6 * k + ((h - 1) * FrameSize + y) + FrameSize * l < 6 * g => Parts * k + h + l <= Parts * g
    BY <1>1, <1>4
  <2> QED BY <1>5, <2>1, <2>2, <2>3, <2>4
<1>9. ASSUME NEW i \in Symbols, NEW x \in Symbols, 6 * k + i + Late = 6 * g + x
      PROVE  /\ i % FrameSize = x % FrameSize
             /\ Part(k, 1 + i \div FrameSize) = Parts * g + (1 + x \div FrameSize)
  <2>1. PICK j \in 1 .. Parts, y \in 0 .. FrameSize - 1 :
          i = (j - 1) * FrameSize + y /\ i \div FrameSize = j - 1 /\ i % FrameSize = y
    BY <1>3
  <2>2. PICK h \in 1 .. Parts, z \in 0 .. FrameSize - 1 :
          x = (h - 1) * FrameSize + z /\ x \div FrameSize = h - 1 /\ x % FrameSize = z
    BY <1>3
  <2>3. 1 + i \div FrameSize = j /\ 1 + x \div FrameSize = h
    BY <1>1, <2>1, <2>2
  <2>4. PICK n \in 1 .. 3, f \in {2, 3, 6} : n = Parts /\ f = FrameSize
    BY <1>1
  <2>5. 6 * k + ((j - 1) * f + y) + f * l = 6 * g + ((h - 1) * f + z)
    BY <1>5, <1>9, <2>1, <2>2, <2>4
  <2>6. /\ (n = 1 /\ f = 6) \/ (n = 2 /\ f = 3) \/ (n = 3 /\ f = 2)
        /\ j \in 1 .. n /\ h \in 1 .. n /\ y \in 0 .. f - 1 /\ z \in 0 .. f - 1
    BY <1>1, <2>4
  <2>7. y = z /\ n * k + j + l = n * g + h
    BY <1>4, <2>5, <2>6
  <2>8. y = z /\ Parts * k + j + l = Parts * g + h
    BY <2>4, <2>7
  <2> QED BY <1>5, <2>1, <2>2, <2>3, <2>8
<1> QED BY <1>6, <1>7, <1>8, <1>9

\* Each part that Encode sends is its bits, turned by the part before and by the shaper's step.
LEMMA TurnsAre ==
  ASSUME Parts \in 0 .. 3, NEW m, m.t \in Signs, m.q \in Bit, m.q = m.t[0],
         NEW pp, \A h \in 1 .. Parts : pp[Shaped(m.ptr, h)] \in Signs /\ pp[Shaped(m.ptr, h)][0] = 0,
         NEW path \in Paths
  PROVE  LET q == ShaperStates(m, path)
             t == SentSigns(m, pp, q)
         IN  /\ t[0] = m.t /\ q[0] = m.q
             /\ \A h \in 0 .. Parts : t[h] \in Signs /\ q[h] \in Bit /\ q[h] = t[h][0]
             /\ \A h \in 1 .. Parts :
                  t[h] = Inverted(Inverted(t[h - 1], pp[Shaped(m.ptr, h)]), SignOp(q[h], q[h - 1]))
<1> DEFINE q == ShaperStates(m, path)
           t == SentSigns(m, pp, q)
           part(h) == pp[Shaped(m.ptr, h)]
<1>1. Turns(m, pp, q, t)
  BY SentSignsAre
<1>2. /\ t[0] = m.t
      /\ \A h \in 1 .. Parts : t[h] = Inverted(Inverted(t[h - 1], part(h)), SignOp(q[h], q[h - 1]))
  <2>1. /\ 0 \in 0 .. Parts
        /\ \A h \in 1 .. Parts : h \in 0 .. Parts /\ h # 0
    OBVIOUS
  <2> HIDE DEF q, t
  <2> QED BY <1>1, <2>1 DEF Turns
<1>3. \A h \in 0 .. Parts : q[h] \in Bit
  BY DEF ShaperStates, Paths, Bit
<1>4. q[0] = m.q
  BY DEF ShaperStates
<1> HIDE DEF q, t
<1>5. ASSUME NEW h \in 1 .. Parts, t[h - 1] \in Signs, q[h - 1] = t[h - 1][0]
      PROVE  t[h] \in Signs /\ q[h] = t[h][0]
  <2> DEFINE op == SignOp(q[h], q[h - 1])
             turned == Inverted(t[h - 1], part(h))
  <2>1. h - 1 \in 0 .. Parts /\ h \in 0 .. Parts
    OBVIOUS
  <2>2. q[h] \in Bit /\ q[h - 1] \in Bit
    BY <1>3, <2>1
  <2>3. op \in Signs /\ op[0] = Xor(q[h], q[h - 1])
    BY <2>2, SignOpBits
  <2>4. part(h) \in Signs /\ part(h)[0] = 0
    OBVIOUS
  <2>5. turned \in Signs /\ turned[0] = Xor(t[h - 1][0], 0)
    BY <1>5, <2>4, InvertedBits DEF Symbols
  <2>6. t[h] = Inverted(turned, op)
    BY <1>2
  <2>7. t[h] \in Signs /\ t[h][0] = Xor(turned[0], op[0])
    BY <2>3, <2>5, <2>6, InvertedBits DEF Symbols
  <2>8. \A a, b \in Bit : Xor(Xor(a, 0), Xor(b, a)) = b
    BY XorBits DEF Bit
  <2> QED BY <1>5, <2>2, <2>3, <2>5, <2>7, <2>8
<1>6. t[0] \in Signs /\ q[0] = t[0][0]
  BY <1>2, <1>4
<1>7. Parts >= 1 => t[1] \in Signs /\ q[1] = t[1][0]
  <2> SUFFICES ASSUME Parts >= 1 PROVE t[1] \in Signs /\ q[1] = t[1][0]
    OBVIOUS
  <2>1. 1 \in 1 .. Parts /\ 1 - 1 = 0
    OBVIOUS
  <2> QED BY <1>5, <1>6, <2>1
<1>8. Parts >= 2 => t[2] \in Signs /\ q[2] = t[2][0]
  <2> SUFFICES ASSUME Parts >= 2 PROVE t[2] \in Signs /\ q[2] = t[2][0]
    OBVIOUS
  <2>1. 2 \in 1 .. Parts /\ 2 - 1 = 1 /\ Parts >= 1
    OBVIOUS
  <2> QED BY <1>5, <1>7, <2>1
<1>9. Parts >= 3 => t[3] \in Signs /\ q[3] = t[3][0]
  <2> SUFFICES ASSUME Parts >= 3 PROVE t[3] \in Signs /\ q[3] = t[3][0]
    OBVIOUS
  <2>1. 3 \in 1 .. Parts /\ 3 - 1 = 2 /\ Parts >= 2
    OBVIOUS
  <2> QED BY <1>5, <1>8, <2>1
<1>10. ASSUME NEW h \in 0 .. Parts PROVE t[h] \in Signs /\ q[h] = t[h][0]
  <2>1. h = 0 \/ (h = 1 /\ Parts >= 1) \/ (h = 2 /\ Parts >= 2) \/ (h = 3 /\ Parts >= 3)
    OBVIOUS
  <2> QED BY <1>6, <1>7, <1>8, <1>9, <2>1
<1>11. \A h \in 1 .. Parts :
         t[h] = Inverted(Inverted(t[h - 1], pp[Shaped(m.ptr, h)]), SignOp(q[h], q[h - 1]))
  BY <1>2
<1> QED BY <1>2, <1>3, <1>4, <1>10, <1>11 DEF q, t

\* The parts of g frames.
LEMMA PartCount ==
  ASSUME p \in Params, NEW g \in Nat
  PROVE  Parts \in 0 .. 3 /\ Parts * g \in Nat /\ Parts * (g + 1) = Parts * g + Parts
<1>1. CASE p.S = 6
  <2>1. Parts = 0
    BY <1>1 DEF Parts
  <2>2. 0 * g = 0 /\ 0 * (g + 1) = 0
    OBVIOUS
  <2> QED BY <2>1, <2>2
<1>2. CASE p.S # 6
  <2>1. Parts \in 0 .. 3
    BY LateIs DEF Parts
  <2> QED BY <1>2, <2>1, Grid
<1> QED BY <1>1, <1>2

\* The part that is signed as part h of frame g goes in.
LEMMA PartWaits ==
  ASSUME p \in Params, NEW g \in Nat, NEW H, NEW m, Memory(m, H, g), NEW bits,
         NEW k \in Nat, NEW j \in 1 .. Parts, NEW h \in 1 .. Parts, Part(k, j) = Parts * g + h
  PROVE  /\ k <= g
         /\ NewParts(m, bits)[Shaped(m.ptr, h)] = PartOf(IF k = g THEN bits ELSE H.b[k], j)
<1>1. p.S # 6
  BY DEF Parts
<1>2. (j - 1) * FrameSize \in 0 .. 5 /\ (h - 1) * FrameSize \in 0 .. 5
  BY LateIs, Geometry DEF Symbols
<1>3. PICK y \in 0 .. 5, x \in 0 .. 5 : y = (j - 1) * FrameSize /\ x = (h - 1) * FrameSize
  BY <1>2
<1>4. 6 * k + y = 6 * g + x - Late
  BY <1>1, <1>3, Grid
<1>5. Late \in 0 .. 18 /\ k <= g
  <2>1. Late \in 0 .. 18
    BY LateIs
  <2> QED BY <1>4, <2>1
<1>6. Shaped(m.ptr, h) = At(6 * k + y)
  <2>1. Shaped(m.ptr, h) = At(At(6 * g) + (x - Late))
    BY <1>3 DEF Shaped, Memory
  <2>2. 6 * g \in Int /\ x - Late \in Int
    BY <1>5
  <2>3. At(At(6 * g) + (x - Late)) = At(6 * g + (x - Late))
    BY <2>2, AtAdds
  <2>4. 6 * g + (x - Late) = 6 * k + y
    BY <1>4, <1>5
  <2> QED BY <2>1, <2>3, <2>4
<1>7. CASE k = g
  <2>1. NewParts(m, bits)[At(6 * g + (j - 1) * FrameSize)] = PartOf(bits, j)
    BY PartsHold DEF Memory
  <2> QED BY <1>3, <1>5, <1>6, <1>7, <2>1
<1>8. CASE k < g
  <2>1. 6 * k + y \in Int /\ 6 * g - Late <= 6 * k + y /\ 6 * k + y < 6 * g
    BY <1>4, <1>5, <1>8
  <2>2. NewParts(m, bits)[At(6 * k + y)] = m.pp[At(6 * k + y)]
    BY <2>1, PartsHold DEF Memory
  <2>3. m.pp[At(6 * k + y)] = PartOf(H.b[k], j)
    BY <1>3, <2>1 DEF Memory
  <2> QED BY <1>5, <1>6, <1>8, <2>2, <2>3
<1> QED BY <1>5, <1>7, <1>8

\* The magnitude that goes out as symbol x of frame g goes in.
LEMMA MagnitudeWaits ==
  ASSUME p \in Params, NEW g \in Nat, NEW H, NEW m, Memory(m, H, g),
         NEW k \in Nat, NEW i \in Symbols, NEW x \in Symbols, 6 * k + i + Late = 6 * g + x
  PROVE  /\ k <= g
         /\ NewRing(m, Given(g))[At((m.ptr - Late) + x)] = Digits(Given(k))[i]
<1>1. Late \in 0 .. 18 /\ i \in 0 .. 5 /\ x \in 0 .. 5
  BY LateIs DEF Symbols
<1>2. k <= g /\ 6 * k + i = 6 * g + (x - Late)
  BY <1>1
<1>3. At((m.ptr - Late) + x) = At(6 * k + i)
  <2>1. 6 * g \in Int /\ x - Late \in Int /\ m.ptr = At(6 * g)
    BY <1>1 DEF Memory
  <2>2. At(At(6 * g) + (x - Late)) = At(6 * g + (x - Late)) /\ At(6 * g) \in 0 .. RingBuf - 1
    BY <2>1, AtAdds
  <2>3. \A a \in 0 .. RingBuf - 1 : (a - Late) + x = a + (x - Late)
    BY <1>1, RingIsDeep
  <2> QED BY <1>2, <2>1, <2>2, <2>3
<1>4. CASE k = g
  <2>1. NewRing(m, Given(g))[At(6 * g + i)] = Digits(Given(g))[i]
    BY RingHolds DEF Memory
  <2> QED BY <1>2, <1>3, <1>4, <2>1
<1>5. CASE k < g
  <2>1. 6 * k + i \in Int /\ 6 * g - Late <= 6 * k + i /\ 6 * k + i < 6 * g
    BY <1>1, <1>2, <1>5
  <2>2. NewRing(m, Given(g))[At(6 * k + i)] = m.ring[At(6 * k + i)]
    BY <2>1, RingHolds DEF Memory
  <2>3. m.ring[At(6 * k + i)] = Digits(Given(k))[i]
    BY <2>1 DEF Memory
  <2> QED BY <1>2, <1>3, <2>2, <2>3
<1> QED BY <1>2, <1>4, <1>5

\* What is in the memories is of its kind.
LEMMA MemoryTypes ==
  ASSUME p \in Params, payload \in Payloads, NEW g \in Nat, NEW H, History(H, g), NEW m, Memory(m, H, g)
  PROVE  LET bits == SignBits(Given(g), m.last)
         IN  /\ \A i \in 0 .. RingBuf - 1 : /\ NewRing(m, Given(g))[i] \in Int
                                            /\ NewParts(m, bits)[i] \in Signs /\ NewParts(m, bits)[i][0] = 0
             /\ DOMAIN NewRing(m, Given(g)) = 0 .. RingBuf - 1 /\ DOMAIN NewParts(m, bits) = 0 .. RingBuf - 1
             /\ \A h \in Int : Shaped(m.ptr, h) \in 0 .. RingBuf - 1
             /\ \A x \in Symbols : At((m.ptr - Late) + x) \in 0 .. RingBuf - 1
<1> DEFINE bits == SignBits(Given(g), m.last)
<1>1. m.last = Last(H, g) /\ m.ptr = At(6 * g) /\ DOMAIN m.ring = 0 .. RingBuf - 1
      /\ DOMAIN m.pp = 0 .. RingBuf - 1
      /\ \A i \in 0 .. RingBuf - 1 : m.ring[i] \in Int /\ m.pp[i] \in Signs /\ m.pp[i][0] = 0
  BY DEF Memory
<1>2. bits \in Signs /\ \A i \in Symbols \ DataSymbols : bits[i] = 0
  BY <1>1, BitsOf
<1> HIDE DEF bits
<1>3. \A i \in 0 .. RingBuf - 1 : NewParts(m, bits)[i] \in Signs /\ NewParts(m, bits)[i][0] = 0
  <2>1. \A h \in 1 .. Parts : PartOf(bits, h) \in Signs /\ PartOf(bits, h)[0] = 0
    BY <1>2, PartBits
  <2>2. \A i \in 0 .. RingBuf - 1 : \/ NewParts(m, bits)[i] = m.pp[i]
                                    \/ \E h \in 1 .. Parts : NewParts(m, bits)[i] = PartOf(bits, h)
    BY <1>1, PartsHold
  <2> QED BY <1>1, <2>1, <2>2
<1>4. \A i \in 0 .. RingBuf - 1 : NewRing(m, Given(g))[i] \in Int
  <2>1. Given(g).value \in Nat
    BY GivenIs
  <2>2. \A j \in Symbols : Digits(Given(g))[j] \in Int
    BY <2>1, DigitsAre
  <2>3. \A i \in 0 .. RingBuf - 1 : \/ NewRing(m, Given(g))[i] = m.ring[i]
                                    \/ \E j \in Symbols : NewRing(m, Given(g))[i] = Digits(Given(g))[j]
    BY <1>1, RingHolds
  <2> QED BY <1>1, <2>2, <2>3
<1>5. DOMAIN NewRing(m, Given(g)) = 0 .. RingBuf - 1 /\ DOMAIN NewParts(m, bits) = 0 .. RingBuf - 1
  BY <1>1, RingHolds, PartsHold
<1>6. Late \in Int /\ FrameSize \in Int /\ m.ptr \in Int
  <2>1. 6 * g \in Int
    OBVIOUS
  <2>2. At(6 * g) \in 0 .. RingBuf - 1
    BY <2>1, AtAdds
  <2>3. At(6 * g) \in Int
    BY <2>2, RingIsDeep
  <2>4. Late \in Int /\ FrameSize \in Int
    BY LateIs
  <2> QED BY <1>1, <2>3, <2>4
<1>7. \A a \in Int : At(a) \in 0 .. RingBuf - 1
  BY AtAdds
<1>8. ASSUME NEW h \in Int PROVE Shaped(m.ptr, h) \in 0 .. RingBuf - 1
  <2>1. m.ptr + (h - 1) * FrameSize - Late \in Int
    <3>1. (h - 1) * FrameSize \in Int
      BY <1>6
    <3> QED BY <1>6, <3>1
  <2> QED BY <1>7, <2>1 DEF Shaped
<1>9. ASSUME NEW x \in Symbols PROVE At((m.ptr - Late) + x) \in 0 .. RingBuf - 1
  <2>1. (m.ptr - Late) + x \in Int
    BY <1>6 DEF Symbols
  <2> QED BY <1>7, <2>1
<1> QED BY <1>3, <1>4, <1>5, <1>8, <1>9 DEF bits

\* A symbol on the line.
Item == [kind : {"training", "mapped"}, mag : Int, sign : Bit]
\* The history with frame g, of these bits, signs and states, and what went out.
Extended(H, g, bits, t, q, out) ==
  [b |-> [k \in Nat |-> IF k = g THEN bits ELSE H.b[k]],
   t |-> [r \in Nat |-> IF Parts * g < r /\ r <= Parts * g + Parts THEN t[r - Parts * g] ELSE H.t[r]],
   q |-> [r \in Nat |-> IF Parts * g < r /\ r <= Parts * g + Parts THEN q[r - Parts * g] ELSE H.q[r]],
   sym |-> [s \in Nat |-> IF 6 * g <= s + Late /\ s + Late < 6 * g + 6
                          THEN out[s + Late - 6 * g + 1] ELSE H.sym[s]]]
\* What the shaper does in a frame.
Shaping(m, pp, t, q) ==
  /\ t[0] = m.t /\ q[0] = m.q
  /\ \A h \in 0 .. Parts : t[h] \in Signs /\ q[h] \in Bit /\ q[h] = t[h][0]
  /\ \A h \in 1 .. Parts :
       t[h] = Inverted(Inverted(t[h - 1], pp[Shaped(m.ptr, h)]), SignOp(q[h], q[h - 1]))

\* The extended history continues the old one and holds the frame's bits, parts and symbols.
LEMMA ExtendedIs ==
  ASSUME p \in Params, NEW g \in Nat, NEW H, History(H, g), NEW m, Memory(m, H, g), NEW bits \in Signs,
         NEW pp, NEW t, NEW q, NEW out, Shaping(m, pp, t, q)
  PROVE  LET G == Extended(H, g, bits, t, q, out)
         IN  /\ Continues(H, G, g)
             /\ G.t \in [Nat -> Signs] /\ G.q \in [Nat -> Bit] /\ G.b \in [Nat -> Signs]
             /\ G.b[g] = bits
             /\ \A h \in 0 .. Parts : G.t[Parts * g + h] = t[h] /\ G.q[Parts * g + h] = q[h]
             /\ \A x \in Symbols : Late <= 6 * g + x => G.sym[6 * g + x - Late] = out[x + 1]
<1> DEFINE G == Extended(H, g, bits, t, q, out)
<1>1. PICK n \in 0 .. 3, c \in Nat : n = Parts /\ c = Parts * g
  BY PartCount
<1>2. PICK l \in 0 .. 18 : l = Late
  BY LateIs
<1>3. /\ G.b = [k \in Nat |-> IF k = g THEN bits ELSE H.b[k]]
      /\ G.t = [r \in Nat |-> IF c < r /\ r <= c + n THEN t[r - c] ELSE H.t[r]]
      /\ G.q = [r \in Nat |-> IF c < r /\ r <= c + n THEN q[r - c] ELSE H.q[r]]
      /\ G.sym = [s \in Nat |-> IF 6 * g <= s + l /\ s + l < 6 * g + 6
                                THEN out[s + l - 6 * g + 1] ELSE H.sym[s]]
  BY <1>1, <1>2 DEF Extended
<1> HIDE DEF G
<1>4. /\ H.t \in [Nat -> Signs] /\ H.q \in [Nat -> Bit] /\ H.b \in [Nat -> Signs]
  BY DEF History
<1>5. /\ t[0] = H.t[c] /\ q[0] = H.q[c]
      /\ \A h \in 0 .. n : t[h] \in Signs /\ q[h] \in Bit
  BY <1>1 DEF Memory, Shaping
<1>6. Continues(H, G, g)
  <2>1. \A k \in Nat : k < g => G.b[k] = H.b[k]
    BY <1>3
  <2>2. \A r \in Nat : r <= c => G.t[r] = H.t[r] /\ G.q[r] = H.q[r]
    BY <1>3
  <2>3. \A s \in Nat : s + l < 6 * g => G.sym[s] = H.sym[s]
    BY <1>3
  <2> QED BY <1>1, <1>2, <2>1, <2>2, <2>3 DEF Continues
<1>7. G.b \in [Nat -> Signs]
  BY <1>3, <1>4
<1>8. \A r \in Nat : c < r /\ r <= c + n => r - c \in 0 .. n
  OBVIOUS
<1>9. G.t \in [Nat -> Signs]
  <2>1. \A r \in Nat : (IF c < r /\ r <= c + n THEN t[r - c] ELSE H.t[r]) \in Signs
    BY <1>4, <1>5, <1>8
  <2> QED BY <1>3, <2>1
<1>10. G.q \in [Nat -> Bit]
  <2>1. \A r \in Nat : (IF c < r /\ r <= c + n THEN q[r - c] ELSE H.q[r]) \in Bit
    BY <1>4, <1>5, <1>8
  <2> QED BY <1>3, <2>1
<1>11. ASSUME NEW h \in 0 .. n PROVE G.t[c + h] = t[h] /\ G.q[c + h] = q[h]
  <2>1. CASE h = 0
    <3>1. c + h = c
      BY <2>1
    <3>2. G.t[c] = H.t[c] /\ G.q[c] = H.q[c]
      BY <1>3
    <3> QED BY <1>5, <2>1, <3>1, <3>2
  <2>2. CASE h # 0
    <3>1. c + h \in Nat /\ c < c + h /\ c + h <= c + n /\ (c + h) - c = h
      BY <2>2
    <3> QED BY <1>3, <3>1
  <2> QED BY <2>1, <2>2
<1>12. ASSUME NEW x \in Symbols, l <= 6 * g + x PROVE G.sym[6 * g + x - l] = out[x + 1]
  <2>0. x \in 0 .. 5
    BY DEF Symbols
  <2>1. PICK s \in Nat : s = 6 * g + x - l
    BY <1>12, <2>0
  <2>2. 6 * g <= s + l /\ s + l < 6 * g + 6 /\ s + l - 6 * g + 1 = x + 1
    BY <2>0, <2>1
  <2> QED BY <1>3, <2>1, <2>2
<1>13. G.b[g] = bits
  BY <1>3
<1> QED BY <1>1, <1>2, <1>6, <1>7, <1>9, <1>10, <1>11, <1>12, <1>13 DEF G

\* The six symbols that go out as a frame goes in.
Sent(m, frame, bits, t) ==
  [i \in 1 .. 6 |-> Mapped(NewRing(m, frame)[At((m.ptr - Late) + (i - 1))], SentSign(bits, t, i - 1))]

\* Grid's last conclusion, for one pair of symbols.
LEMMA GridSymbols ==
  ASSUME p \in Params, p.S # 6, NEW k \in Nat, NEW g \in Nat, NEW i \in Symbols, NEW x \in Symbols,
         6 * k + i + Late = 6 * g + x
  PROVE  /\ i % FrameSize = x % FrameSize
         /\ Part(k, 1 + i \div FrameSize) = Parts * g + (1 + x \div FrameSize)
<1>1. \A y, z \in Symbols : 6 * k + y + Late = 6 * g + z
        => /\ y % FrameSize = z % FrameSize
           /\ Part(k, 1 + y \div FrameSize) = Parts * g + (1 + z \div FrameSize)
  BY Grid, Zenon
<1> QED BY <1>1, Zenon

\* Encode keeps the history: its frame, signed as it goes out, is the next one of it.
LEMMA HistoryGrows ==
  ASSUME p \in Params, payload \in Payloads, p.S = 6 => p.ld = 0,
         NEW g \in Nat, NEW H, History(H, g), NEW m, Memory(m, H, g),
         NEW bits \in Signs, bits = SignBits(Given(g), m.last), NEW t, NEW q,
         Shaping(m, NewParts(m, bits), t, q)
  PROVE  History(Extended(H, g, bits, t, q, Sent(m, Given(g), bits, t)), g + 1)
<1> DEFINE G == Extended(H, g, bits, t, q, Sent(m, Given(g), bits, t))
           out == Sent(m, Given(g), bits, t)
<1>1. PICK n \in 0 .. 3, c \in Nat : n = Parts /\ c = Parts * g /\ Parts * (g + 1) = c + n
  BY PartCount
<1>2. /\ Continues(H, G, g)
      /\ G.t \in [Nat -> Signs] /\ G.q \in [Nat -> Bit] /\ G.b \in [Nat -> Signs]
      /\ G.b[g] = bits
      /\ \A h \in 0 .. n : G.t[c + h] = t[h] /\ G.q[c + h] = q[h]
      /\ \A x \in Symbols : Late <= 6 * g + x => G.sym[6 * g + x - Late] = out[x + 1]
  BY <1>1, ExtendedIs
<1> HIDE DEF G, out
<1>3. /\ \A k \in Nat : k < g => G.b[k] = H.b[k]
      /\ \A r \in Nat : r <= c => G.t[r] = H.t[r] /\ G.q[r] = H.q[r]
      /\ \A s \in Nat : s + Late < 6 * g => G.sym[s] = H.sym[s]
  BY <1>1, <1>2 DEF Continues
<1>4. \A k \in Nat : k <= g => Last(G, k) = Last(H, k)
  <2> SUFFICES ASSUME NEW k \in Nat, k <= g PROVE Last(G, k) = Last(H, k)
    OBVIOUS
  <2>1. CASE k = 0
    BY <2>1 DEF Last
  <2>2. CASE k # 0
    <3>1. k - 1 \in Nat /\ k - 1 < g
      BY <2>2
    <3> QED BY <1>3, <2>2, <3>1 DEF Last
  <2> QED BY <2>1, <2>2
<1>5. ASSUME NEW k \in Nat, k < g + 1 PROVE G.b[k] = SignBits(Given(k), Last(G, k))
  <2>1. CASE k = g
    BY <1>2, <1>4, <2>1 DEF Memory
  <2>2. CASE k < g
    <3>1. H.b[k] = SignBits(Given(k), Last(H, k))
      BY <2>2 DEF History
    <3> QED BY <1>3, <1>4, <2>2, <3>1
  <2> QED BY <1>5, <2>1, <2>2
<1>6. ASSUME NEW r \in Nat, r <= Parts * (g + 1) PROVE G.q[r] = G.t[r][0]
  <2>1. CASE r <= c
    BY <1>1, <1>3, <2>1 DEF History
  <2>2. CASE ~(r <= c)
    <3>1. PICK h \in 0 .. n : r = c + h
      <4>1. r - c \in 0 .. n /\ r = c + (r - c)
        BY <1>1, <1>6, <2>2
      <4> QED BY <4>1
    <3> QED BY <1>1, <1>2, <3>1 DEF Shaping
  <2> QED BY <2>1, <2>2
<1>7. ASSUME NEW k \in Nat, NEW h \in 1 .. Parts, Part(k, h) <= Parts * (g + 1)
      PROVE  G.t[Part(k, h)] = Inverted(Inverted(G.t[Part(k, h) - 1], PartOf(G.b[k], h)),
                                        SignOp(G.q[Part(k, h)], G.q[Part(k, h) - 1]))
  <2>0. p.S # 6
    BY DEF Parts
  <2>1. PICK r \in Nat : r = Part(k, h) /\ r - 1 \in Nat
    BY <2>0, Grid
  <2>2. CASE r <= c
    <3>1. k < g
      BY <1>1, <2>0, <2>1, <2>2, Grid
    <3>2. H.t[r] = Inverted(Inverted(H.t[r - 1], PartOf(H.b[k], h)), SignOp(H.q[r], H.q[r - 1]))
      BY <1>1, <2>1, <2>2 DEF History
    <3>3. G.t[r] = H.t[r] /\ G.q[r] = H.q[r] /\ G.t[r - 1] = H.t[r - 1] /\ G.q[r - 1] = H.q[r - 1]
          /\ G.b[k] = H.b[k]
      BY <1>3, <2>1, <2>2, <3>1
    <3> QED BY <2>1, <3>2, <3>3
  <2>3. CASE ~(r <= c)
    <3>1. PICK x \in 1 .. Parts : r = c + x
      <4>1. Part(k, h) <= Parts * g + Parts /\ ~(Part(k, h) <= Parts * g)
        BY <1>1, <1>7, <2>1, <2>3
      <4>2. \E x \in 1 .. Parts : Part(k, h) = Parts * g + x
        BY <2>0, <4>1, Grid
      <4> QED BY <1>1, <2>1, <4>2
    <3>2. /\ k <= g
          /\ NewParts(m, bits)[Shaped(m.ptr, x)] = PartOf(IF k = g THEN bits ELSE H.b[k], h)
      <4>1. Part(k, h) = Parts * g + x
        BY <1>1, <2>1, <3>1
      <4> QED BY <4>1, PartWaits
    <3>3. G.b[k] = IF k = g THEN bits ELSE H.b[k]
      BY <1>2, <1>3, <3>2
    <3>4. t[x] = Inverted(Inverted(t[x - 1], PartOf(G.b[k], h)), SignOp(q[x], q[x - 1]))
      BY <3>2, <3>3 DEF Shaping
    <3>5. x \in 0 .. n /\ x - 1 \in 0 .. n /\ r - 1 = c + (x - 1)
      BY <1>1, <2>1, <3>1
    <3>6. G.t[r] = t[x] /\ G.q[r] = q[x] /\ G.t[r - 1] = t[x - 1] /\ G.q[r - 1] = q[x - 1]
      BY <1>2, <3>1, <3>5
    <3> QED BY <2>1, <3>4, <3>6
  <2> QED BY <2>2, <2>3
<1>8. ASSUME NEW k \in Nat, NEW i \in Symbols, 6 * k + i + Late < 6 * (g + 1)
      PROVE  G.sym[6 * k + i] = Mapped(Digits(Given(k))[i], SignOf(G, k, i))
  <2>0. i \in 0 .. 5 /\ Late \in 0 .. 18
    BY LateIs DEF Symbols
  <2>1. CASE 6 * k + i + Late < 6 * g
    <3>1. k < g /\ 6 * k + i \in Nat
      BY <2>0, <2>1
    <3>2. H.sym[6 * k + i] = Mapped(Digits(Given(k))[i], SignOf(H, k, i))
      BY <2>1 DEF History
    <3>3. G.sym[6 * k + i] = H.sym[6 * k + i]
      BY <1>3, <2>1, <3>1
    <3>4. CASE p.S = 6
      BY <1>3, <3>1, <3>2, <3>3, <3>4 DEF SignOf
    <3>5. CASE p.S # 6
      <4>1. 1 + i \div FrameSize \in 1 .. Parts /\ Part(k, 1 + i \div FrameSize) <= Parts * g
        BY <2>1, <3>5, Grid
      <4>2. Part(k, 1 + i \div FrameSize) \in Nat
        BY <3>5, <4>1, Grid
      <4>3. G.t[Part(k, 1 + i \div FrameSize)] = H.t[Part(k, 1 + i \div FrameSize)]
        BY <1>1, <1>3, <4>1, <4>2
      <4> QED BY <3>2, <3>3, <3>5, <4>3 DEF SignOf
    <3> QED BY <3>4, <3>5
  <2>2. CASE ~(6 * k + i + Late < 6 * g)
    <3>1. PICK x \in Symbols : 6 * k + i + Late = 6 * g + x
      <4>1. (6 * k + i + Late) - 6 * g \in 0 .. 5 /\ 6 * k + i + Late = 6 * g + ((6 * k + i + Late) - 6 * g)
        BY <1>8, <2>0, <2>2
      <4> QED BY <4>1 DEF Symbols
    <3>2. k <= g /\ NewRing(m, Given(g))[At((m.ptr - Late) + x)] = Digits(Given(k))[i]
      BY <3>1, MagnitudeWaits
    <3>3. out[x + 1] = Mapped(Digits(Given(k))[i], SentSign(bits, t, x))
      <4>1. x + 1 \in 1 .. 6 /\ (x + 1) - 1 = x
        BY DEF Symbols
      <4> QED BY <3>2, <4>1 DEF Sent, out
    <3>4. G.sym[6 * k + i] = out[x + 1]
      <4>1. Late <= 6 * g + x /\ 6 * g + x - Late = 6 * k + i
        BY <2>0, <3>1 DEF Symbols
      <4> QED BY <1>2, <4>1
    <3>5. SentSign(bits, t, x) = SignOf(G, k, i)
      <4>1. CASE p.S = 6
        <5>1. Late = 0
          BY <4>1, LateIs DEF Late
        <5>2. k = g /\ i = x
          BY <2>0, <3>1, <5>1 DEF Symbols
        <5> QED BY <1>2, <4>1, <5>2 DEF SentSign, SignOf
      <4>2. CASE p.S # 6
        <5>1. i % FrameSize = x % FrameSize
              /\ Part(k, 1 + i \div FrameSize) = Parts * g + (1 + x \div FrameSize)
          BY <3>1, <4>2, GridSymbols
        <5>2. 1 + x \div FrameSize \in 1 .. Parts
          BY <4>2, Grid
        <5>3. PICK h \in 1 .. Parts : h = 1 + x \div FrameSize
          BY <5>2
        <5>4. G.t[c + h] = t[h]
          BY <1>1, <1>2
        <5> QED BY <1>1, <4>2, <5>1, <5>3, <5>4 DEF SentSign, SignOf
      <4> QED BY <4>1, <4>2
    <3> QED BY <3>3, <3>4, <3>5
  <2> QED BY <2>1, <2>2
<1> QED BY <1>2, <1>5, <1>6, <1>7, <1>8 DEF History, G, out

\* Encode keeps the memory: what is not yet out is still where the next frames look for it.
LEMMA MemoryGrows ==
  ASSUME p \in Params, payload \in Payloads,
         NEW g \in Nat, NEW H, History(H, g), NEW m, Memory(m, H, g),
         NEW bits \in Signs, bits = SignBits(Given(g), m.last), NEW t, NEW q, NEW out,
         Shaping(m, NewParts(m, bits), t, q)
  PROVE  Memory([ring |-> NewRing(m, Given(g)), pp |-> NewParts(m, bits), ptr |-> At(m.ptr + 6),
                 last |-> LastBit(bits), t |-> t[Parts], q |-> q[Parts]],
                Extended(H, g, bits, t, q, out), g + 1)
<1> DEFINE G == Extended(H, g, bits, t, q, out)
           ring == NewRing(m, Given(g))
           pp == NewParts(m, bits)
<1>1. PICK n \in 0 .. 3, c \in Nat : n = Parts /\ c = Parts * g /\ Parts * (g + 1) = c + n
  BY PartCount
<1>2. /\ Continues(H, G, g)
      /\ G.b[g] = bits
      /\ \A h \in 0 .. n : G.t[c + h] = t[h] /\ G.q[c + h] = q[h]
  BY <1>1, ExtendedIs
<1>3. /\ \A i \in 0 .. RingBuf - 1 : ring[i] \in Int /\ pp[i] \in Signs /\ pp[i][0] = 0
      /\ DOMAIN ring = 0 .. RingBuf - 1 /\ DOMAIN pp = 0 .. RingBuf - 1
  <2>1. LET b == SignBits(Given(g), m.last)
        IN  /\ \A i \in 0 .. RingBuf - 1 : /\ NewRing(m, Given(g))[i] \in Int
                                           /\ NewParts(m, b)[i] \in Signs /\ NewParts(m, b)[i][0] = 0
            /\ DOMAIN NewRing(m, Given(g)) = 0 .. RingBuf - 1 /\ DOMAIN NewParts(m, b) = 0 .. RingBuf - 1
    BY MemoryTypes, Zenon
  <2> QED BY <2>1, Zenon
<1>4. Late \in 0 .. 18
  BY LateIs
<1>5. At(m.ptr + 6) = At(6 * (g + 1))
  <2>1. m.ptr = At(6 * g) /\ 6 * g \in Int /\ 6 * (g + 1) = 6 * g + 6
    BY DEF Memory
  <2> QED BY <2>1, AtAdds
<1>6. Last(G, g + 1) = LastBit(bits)
  <2>1. g + 1 # 0 /\ (g + 1) - 1 = g
    OBVIOUS
  <2> HIDE DEF G
  <2> QED BY <1>2, <2>1 DEF Last
<1>7. t[Parts] = G.t[Parts * (g + 1)] /\ q[Parts] = G.q[Parts * (g + 1)]
  <2> HIDE DEF G
  <2> QED BY <1>1, <1>2
<1>8. ASSUME NEW k \in Nat, NEW i \in Symbols,
             6 * k + i < 6 * (g + 1), 6 * (g + 1) - Late <= 6 * k + i
      PROVE  ring[At(6 * k + i)] = Digits(Given(k))[i]
  <2>0. i \in 0 .. 5
    BY DEF Symbols
  <2>1. CASE k = g
    BY <2>1, RingHolds DEF Memory
  <2>2. CASE k # g
    <3>1. 6 * k + i \in Int /\ 6 * g - Late <= 6 * k + i /\ 6 * k + i < 6 * g
      BY <1>4, <1>8, <2>0, <2>2
    <3>2. ring[At(6 * k + i)] = m.ring[At(6 * k + i)]
      BY <3>1, RingHolds DEF Memory
    <3>3. m.ring[At(6 * k + i)] = Digits(Given(k))[i]
      BY <3>1 DEF Memory
    <3> QED BY <3>2, <3>3
  <2> QED BY <2>1, <2>2
<1>9. ASSUME NEW k \in Nat, NEW h \in 1 .. Parts,
             6 * k + (h - 1) * FrameSize < 6 * (g + 1), 6 * (g + 1) - Late <= 6 * k + (h - 1) * FrameSize
      PROVE  pp[At(6 * k + (h - 1) * FrameSize)] = PartOf(G.b[k], h)
  <2>0. PICK y \in 0 .. 5 : y = (h - 1) * FrameSize
    BY LateIs, Geometry DEF Symbols
  <2>1. CASE k = g
    <3>1. pp[At(6 * g + (h - 1) * FrameSize)] = PartOf(bits, h)
      BY PartsHold DEF Memory
    <3> HIDE DEF G, pp
    <3> QED BY <1>2, <2>1, <3>1
  <2>2. CASE k # g
    <3>1. 6 * k + y \in Int /\ 6 * g - Late <= 6 * k + y /\ 6 * k + y < 6 * g /\ k < g
      BY <1>4, <1>9, <2>0, <2>2
    <3>2. pp[At(6 * k + y)] = m.pp[At(6 * k + y)]
      BY <3>1, PartsHold DEF Memory
    <3>3. m.pp[At(6 * k + y)] = PartOf(H.b[k], h)
      BY <2>0, <3>1 DEF Memory
    <3>4. G.b[k] = H.b[k]
      BY <1>2, <3>1 DEF Continues
    <3> HIDE DEF G, pp
    <3> QED BY <2>0, <3>2, <3>3, <3>4
  <2> QED BY <2>1, <2>2
<1> DEFINE new == [ring |-> ring, pp |-> pp, ptr |-> At(m.ptr + 6), last |-> LastBit(bits),
                   t |-> t[Parts], q |-> q[Parts]]
<1>10. new.ring = ring /\ new.pp = pp /\ new.ptr = At(m.ptr + 6) /\ new.last = LastBit(bits)
       /\ new.t = t[Parts] /\ new.q = q[Parts]
  OBVIOUS
<1>11. Memory(new, G, g + 1)
  <2> HIDE DEF G, ring, pp, new
  <2> QED BY <1>3, <1>5, <1>6, <1>7, <1>8, <1>9, <1>10 DEF Memory
<1> QED BY <1>11

\* A function on 1 .. n is a sequence.
LEMMA IsSeq ==
  ASSUME NEW S, NEW n \in Nat, NEW s \in [1 .. n -> S]
  PROVE  s \in Seq(S) /\ Len(s) = n
<1>1. s \in Seq(S) /\ DOMAIN s = 1 .. n
  OBVIOUS
<1> QED BY <1>1

\* Six symbols go out with a frame.
LEMMA SentAre ==
  ASSUME p \in Params, payload \in Payloads,
         NEW g \in Nat, NEW H, History(H, g), NEW m, Memory(m, H, g),
         NEW bits \in Signs, bits = SignBits(Given(g), m.last), NEW t, NEW q,
         Shaping(m, NewParts(m, bits), t, q)
  PROVE  Sent(m, Given(g), bits, t) \in Seq(Item) /\ Len(Sent(m, Given(g), bits, t)) = 6
<1> DEFINE out == Sent(m, Given(g), bits, t)
           mag(x) == NewRing(m, Given(g))[At((m.ptr - Late) + x)]
<1>1. \A x \in Symbols : mag(x) \in Int
  <2>1. \A i \in 0 .. RingBuf - 1 : NewRing(m, Given(g))[i] \in Int
    BY MemoryTypes
  <2>2. \A x \in Symbols : At((m.ptr - Late) + x) \in 0 .. RingBuf - 1
    BY MemoryTypes
  <2> QED BY <2>1, <2>2
<1>2. ASSUME NEW x \in Symbols PROVE SentSign(bits, t, x) \in Bit
  <2>1. CASE p.S = 6
    BY <2>1 DEF SentSign, Signs
  <2>2. CASE p.S # 6
    <3>1. 1 + x \div FrameSize \in 1 .. Parts /\ x % FrameSize \in Symbols
      BY <2>2, Grid
    <3>2. \A h \in 1 .. Parts, y \in Symbols : t[h][y] \in Bit
      <4>1. \A h \in 1 .. Parts : h \in 0 .. Parts
        BY PartCount
      <4> QED BY <4>1 DEF Shaping, Signs
    <3> QED BY <2>2, <3>1, <3>2 DEF SentSign
  <2> QED BY <2>1, <2>2
<1>3. ASSUME NEW i \in 1 .. 6 PROVE Mapped(mag(i - 1), SentSign(bits, t, i - 1)) \in Item
  <2>1. i - 1 \in Symbols
    BY DEF Symbols
  <2>2. mag(i - 1) \in Int /\ SentSign(bits, t, i - 1) \in Bit
    BY <1>1, <1>2, <2>1
  <2> HIDE DEF mag
  <2> QED BY <2>2 DEF Mapped, Item
<1>4. out = [i \in 1 .. 6 |-> Mapped(mag(i - 1), SentSign(bits, t, i - 1))]
  BY DEF Sent
<1> HIDE DEF mag, out
<1>5. out \in [1 .. 6 -> Item]
  BY <1>3, <1>4
<1>6. out \in Seq(Item) /\ Len(out) = 6
  BY <1>5, IsSeq
<1> QED BY <1>6 DEF out

\* One frame more through V90PcmMapper::encode: history and memory go on, and what goes out
\* are the history's symbols, Late symbols late.
LEMMA FrameEncoded ==
  ASSUME p \in Params, payload \in Payloads, p.S = 6 => p.ld = 0,
         NEW g \in Nat, NEW H, History(H, g), NEW m, Memory(m, H, g), NEW path \in Paths
  PROVE  LET e == Encode(m, Given(g), path)
         IN  /\ e.out \in Seq(Item) /\ Len(e.out) = 6
             /\ \E G : /\ Continues(H, G, g) /\ History(G, g + 1) /\ Memory(e.mapper, G, g + 1)
                       /\ \A x \in Symbols : Late <= 6 * g + x => e.out[x + 1] = G.sym[6 * g + x - Late]
<1> DEFINE e == Encode(m, Given(g), path)
           bits == SignBits(Given(g), m.last)
           pp == NewParts(m, bits)
           q == ShaperStates(m, path)
           t == SentSigns(m, pp, q)
           out == Sent(m, Given(g), bits, t)
           G == Extended(H, g, bits, t, q, out)
<1>1. bits \in Signs
  BY BitsOf DEF Memory
<1>2. Shaping(m, pp, t, q)
  <2>1. Parts \in 0 .. 3 /\ m.t \in Signs /\ m.q \in Bit /\ m.q = m.t[0]
    <3>1. Parts * g \in Nat /\ Parts \in 0 .. 3
      BY PartCount
    <3>2. PICK c \in Nat : c = Parts * g
      BY <3>1
    <3>3. /\ m.t = H.t[c] /\ m.q = H.q[c] /\ H.q[c] = H.t[c][0]
          /\ H.t \in [Nat -> Signs] /\ H.q \in [Nat -> Bit]
      BY <3>2 DEF Memory, History
    <3> QED BY <3>1, <3>3
  <2>2. \A h \in 1 .. Parts : pp[Shaped(m.ptr, h)] \in Signs /\ pp[Shaped(m.ptr, h)][0] = 0
    <3>1. \A i \in 0 .. RingBuf - 1 : pp[i] \in Signs /\ pp[i][0] = 0
      BY MemoryTypes
    <3>2. \A h \in Int : Shaped(m.ptr, h) \in 0 .. RingBuf - 1
      BY MemoryTypes
    <3>3. \A h \in 1 .. Parts : h \in Int
      OBVIOUS
    <3> HIDE DEF pp
    <3> QED BY <3>1, <3>2, <3>3
  <2> HIDE DEF pp
  <2>3. LET qq == ShaperStates(m, path)
            tt == SentSigns(m, pp, qq)
        IN  /\ tt[0] = m.t /\ qq[0] = m.q
            /\ \A h \in 0 .. Parts : tt[h] \in Signs /\ qq[h] \in Bit /\ qq[h] = tt[h][0]
            /\ \A h \in 1 .. Parts :
                 tt[h] = Inverted(Inverted(tt[h - 1], pp[Shaped(m.ptr, h)]), SignOp(qq[h], qq[h - 1]))
    BY <2>1, <2>2, TurnsAre
  <2> QED BY <2>3 DEF Shaping
<1>3. /\ e.mapper = [ring |-> NewRing(m, Given(g)), pp |-> pp, ptr |-> At(m.ptr + 6),
                     last |-> LastBit(bits), t |-> t[Parts], q |-> q[Parts]]
      /\ e.out = out
  BY EncodeIs DEF Sent
<1> HIDE DEF e, bits, pp, q, t, out
<1>4. Continues(H, G, g) /\ \A x \in Symbols : Late <= 6 * g + x => G.sym[6 * g + x - Late] = out[x + 1]
  BY <1>1, <1>2, ExtendedIs
<1>5. History(G, g + 1)
  BY <1>1, <1>2, HistoryGrows DEF bits, pp, out
<1>6. Memory(e.mapper, G, g + 1)
  BY <1>1, <1>2, <1>3, MemoryGrows DEF bits, pp
<1>7. out \in Seq(Item) /\ Len(out) = 6
  BY <1>1, <1>2, SentAre DEF bits, pp, out
<1> HIDE DEF G
<1>8. /\ Continues(H, G, g) /\ History(G, g + 1) /\ Memory(e.mapper, G, g + 1)
      /\ \A x \in Symbols : Late <= 6 * g + x => e.out[x + 1] = G.sym[6 * g + x - Late]
  BY <1>3, <1>4, <1>5, <1>6
<1> QED BY <1>3, <1>7, <1>8 DEF e

-----------------------------------------------------------------------------
(* encode_raw_bits: any number of frames. *)

\* Induction over a set of naturals, from the pigeonhole principle (the library's own theorem
\* has an operator as its parameter).
LEMMA NatInd ==
  ASSUME NEW S, 0 \in S, \A n \in Nat : n \in S => n + 1 \in S
  PROVE  Nat \subseteq S
<1> SUFFICES ASSUME NEW m \in Nat, m \notin S PROVE FALSE
  OBVIOUS
<1> DEFINE A == {n \in 0 .. m : n \in S}
           B == A \ {0}
           f == [n \in A |-> n + 1]
<1>1. IsFiniteSet(A) /\ 0 \in A
  BY FS_BoundedSetOfNaturals
<1>2. IsFiniteSet(B) /\ Cardinality(B) < Cardinality(A)
  <2> HIDE DEF A
  <2>1. IsFiniteSet(B) /\ Cardinality(B) = Cardinality(A) - 1
    BY <1>1, FS_RemoveElement
  <2>2. Cardinality(A) \in Nat
    BY <1>1, FS_CardinalityType
  <2> QED BY <2>1, <2>2
<1>3. f \in [A -> B]
  <2> SUFFICES ASSUME NEW n \in A PROVE n + 1 \in B
    OBVIOUS
  <2> QED OBVIOUS
<1>4. PICK x \in A, y \in A : x # y /\ f[x] = f[y]
  <2> HIDE DEF A, B, f
  <2> QED BY <1>1, <1>2, <1>3, FS_PigeonHole
<1> QED BY <1>4

\* encode_raw_bits' loop.
Round(r, k, paths) ==
  LET e == Encode(r.mapper, Given(given + k - 1), paths[k])
  IN  [mapper |-> e.mapper, out |-> r.out \o e.out]
\* The runs of the loop, frame by frame.
Runs(n, paths, run) ==
  run = [k \in 0 .. n |-> IF k = 0 THEN [mapper |-> mapper, out |-> <<>>] ELSE Round(run[k - 1], k, paths)]
RunOf(n, paths) == CHOOSE run : Runs(n, paths, run)

\* The recursive function of Encoded is defined, however many frames there are.
LEMMA RunsDefined ==
  ASSUME NEW n \in Nat, NEW paths
  PROVE  Runs(n, paths, RunOf(n, paths))
<1> DEFINE S == {k \in Nat : \E run : Runs(k, paths, run)}
           start == [mapper |-> mapper, out |-> <<>>]
<1>1. 0 \in S
  <2> DEFINE f == [k \in 0 .. 0 |-> start]
  <2>1. \A k \in 0 .. 0 : k = 0
    OBVIOUS
  <2> HIDE DEF start
  <2>2. f = [k \in 0 .. 0 |-> IF k = 0 THEN start ELSE Round(f[k - 1], k, paths)]
    BY <2>1
  <2>3. Runs(0, paths, f)
    BY <2>2 DEF Runs, start
  <2> HIDE DEF f
  <2> QED BY <2>3
<1>2. ASSUME NEW m \in Nat, m \in S PROVE m + 1 \in S
  <2>1. PICK f : Runs(m, paths, f)
    BY <1>2
  <2> HIDE DEF start
  <2>2. f = [k \in 0 .. m |-> IF k = 0 THEN start ELSE Round(f[k - 1], k, paths)]
    BY <2>1 DEF Runs, start
  <2> DEFINE g == [k \in 0 .. m + 1 |-> IF k <= m THEN f[k] ELSE Round(f[m], m + 1, paths)]
  <2>3. ASSUME NEW k \in 0 .. m + 1
        PROVE  g[k] = IF k = 0 THEN start ELSE Round(g[k - 1], k, paths)
    <3>1. CASE k = 0
      <4>1. 0 \in 0 .. m + 1 /\ 0 \in 0 .. m /\ 0 <= m
        OBVIOUS
      <4>2. g[0] = f[0]
        BY <4>1
      <4>3. f[0] = start
        <5> HIDE DEF g
        <5> QED BY <2>2, <4>1
      <4> QED BY <3>1, <4>2, <4>3
    <3>2. CASE k # 0 /\ k <= m
      <4>1. k \in 0 .. m /\ k - 1 \in 0 .. m + 1 /\ k - 1 <= m
        BY <3>2
      <4>2. g[k] = f[k] /\ g[k - 1] = f[k - 1]
        BY <3>2, <4>1
      <4>3. f[k] = Round(f[k - 1], k, paths)
        <5> HIDE DEF g
        <5> QED BY <2>2, <3>2, <4>1
      <4> HIDE DEF g
      <4> QED BY <3>2, <4>2, <4>3
    <3>3. CASE k = m + 1
      <4>1. ~(m + 1 <= m) /\ m + 1 \in 0 .. m + 1 /\ m \in 0 .. m + 1 /\ (m + 1) - 1 = m /\ m + 1 # 0
        OBVIOUS
      <4>2. g[m + 1] = Round(f[m], m + 1, paths) /\ g[m] = f[m]
        BY <4>1
      <4> HIDE DEF g
      <4> QED BY <3>3, <4>1, <4>2
    <3> QED BY <3>1, <3>2, <3>3
  <2>4. g = [k \in 0 .. m + 1 |-> g[k]]
    OBVIOUS
  <2> HIDE DEF g
  <2>5. g = [k \in 0 .. m + 1 |-> IF k = 0 THEN start ELSE Round(g[k - 1], k, paths)]
    BY <2>3, <2>4
  <2>6. Runs(m + 1, paths, g)
    BY <2>5 DEF Runs, start
  <2> QED BY <2>6
<1> HIDE DEF S
<1>3. Nat \subseteq S
  BY <1>1, <1>2, NatInd
<1>4. \E run : Runs(n, paths, run)
  BY <1>3 DEF S
<1> QED BY <1>4, Zenon DEF RunOf

\* Encoded in the terms above.
LEMMA EncodedIs ==
  ASSUME NEW n, NEW paths
  PROVE  Encoded(n, paths) = RunOf(n, paths)[n]
  BY DEF Encoded, RunOf, Runs, Round

\* Each round of the loop adds a frame's symbols.
LEMMA RoundsAre ==
  ASSUME NEW n \in Nat, NEW paths
  PROVE  LET run == RunOf(n, paths)
         IN  /\ run[0] = [mapper |-> mapper, out |-> <<>>]
             /\ \A k \in 1 .. n :
                  LET e == Encode(run[k - 1].mapper, Given(given + k - 1), paths[k])
                  IN  run[k].mapper = e.mapper /\ run[k].out = run[k - 1].out \o e.out
<1> DEFINE run == RunOf(n, paths)
<1>1. Runs(n, paths, run)
  BY RunsDefined
<1> HIDE DEF run
<1>2. run[0] = [mapper |-> mapper, out |-> <<>>]
  BY <1>1 DEF Runs
<1>3. ASSUME NEW k \in 1 .. n PROVE run[k] = Round(run[k - 1], k, paths)
  BY <1>1 DEF Runs
<1>4. ASSUME NEW k \in 1 .. n
      PROVE  LET e == Encode(run[k - 1].mapper, Given(given + k - 1), paths[k])
             IN  run[k].mapper = e.mapper /\ run[k].out = run[k - 1].out \o e.out
  <2> DEFINE e == Encode(run[k - 1].mapper, Given(given + k - 1), paths[k])
  <2> DEFINE out == run[k - 1].out \o e.out
  <2>1. Round(run[k - 1], k, paths) = [mapper |-> e.mapper, out |-> out]
    BY DEF Round
  <2> HIDE DEF e, out
  <2>2. run[k].mapper = e.mapper /\ run[k].out = out
    BY <1>3, <2>1
  <2>3. run[k].mapper = e.mapper /\ run[k].out = run[k - 1].out \o e.out
    BY <2>2 DEF out
  <2> QED BY <2>3 DEF e
<1> QED BY <1>2, <1>4 DEF run

\* n frames more: their history and what went out.
Grown(H, n, m, out, G) ==
  /\ Continues(H, G, given) /\ History(G, given + n) /\ Memory(m, G, given + n)
  /\ \A j \in 1 .. 6 * n : Late <= 6 * given + (j - 1) => out[j] = G.sym[6 * given + ((j - 1) - Late)]

\* One round more of the loop.
LEMMA GrowsMore ==
  ASSUME p \in Params, payload \in Payloads, p.S = 6 => p.ld = 0, given \in Nat,
         NEW H, NEW k \in Nat, NEW G, NEW m, NEW out \in Seq(Item), Len(out) = 6 * k, Grown(H, k, m, out, G),
         NEW path \in Paths
  PROVE  LET e == Encode(m, Given(given + k), path)
         IN  /\ out \o e.out \in Seq(Item) /\ Len(out \o e.out) = 6 * (k + 1)
             /\ \E G2 : Grown(H, k + 1, e.mapper, out \o e.out, G2)
<1> DEFINE e == Encode(m, Given(given + k), path)
           all == out \o e.out
<1>1. PICK g \in Nat : g = given + k
  OBVIOUS
<1>2. Continues(H, G, given) /\ History(G, g) /\ Memory(m, G, g)
  BY <1>1 DEF Grown
<1>3. /\ e.out \in Seq(Item) /\ Len(e.out) = 6
      /\ \E G2 : /\ Continues(G, G2, g) /\ History(G2, g + 1) /\ Memory(e.mapper, G2, g + 1)
                 /\ \A x \in Symbols : Late <= 6 * g + x => e.out[x + 1] = G2.sym[6 * g + x - Late]
  BY <1>1, <1>2, FrameEncoded
<1>4. PICK G2 : /\ Continues(G, G2, g) /\ History(G2, g + 1) /\ Memory(e.mapper, G2, g + 1)
                /\ \A x \in Symbols : Late <= 6 * g + x => e.out[x + 1] = G2.sym[6 * g + x - Late]
  BY <1>3
<1> HIDE DEF e
<1>5. /\ all \in Seq(Item) /\ Len(all) = 6 * (k + 1)
      /\ \A j \in 1 .. 6 * k : all[j] = out[j]
      /\ \A x \in 0 .. 5 : all[6 * k + (x + 1)] = e.out[x + 1]
  <2>1. PICK v \in Seq(Item) : v = e.out /\ Len(v) = 6
    BY <1>3
  <2> DEFINE w == out \o v
  <2>2. /\ w \in Seq(Item) /\ Len(w) = Len(out) + Len(v)
        /\ \A j \in 1 .. Len(out) + Len(v) : w[j] = IF j <= Len(out) THEN out[j] ELSE v[j - Len(out)]
    BY ConcatProperties
  <2> HIDE DEF w
  <2>4. w \in Seq(Item) /\ Len(w) = 6 * k + 6
    BY <2>1, <2>2
  <2>5. \A j \in 1 .. 6 * k : w[j] = out[j]
    BY <2>1, <2>2
  <2>6. ASSUME NEW x \in 0 .. 5 PROVE w[6 * k + (x + 1)] = v[x + 1]
    <3>1. 6 * k + (x + 1) \in 1 .. Len(out) + Len(v) /\ ~(6 * k + (x + 1) <= Len(out))
          /\ (6 * k + (x + 1)) - Len(out) = x + 1
      BY <2>1
    <3> QED BY <2>2, <3>1
  <2>3. 6 * (k + 1) = 6 * k + 6
    OBVIOUS
  <2> QED BY <2>1, <2>3, <2>4, <2>5, <2>6 DEF w
<1> HIDE DEF all
<1>6. Parts * given \in Nat /\ Parts * g \in Nat /\ Parts * given <= Parts * g
  <2>1. Parts * given \in Nat /\ Parts * g \in Nat /\ Parts \in 0 .. 3
    BY PartCount
  <2>2. \A y \in 0 .. 3 : y * given <= y * g
    <3>1. \A y \in 0 .. 3 : y = 0 \/ y = 1 \/ y = 2 \/ y = 3
      OBVIOUS
    <3>2. 0 * given = 0 /\ 0 * g = 0 /\ 1 * given = given /\ 1 * g = g /\ given <= g
          /\ 2 * given <= 2 * g /\ 3 * given <= 3 * g
      BY <1>1
    <3> QED BY <3>1, <3>2
  <2> QED BY <2>1, <2>2
<1>7. Late \in 0 .. 18
  BY LateIs
<1>8. Continues(H, G2, given)
  <2>1. ASSUME NEW r \in Nat, r < given PROVE G2.b[r] = H.b[r]
    BY <1>1, <1>2, <1>4, <2>1 DEF Continues
  <2>2. ASSUME NEW r \in Nat, r <= Parts * given PROVE G2.t[r] = H.t[r] /\ G2.q[r] = H.q[r]
    <3>1. r <= Parts * g
      BY <1>6, <2>2
    <3> QED BY <1>2, <1>4, <2>2, <3>1 DEF Continues
  <2>3. ASSUME NEW s \in Nat, s + Late < 6 * given PROVE G2.sym[s] = H.sym[s]
    <3>1. s + Late < 6 * g
      BY <1>1, <1>7, <2>3
    <3> QED BY <1>2, <1>4, <2>3, <3>1 DEF Continues
  <2> QED BY <2>1, <2>2, <2>3 DEF Continues
<1>9. ASSUME NEW j \in 1 .. 6 * (k + 1), Late <= 6 * given + (j - 1)
      PROVE  all[j] = G2.sym[6 * given + ((j - 1) - Late)]
  <2>1. CASE j <= 6 * k
    <3>1. j \in 1 .. 6 * k
      BY <2>1
    <3>2. out[j] = G.sym[6 * given + ((j - 1) - Late)]
      BY <1>9, <3>1 DEF Grown
    <3>3. PICK s \in Nat : s = 6 * given + ((j - 1) - Late)
      BY <1>7, <1>9
    <3>4. s + Late < 6 * g
      BY <1>1, <1>7, <3>1, <3>3
    <3>5. G2.sym[s] = G.sym[s]
      BY <1>4, <3>4 DEF Continues
    <3> QED BY <1>5, <3>1, <3>2, <3>3, <3>5
  <2>2. CASE ~(j <= 6 * k)
    <3>1. PICK x \in 0 .. 5 : j = 6 * k + (x + 1)
      <4>1. j - 6 * k - 1 \in 0 .. 5 /\ j = 6 * k + ((j - 6 * k - 1) + 1)
        BY <1>9, <2>2
      <4> QED BY <4>1
    <3>2. 6 * given + (j - 1) = 6 * g + x /\ 6 * given + ((j - 1) - Late) = 6 * g + x - Late
      BY <1>1, <1>7, <3>1
    <3>3. Late <= 6 * g + x /\ x \in Symbols
      BY <1>9, <3>2 DEF Symbols
    <3>4. e.out[x + 1] = G2.sym[6 * g + x - Late]
      BY <1>4, <3>3
    <3>5. all[j] = e.out[x + 1]
      BY <1>5, <3>1
    <3> QED BY <3>2, <3>4, <3>5
  <2> QED BY <2>1, <2>2
<1>10. given + (k + 1) = g + 1
  BY <1>1
<1>11. Grown(H, k + 1, e.mapper, all, G2)
  BY <1>4, <1>8, <1>9, <1>10 DEF Grown
<1> QED BY <1>5, <1>11 DEF e, all

\* encode_raw_bits keeps history and memory over any number of frames.
LEMMA FramesEncoded ==
  ASSUME p \in Params, payload \in Payloads, p.S = 6 => p.ld = 0, given \in Nat,
         NEW H, History(H, given), Memory(mapper, H, given), NEW n \in Nat, NEW paths \in [1 .. n -> Paths]
  PROVE  LET e == Encoded(n, paths)
         IN  /\ e.out \in Seq(Item) /\ Len(e.out) = 6 * n
             /\ \E G : Grown(H, n, e.mapper, e.out, G)
<1> DEFINE run == RunOf(n, paths)
           good(k) == /\ run[k].out \in Seq(Item) /\ Len(run[k].out) = 6 * k
                      /\ \E G : Grown(H, k, run[k].mapper, run[k].out, G)
           S == {k \in Nat : k <= n => good(k)}
<1>1. run[0] = [mapper |-> mapper, out |-> <<>>]
      /\ \A k \in 1 .. n :
           LET e == Encode(run[k - 1].mapper, Given(given + k - 1), paths[k])
           IN  run[k].mapper = e.mapper /\ run[k].out = run[k - 1].out \o e.out
  BY RoundsAre
<1> HIDE DEF run
<1>2. 0 \in S
  <2>1. run[0].mapper = mapper /\ run[0].out = <<>>
    BY <1>1
  <2>2. Continues(H, H, given)
    BY DEF Continues
  <2>3. given + 0 = given /\ 6 * 0 = 0
    OBVIOUS
  <2>4. Grown(H, 0, mapper, <<>>, H)
    BY <2>2, <2>3 DEF Grown
  <2>5. <<>> \in Seq(Item) /\ Len(<<>>) = 0
    OBVIOUS
  <2>6. good(0)
    BY <2>1, <2>3, <2>4, <2>5
  <2> QED BY <2>6
<1>3. ASSUME NEW k \in Nat, k \in S PROVE k + 1 \in S
  <2> SUFFICES ASSUME k + 1 <= n PROVE good(k + 1)
    OBVIOUS
  <2>1. good(k)
    BY <1>3
  <2>2. k + 1 \in 1 .. n /\ (k + 1) - 1 = k
    OBVIOUS
  <2>3. PICK G : Grown(H, k, run[k].mapper, run[k].out, G)
    BY <2>1
  <2> DEFINE e == Encode(run[k].mapper, Given(given + k), paths[k + 1])
  <2>4. paths[k + 1] \in Paths
    BY <2>2
  <2>5. /\ run[k].out \o e.out \in Seq(Item) /\ Len(run[k].out \o e.out) = 6 * (k + 1)
        /\ \E G2 : Grown(H, k + 1, e.mapper, run[k].out \o e.out, G2)
    BY <2>1, <2>3, <2>4, GrowsMore
  <2>6. run[k + 1].mapper = e.mapper /\ run[k + 1].out = run[k].out \o e.out
    <3>1. LET f == Encode(run[(k + 1) - 1].mapper, Given(given + (k + 1) - 1), paths[k + 1])
          IN  run[k + 1].mapper = f.mapper /\ run[k + 1].out = run[(k + 1) - 1].out \o f.out
      BY <1>1, <2>2
    <3>2. given + (k + 1) - 1 = given + k
      BY <2>2
    <3> QED BY <2>2, <3>1, <3>2
  <2> HIDE DEF e
  <2> QED BY <2>5, <2>6
<1> HIDE DEF S
<1>4. Nat \subseteq S
  BY <1>2, <1>3, NatInd
<1>5. good(n)
  BY <1>4 DEF S
<1>6. Encoded(n, paths) = run[n]
  BY EncodedIs DEF run
<1> QED BY <1>5, <1>6

-----------------------------------------------------------------------------
(* The line and the far end. *)

\* Of g frames: what is still to be discarded, and what was kept.
Skip(g) == IF 6 * g < Late THEN Late - 6 * g ELSE 0
\* The symbols that were kept.
Kept(g) == IF 6 * g < Late THEN 0 ELSE 6 * g - Late

\* The line L: training by whole frames, then the symbols of sym from the far end's frame c on,
\* as many as were kept of e.
Stream(L, c, e, sym) ==
  /\ 6 * c <= e
  /\ \E a \in Nat :
       /\ Len(L) = 6 * a + (e - 6 * c)
       /\ \A i \in 1 .. Len(L) : L[i] = IF i <= 6 * a THEN Training ELSE sym[6 * c + ((i - 6 * a) - 1)]

\* Quiet is training of whole frames.
LEMMA QuietIs ==
  ASSUME NEW k \in Nat
  PROVE  Quiet(k) \in Seq(Item) /\ Len(Quiet(k)) = 6 * k /\ \A i \in 1 .. 6 * k : Quiet(k)[i] = Training
<1>1. Training \in Item
  BY DEF Training, Item, Bit
<1>2. PICK n \in Nat : n = 6 * k
  OBVIOUS
<1>3. Quiet(k) = [i \in 1 .. n |-> Training]
  BY <1>2 DEF Quiet
<1>4. Quiet(k) \in [1 .. n -> Item]
  BY <1>1, <1>3
<1> QED BY <1>2, <1>3, <1>4, IsSeq

\* More training while nothing is mapped.
LEMMA StreamTraining ==
  ASSUME NEW L \in Seq(Item), NEW sym, Stream(L, 0, 0, sym), NEW k \in Nat
  PROVE  Stream(L \o Quiet(k), 0, 0, sym)
<1> DEFINE u == Quiet(k)
           w == L \o u
<1>1. u \in Seq(Item) /\ Len(u) = 6 * k /\ \A i \in 1 .. 6 * k : u[i] = Training
  BY QuietIs
<1> HIDE DEF u
<1>2. /\ w \in Seq(Item) /\ Len(w) = Len(L) + Len(u)
      /\ \A j \in 1 .. Len(L) + Len(u) : w[j] = IF j <= Len(L) THEN L[j] ELSE u[j - Len(L)]
  BY <1>1, ConcatProperties
<1> HIDE DEF w
<1>3. PICK a \in Nat :
        /\ Len(L) = 6 * a + (0 - 6 * 0)
        /\ \A i \in 1 .. Len(L) : L[i] = IF i <= 6 * a THEN Training ELSE sym[6 * 0 + ((i - 6 * a) - 1)]
  BY DEF Stream
<1>4. a + k \in Nat /\ Len(L) = 6 * a /\ Len(w) = 6 * (a + k) + (0 - 6 * 0)
  BY <1>1, <1>2, <1>3
<1>5. ASSUME NEW i \in 1 .. Len(w) PROVE w[i] = Training /\ i <= 6 * (a + k)
  <2>1. i <= 6 * (a + k)
    BY <1>4
  <2>2. CASE i <= Len(L)
    <3>1. i \in 1 .. Len(L) /\ i <= 6 * a
      BY <1>4, <2>2
    <3> QED BY <1>1, <1>2, <1>3, <2>1, <2>2, <3>1
  <2>3. CASE ~(i <= Len(L))
    <3>1. i - Len(L) \in 1 .. 6 * k
      BY <1>1, <1>2, <1>4, <2>3
    <3> QED BY <1>1, <1>2, <2>1, <2>3, <3>1
  <2> QED BY <2>2, <2>3
<1> QED BY <1>4, <1>5 DEF Stream, u, w

\* The symbols of sym from e on, in u; and two that are the same before.
Follows(u, e, e2, sym) ==
  /\ e <= e2 /\ u \in Seq(Item) /\ Len(u) = e2 - e
  /\ \A i \in 1 .. Len(u) : u[i] = sym[e + (i - 1)]
\* Two symbol histories agree before symbol e.
SameBefore(e, sym, sym2) == \A s \in Nat : s < e => sym2[s] = sym[s]

\* More mapped symbols at the end of the line.
LEMMA StreamMore ==
  ASSUME NEW L \in Seq(Item), NEW sym, NEW sym2, NEW c \in Nat, NEW e \in Nat, NEW e2 \in Nat,
         Stream(L, c, e, sym), SameBefore(e, sym, sym2), NEW u, Follows(u, e, e2, sym2)
  PROVE  Stream(L \o u, c, e2, sym2)
<1> DEFINE w == L \o u
<1>1. /\ \A s \in Nat : s < e => sym2[s] = sym[s]
      /\ e <= e2 /\ u \in Seq(Item) /\ Len(u) = e2 - e
      /\ \A i \in 1 .. Len(u) : u[i] = sym2[e + (i - 1)]
  BY DEF SameBefore, Follows
<1>2. /\ w \in Seq(Item) /\ Len(w) = Len(L) + Len(u)
      /\ \A j \in 1 .. Len(L) + Len(u) : w[j] = IF j <= Len(L) THEN L[j] ELSE u[j - Len(L)]
  BY <1>1, ConcatProperties
<1> HIDE DEF w
<1>3. PICK a \in Nat :
        /\ Len(L) = 6 * a + (e - 6 * c)
        /\ \A i \in 1 .. Len(L) : L[i] = IF i <= 6 * a THEN Training ELSE sym[6 * c + ((i - 6 * a) - 1)]
  BY DEF Stream
<1>4. 6 * c <= e /\ 6 * c <= e2 /\ Len(w) = 6 * a + (e2 - 6 * c)
  <2>1. 6 * c <= e
    BY DEF Stream
  <2>2. Len(w) = Len(L) + Len(u) /\ Len(u) = e2 - e /\ Len(L) = 6 * a + (e - 6 * c) /\ e <= e2
    BY <1>1, <1>2, <1>3
  <2> QED BY <2>1, <2>2
<1>5. ASSUME NEW i \in 1 .. Len(w)
      PROVE  w[i] = IF i <= 6 * a THEN Training ELSE sym2[6 * c + ((i - 6 * a) - 1)]
  <2>1. CASE i <= 6 * a
    <3>1. i \in 1 .. Len(L) /\ i <= Len(L)
      BY <1>3, <1>4, <2>1
    <3> QED BY <1>2, <1>3, <2>1, <3>1
  <2>2. CASE ~(i <= 6 * a) /\ i <= Len(L)
    <3>1. PICK s \in Nat : s = 6 * c + ((i - 6 * a) - 1)
      BY <2>2
    <3>2. s < e
      BY <1>1, <1>3, <1>4, <2>2, <3>1
    <3>3. i \in 1 .. Len(L)
      BY <1>1, <1>2, <2>2
    <3>4. L[i] = sym[s]
      BY <1>3, <2>2, <3>1, <3>3
    <3>5. w[i] = L[i]
      BY <1>2, <2>2
    <3> QED BY <1>1, <2>2, <3>1, <3>2, <3>4, <3>5
  <2>3. CASE ~(i <= Len(L))
    <3>1. i - Len(L) \in 1 .. Len(u) /\ ~(i <= 6 * a)
      BY <1>1, <1>2, <1>3, <1>4, <2>3
    <3>2. e + ((i - Len(L)) - 1) = 6 * c + ((i - 6 * a) - 1)
      BY <1>3
    <3>3. w[i] = u[i - Len(L)]
      BY <1>2, <2>3
    <3>4. u[i - Len(L)] = sym2[e + ((i - Len(L)) - 1)]
      BY <1>1, <3>1
    <3> QED BY <3>1, <3>2, <3>3, <3>4
  <2> QED BY <2>1, <2>2, <2>3
<1> QED BY <1>4, <1>5 DEF Stream, w

\* The next six symbols of the line are training, or a whole frame of the history.
LEMMA StreamHeard ==
  ASSUME NEW L \in Seq(Item), NEW sym, NEW c \in Nat, NEW e \in Nat, Stream(L, c, e, sym), Len(L) >= 6,
         NEW M \in Seq(Item), Len(M) = Len(L) - 6, \A i \in 1 .. Len(M) : M[i] = L[i + 6]
  PROVE  \/ (\A i \in 1 .. 6 : L[i] = Training) /\ Stream(M, c, e, sym)
         \/ /\ 6 * c + 6 <= e /\ \A i \in 1 .. 6 : L[i] = sym[6 * c + (i - 1)]
            /\ Stream(M, c + 1, e, sym)
<1>3. PICK a \in Nat :
        /\ Len(L) = 6 * a + (e - 6 * c)
        /\ \A i \in 1 .. Len(L) : L[i] = IF i <= 6 * a THEN Training ELSE sym[6 * c + ((i - 6 * a) - 1)]
  BY DEF Stream
<1>4. 6 * c <= e
  BY DEF Stream
<1>5. CASE a = 0
  <2>1. 6 * c + 6 <= e /\ 6 * (c + 1) <= e /\ Len(M) = 6 * 0 + (e - 6 * (c + 1))
    BY <1>3, <1>4, <1>5
  <2>2. ASSUME NEW i \in 1 .. 6 PROVE L[i] = sym[6 * c + (i - 1)]
    <3>1. i \in 1 .. Len(L) /\ ~(i <= 6 * a) /\ (i - 6 * a) - 1 = i - 1
      BY <1>5
    <3> QED BY <1>3, <3>1
  <2>3. ASSUME NEW i \in 1 .. Len(M) PROVE M[i] = sym[6 * (c + 1) + ((i - 6 * 0) - 1)] /\ ~(i <= 6 * 0)
    <3>1. i + 6 \in 1 .. Len(L) /\ ~(i + 6 <= 6 * a) /\ ~(i <= 6 * 0)
          /\ 6 * c + (((i + 6) - 6 * a) - 1) = 6 * (c + 1) + ((i - 6 * 0) - 1)
      BY <1>5
    <3>2. L[i + 6] = sym[6 * c + (((i + 6) - 6 * a) - 1)]
      BY <1>3, <3>1
    <3> QED BY <3>1, <3>2
  <2>4. Stream(M, c + 1, e, sym)
    BY <2>1, <2>3 DEF Stream
  <2> QED BY <2>1, <2>2, <2>4
<1>6. CASE a # 0
  <2>1. a - 1 \in Nat /\ Len(M) = 6 * (a - 1) + (e - 6 * c)
    BY <1>3, <1>6
  <2>2. ASSUME NEW i \in 1 .. 6 PROVE L[i] = Training
    <3>1. i \in 1 .. Len(L) /\ i <= 6 * a
      BY <1>6
    <3> QED BY <1>3, <3>1
  <2>3. ASSUME NEW i \in 1 .. Len(M)
        PROVE  M[i] = IF i <= 6 * (a - 1) THEN Training ELSE sym[6 * c + ((i - 6 * (a - 1)) - 1)]
    <3>1. i + 6 \in 1 .. Len(L) /\ (i + 6 <= 6 * a <=> i <= 6 * (a - 1))
          /\ 6 * c + (((i + 6) - 6 * a) - 1) = 6 * c + ((i - 6 * (a - 1)) - 1)
      BY <2>1
    <3>2. L[i + 6] = IF i + 6 <= 6 * a THEN Training ELSE sym[6 * c + (((i + 6) - 6 * a) - 1)]
      BY <1>3, <3>1
    <3> QED BY <3>1, <3>2
  <2>4. Stream(M, c, e, sym)
    BY <1>4, <2>1, <2>3 DEF Stream
  <2> QED BY <2>2, <2>4
<1> QED BY <1>5, <1>6

\* What the far end's decoder knows: the last part after one frame, the last sign bit after two.
FarKnows(H, f) ==
  /\ p.S # 6 => f.t \in Signs /\ f.q = f.t[0]
  /\ p.S # 6 /\ f.count >= 1 => AgreeOn(FrameSize, f.t, H.t[Part(f.count, 0)])
  /\ f.count >= 2 => f.last = Last(H, f.count)

\* The six signs of frame c.
SignsSent(H, c) == [i \in Symbols |-> SignOf(H, c, i)]

\* The parts of a frame that has gone out.
LEMMA PartsSent ==
  ASSUME p \in Params, p.S # 6, NEW g \in Nat, NEW c \in Nat, 6 * c + 6 + Late <= 6 * g
  PROVE  /\ \A h \in 0 .. Parts : Part(c, h) = Part(c, 0) + h /\ Part(c, h) \in Nat /\ Part(c, h) <= Parts * g
         /\ Part(c, Parts) = Part(c + 1, 0)
         /\ \A h \in 1 .. Parts, i \in 0 .. FrameSize - 1 :
              /\ (h - 1) * FrameSize + i \in Symbols
              /\ 1 + ((h - 1) * FrameSize + i) \div FrameSize = h
              /\ ((h - 1) * FrameSize + i) % FrameSize = i
<1>1. \/ Parts = 1 /\ FrameSize = 6
      \/ Parts = 2 /\ FrameSize = 3
      \/ Parts = 3 /\ FrameSize = 2
  BY LateIs, Geometry
<1>2. PICK l \in 0 .. 3 : l = p.ld
  BY LateIs
<1>3. Late = FrameSize * l /\ \A k, h : Part(k, h) = Parts * k + h + l
  BY <1>2 DEF Late, Part
<1>4. ASSUME NEW n \in 1 .. 3, NEW f \in {2, 3, 6}, (n = 1 /\ f = 6) \/ (n = 2 /\ f = 3) \/ (n = 3 /\ f = 2),
             6 * c + 6 + f * l <= 6 * g
      PROVE  /\ \A h \in 0 .. n : /\ n * c + h + l = n * c + 0 + l + h /\ n * c + h + l \in Nat
                                  /\ n * c + h + l <= n * g
             /\ n * c + n + l = n * (c + 1) + 0 + l
             /\ \A h \in 1 .. n, i \in 0 .. f - 1 :
                  (h - 1) * f + i \in 0 .. 5 /\ 1 + ((h - 1) * f + i) \div f = h /\ ((h - 1) * f + i) % f = i
  <2>1. CASE n = 1 /\ f = 6
    <3>1. n * g = g /\ n * (c + 1) = c + 1 /\ n * c = c /\ f * l = 6 * l
      BY <2>1
    <3>2. \A h \in 0 .. n : /\ c + h + l = c + 0 + l + h /\ c + h + l \in Nat /\ c + h + l <= g
      BY <1>4, <2>1, <3>1
    <3>3. \A h \in 1 .. n, i \in 0 .. f - 1 :
            (h - 1) * f + i \in 0 .. 5 /\ 1 + ((h - 1) * f + i) \div f = h /\ ((h - 1) * f + i) % f = i
      <4> SUFFICES ASSUME NEW i \in 0 .. 5
                   PROVE  (1 - 1) * 6 + i \in 0 .. 5 /\ 1 + ((1 - 1) * 6 + i) \div 6 = 1
                          /\ ((1 - 1) * 6 + i) % 6 = i
        BY <2>1
      <4>1. (1 - 1) * 6 + i = i
        OBVIOUS
      <4>2. i \div 6 = 0 /\ i % 6 = i
        OBVIOUS
      <4> QED BY <4>1, <4>2
    <3>4. c + n + l = (c + 1) + 0 + l
      BY <2>1
    <3> QED BY <3>1, <3>2, <3>3, <3>4
  <2>2. CASE n = 2 /\ f = 3
    BY <1>4, <2>2
  <2>3. CASE n = 3 /\ f = 2
    BY <1>4, <2>3
  <2> QED BY <1>4, <2>1, <2>2, <2>3
<1>5. Parts \in 1 .. 3 /\ FrameSize \in {2, 3, 6}
  BY <1>1
<1>6. /\ \A h \in 0 .. Parts : /\ Parts * c + h + l = Parts * c + 0 + l + h /\ Parts * c + h + l \in Nat
                               /\ Parts * c + h + l <= Parts * g
      /\ Parts * c + Parts + l = Parts * (c + 1) + 0 + l
      /\ \A h \in 1 .. Parts, i \in 0 .. FrameSize - 1 :
           /\ (h - 1) * FrameSize + i \in 0 .. 5
           /\ 1 + ((h - 1) * FrameSize + i) \div FrameSize = h
           /\ ((h - 1) * FrameSize + i) % FrameSize = i
  <2>1. 6 * c + 6 + FrameSize * l <= 6 * g
    BY <1>3, Zenon
  <2> QED BY <1>1, <1>4, <1>5, <2>1
<1>7. /\ \A h \in 0 .. Parts : Part(c, h) = Part(c, 0) + h /\ Part(c, h) \in Nat /\ Part(c, h) <= Parts * g
      /\ Part(c, Parts) = Part(c + 1, 0)
  BY <1>3, <1>6, Zenon
<1> QED BY <1>6, <1>7 DEF Symbols

\* A frame's signs give the shaper's parts, and but for the first its bits.
LEMMA SignsHeard ==
  ASSUME p \in Params, p.S # 6, NEW g \in Nat, NEW H, History(H, g),
         NEW c \in Nat, 6 * c + 6 + Late <= 6 * g, NEW f, f.count = c, FarKnows(H, f),
         \A i \in Symbols \ DataSymbols : H.b[c][i] = 0
  PROVE  LET d == Decode(f, SignsSent(H, c))
         IN  /\ SignsSent(H, c) \in Signs
             /\ d.t \in Signs /\ d.q = d.t[0] /\ AgreeOn(FrameSize, d.t, H.t[Part(c + 1, 0)])
             /\ c >= 1 => \A i \in Symbols : Heard(f, SignsSent(H, c))[i] = H.b[c][i]
<1> DEFINE signs == SignsSent(H, c)
           T == [h \in 0 .. Parts |-> H.t[Part(c, 0) + h]]
           Q == [h \in 0 .. Parts |-> H.q[Part(c, 0) + h]]
<1>1. /\ \A h \in 0 .. Parts : Part(c, h) = Part(c, 0) + h /\ Part(c, h) \in Nat /\ Part(c, h) <= Parts * g
      /\ Part(c, Parts) = Part(c + 1, 0)
  BY PartsSent
<1>2. \A h \in 1 .. Parts, i \in 0 .. FrameSize - 1 :
        /\ (h - 1) * FrameSize + i \in Symbols
        /\ 1 + ((h - 1) * FrameSize + i) \div FrameSize = h
        /\ ((h - 1) * FrameSize + i) % FrameSize = i
  BY PartsSent
<1>3. /\ H.t \in [Nat -> Signs] /\ H.q \in [Nat -> Bit] /\ H.b \in [Nat -> Signs]
      /\ \A r \in Nat : r <= Parts * g => H.q[r] = H.t[r][0]
  BY DEF History
<1>4. \A h \in 0 .. Parts : T[h] = H.t[Part(c, h)] /\ Q[h] = H.q[Part(c, h)]
  BY <1>1
<1>5. p.S \in 3 .. 5 /\ Parts \in 1 .. 3 /\ 0 \in 0 .. Parts /\ Parts \in 0 .. Parts
  BY LateIs DEF Parts
<1>6. signs \in Signs
  <2>1. ASSUME NEW i \in Symbols PROVE SignOf(H, c, i) \in Bit
    <3>1. 1 + i \div FrameSize \in 1 .. Parts /\ i % FrameSize \in Symbols
      BY Grid
    <3>2. \A h \in 1 .. Parts, y \in Symbols : H.t[Part(c, h)][y] \in Bit
      <4>1. \A h \in 1 .. Parts : h \in 0 .. Parts
        OBVIOUS
      <4> QED BY <1>1, <1>3, <4>1 DEF Signs
    <3> QED BY <3>1, <3>2 DEF SignOf
  <2> QED BY <2>1 DEF SignsSent, Signs
<1>7. \A h \in 1 .. Parts, i \in 0 .. FrameSize - 1 : signs[(h - 1) * FrameSize + i] = T[h][i]
  <2> SUFFICES ASSUME NEW h \in 1 .. Parts, NEW i \in 0 .. FrameSize - 1
               PROVE  signs[(h - 1) * FrameSize + i] = T[h][i]
    OBVIOUS
  <2>1. PICK x \in Symbols : x = (h - 1) * FrameSize + i
    BY <1>2
  <2>2. 1 + x \div FrameSize = h /\ x % FrameSize = i
    BY <1>2, <2>1, Zenon
  <2>3. signs[x] = H.t[Part(c, h)][i]
    BY <2>2 DEF SignsSent, SignOf
  <2>4. h \in 0 .. Parts
    OBVIOUS
  <2> QED BY <1>4, <2>1, <2>3, <2>4
<1>8. Shapes(T, Q, H.b[c])
  <2>1. ASSUME NEW h \in 0 .. Parts PROVE T[h] \in Signs /\ Q[h] = T[h][0]
    BY <1>1, <1>3, <1>4
  <2>2. ASSUME NEW h \in 1 .. Parts
        PROVE  T[h] = Inverted(Inverted(T[h - 1], PartOf(H.b[c], h)), SignOp(Q[h], Q[h - 1]))
    <3>1. h \in 0 .. Parts /\ h - 1 \in 0 .. Parts
      BY <1>5
    <3>2. Part(c, h) \in Nat /\ Part(c, h) <= Parts * g /\ Part(c, h) - 1 = Part(c, h - 1)
      <4>1. Part(c, h) = Part(c, 0) + h /\ Part(c, h - 1) = Part(c, 0) + (h - 1) /\ Part(c, 0) \in Nat
        BY <1>1, <1>5, <3>1
      <4> QED BY <1>1, <3>1, <4>1
    <3>3. H.t[Part(c, h)] = Inverted(Inverted(H.t[Part(c, h) - 1], PartOf(H.b[c], h)),
                                     SignOp(H.q[Part(c, h)], H.q[Part(c, h) - 1]))
      BY <3>2 DEF History
    <3> QED BY <1>4, <3>1, <3>2, <3>3
  <2> HIDE DEF T, Q
  <2> QED BY <2>1, <2>2 DEF Shapes
<1>9. f.t \in Signs /\ f.q = f.t[0] /\ (c >= 1 => AgreeOn(FrameSize, f.t, H.t[Part(c, 0)]))
  BY DEF FarKnows
<1>10. H.b[c] \in Signs
  BY <1>3
<1>11. T[Parts] = H.t[Part(c + 1, 0)] /\ T[0] = H.t[Part(c, 0)]
  BY <1>1, <1>4, <1>5
<1> HIDE DEF T, Q, signs
<1>12. /\ Decode(f, signs).t \in Signs /\ Decode(f, signs).q = Decode(f, signs).t[0]
       /\ AgreeOn(FrameSize, Decode(f, signs).t, T[Parts])
       /\ AgreeOn(FrameSize, f.t, T[0]) => \A i \in Symbols : Heard(f, signs)[i] = H.b[c][i]
  BY <1>5, <1>6, <1>7, <1>8, <1>9, <1>10, PartsDecode
<1> QED BY <1>6, <1>9, <1>11, <1>12 DEF signs

\* Six symbols that are frame c of the history.
Frame(frame, H, c) == \A i \in 1 .. 6 : frame[i] = H.sym[6 * c + (i - 1)]

\* V90PcmMapper::decode gives back a frame's data from the third frame on, and goes on knowing.
LEMMA FarDecodes ==
  ASSUME p \in Params, payload \in Payloads, p.S = 6 => p.ld = 0, NEW g \in Nat, NEW H, History(H, g),
         NEW f, f.count \in Nat, FarKnows(H, f), 6 * f.count + 6 <= Kept(g),
         NEW frame, Frame(frame, H, f.count)
  PROVE  LET d == Decode(f, [i \in Symbols |-> frame[i + 1].sign])
             digits == [i \in Symbols |-> frame[i + 1].mag]
         IN  /\ \A i \in 1 .. 6 : frame[i].kind = "mapped"
             /\ FarKnows(H, [got |-> <<>>, last |-> d.last, t |-> d.t, q |-> d.q, count |-> f.count + 1])
             /\ f.count >= 2 => Same(Given(f.count), d.data, Value(digits))
<1> DEFINE signs == [i \in Symbols |-> frame[i + 1].sign]
           digits == [i \in Symbols |-> frame[i + 1].mag]
           d == Decode(f, signs)
<1>1. PICK c \in Nat : c = f.count
  OBVIOUS
<1>2. Late \in 0 .. 18
  BY LateIs
<1>3. 6 * c + 6 + Late <= 6 * g /\ c < g
  BY <1>1, <1>2 DEF Kept
<1>4. ASSUME NEW i \in Symbols PROVE frame[i + 1] = Mapped(Digits(Given(c))[i], SignOf(H, c, i))
  <2>1. i \in 0 .. 5 /\ i + 1 \in 1 .. 6 /\ (i + 1) - 1 = i
    BY DEF Symbols
  <2>2. frame[i + 1] = H.sym[6 * c + i]
    BY <1>1, <2>1 DEF Frame
  <2>3. 6 * c + i + Late < 6 * g
    BY <1>2, <1>3, <2>1
  <2> QED BY <2>2, <2>3 DEF History
<1>17. \A a, b : Mapped(a, b).kind = "mapped" /\ Mapped(a, b).mag = a /\ Mapped(a, b).sign = b
  BY DEF Mapped
<1>18. \A i \in Symbols : /\ frame[i + 1].kind = "mapped" /\ frame[i + 1].mag = Digits(Given(c))[i]
                           /\ frame[i + 1].sign = SignOf(H, c, i)
  BY <1>4, <1>17
<1>5. signs = SignsSent(H, c)
  BY <1>18 DEF SignsSent
<1>6. digits = Digits(Given(c))
  <2>1. \A i \in Symbols : frame[i + 1].mag = Digits(Given(c))[i]
    BY <1>18
  <2>2. Digits(Given(c)) = [i \in Symbols |-> Digits(Given(c))[i]]
    BY DEF Digits
  <2> QED BY <2>1, <2>2
<1>7. \A i \in 1 .. 6 : frame[i].kind = "mapped"
  <2> SUFFICES ASSUME NEW i \in 1 .. 6 PROVE frame[i].kind = "mapped"
    OBVIOUS
  <2>1. i - 1 \in Symbols /\ (i - 1) + 1 = i
    BY DEF Symbols
  <2> QED BY <1>18, <2>1
<1>8. Value(digits) = Given(c).value
  <2>1. PICK k \in Params : p = k
    OBVIOUS
  <2>2. Given(c).value \in Nat /\ Given(c).value < 2 ^ k.K
    BY <2>1, GivenIs
  <2>3. Value(Digits(Given(c))) = Given(c).value
    BY <2>1, <2>2, DigitsValue
  <2> HIDE DEF digits
  <2> QED BY <1>6, <2>3
<1>9. /\ d.data = DataOf(Heard(f, signs), f.last) /\ d.last = LastBit(Heard(f, signs))
  BY DecodeIs
<1>10. H.b[c] = SignBits(Given(c), Last(H, c)) /\ H.b[c] \in Signs
  BY <1>3 DEF History
<1>11. Given(c).signs \in Signs /\ Last(H, c) \in Bit
  <2>1. Given(c).signs \in Signs
    BY GivenIs
  <2>2. \A bits \in Signs : LastBit(bits) \in Bit
    BY LateIs, Carriers DEF LastBit, Signs
  <2>3. Last(H, c) \in Bit
    BY <2>2 DEF Last, History, Bit
  <2> QED BY <2>1, <2>3
<1>12. \A i \in Symbols \ DataSymbols : H.b[c][i] = 0
  BY <1>10, <1>11, LateIs, SignBitsAre
<1>13. /\ p.S # 6 => d.t \in Signs /\ d.q = d.t[0] /\ AgreeOn(FrameSize, d.t, H.t[Part(c + 1, 0)])
       /\ p.S = 6 \/ c >= 1 => \A i \in Symbols : Heard(f, signs)[i] = H.b[c][i]
  <2>1. CASE p.S = 6
    <3>1. Heard(f, signs) = signs
      BY <2>1 DEF Heard
    <3>2. \A i \in Symbols : signs[i] = H.b[c][i]
      BY <1>5, <2>1 DEF SignsSent, SignOf
    <3> HIDE DEF signs
    <3> QED BY <2>1, <3>1, <3>2
  <2>2. CASE p.S # 6
    <3> HIDE DEF signs
    <3> QED BY <1>1, <1>3, <1>5, <1>12, <2>2, SignsHeard
  <2> QED BY <2>1, <2>2
<1> HIDE DEF signs, digits, d
<1>14. c >= 1 => d.last = Last(H, c + 1)
  <2>1. (c + 1) # 0 /\ (c + 1) - 1 = c
    OBVIOUS
  <2>2. Last(H, c + 1) = LastBit(H.b[c])
    BY <2>1 DEF Last
  <2>3. Differential[Len(Differential)] \in Symbols
    BY LateIs, Carriers
  <2> QED BY <1>9, <1>13, <2>2, <2>3 DEF LastBit
<1>15. FarKnows(H, [got |-> <<>>, last |-> d.last, t |-> d.t, q |-> d.q, count |-> f.count + 1])
  <2>1. f.count + 1 >= 2 => c >= 1
    BY <1>1
  <2> QED BY <1>1, <1>13, <1>14, <2>1 DEF FarKnows
<1>16. ASSUME c >= 2 PROVE Same(Given(c), d.data, Value(digits))
  <2>1. f.last = Last(H, c)
    BY <1>1, <1>16 DEF FarKnows
  <2>2. \A i \in Symbols : Heard(f, signs)[i] = SignBits(Given(c), Last(H, c))[i]
    BY <1>10, <1>13, <1>16
  <2>3. \A b \in 0 .. p.S - 1 : DataOf(Heard(f, signs), Last(H, c))[b] = Given(c).signs[b]
    BY <1>11, <2>2, LateIs, BitsDecode
  <2> QED BY <1>8, <1>9, <2>1, <2>3 DEF Same
<1> QED BY <1>1, <1>7, <1>15, <1>16 DEF d, signs, digits

-----------------------------------------------------------------------------
(* A call as a whole: encoding, sending and hearing. *)

\* A call: the history of g frames, the mapper m, d symbols still to be discarded, the line L and
\* the far end f.
InCall(H, m, g, d, L, f) ==
  /\ History(H, g) /\ Memory(m, H, g) /\ d = Skip(g)
  /\ Stream(L, f.count, Kept(g), H.sym) /\ FarKnows(H, f)

\* The tail of a sequence after k of its elements.
LEMMA SubSeqIs ==
  ASSUME NEW S, NEW s \in Seq(S), NEW k \in 0 .. Len(s)
  PROVE  /\ SubSeq(s, k + 1, Len(s)) \in Seq(S) /\ Len(SubSeq(s, k + 1, Len(s))) = Len(s) - k
         /\ \A i \in 1 .. Len(s) - k : SubSeq(s, k + 1, Len(s))[i] = s[k + i]
<1> DEFINE w == SubSeq(s, k + 1, Len(s))
<1>1. k + 1 \in 1 .. Len(s) + 1 /\ Len(s) \in k .. Len(s) /\ Len(s) \in Nat
  OBVIOUS
<1>2. /\ w \in Seq(S) /\ Len(w) = IF k + 1 <= Len(s) THEN Len(s) - (k + 1) + 1 ELSE 0
      /\ \A i \in 1 .. Len(s) - (k + 1) + 1 : w[i] = s[k + 1 + i - 1]
  BY <1>1, SubSeqProperties
<1> HIDE DEF w
<1>3. Len(w) = Len(s) - k
  BY <1>2
<1>4. ASSUME NEW i \in 1 .. Len(s) - k PROVE w[i] = s[k + i]
  <2>1. i \in 1 .. Len(s) - (k + 1) + 1 /\ k + 1 + i - 1 = k + i
    OBVIOUS
  <2>2. w[i] = s[k + 1 + i - 1]
    BY <1>2, <2>1
  <2> QED BY <2>1, <2>2
<1> QED BY <1>2, <1>3, <1>4 DEF w

\* The frames from g on as they come out of the mapper, and what is kept of them.
MapperSends(out, g, n, sym) ==
  /\ out \in Seq(Item) /\ Len(out) = 6 * n
  /\ \A j \in 1 .. 6 * n : Late <= 6 * g + (j - 1) => out[j] = sym[6 * g + ((j - 1) - Late)]
\* What encode_raw_bits drops of them, and what it keeps.
DropOf(out, d) == IF d < Len(out) THEN d ELSE Len(out)
\* See DropOf.
KeptOf(out, d) == SubSeq(out, DropOf(out, d) + 1, Len(out))
\* The kept symbols are the next ones of the stream.
Keeps(out, g, n, sym, d) ==
  /\ KeptOf(out, d) \in Seq(Item) /\ Len(KeptOf(out, d)) = Kept(g + n) - Kept(g)
  /\ Kept(g) \in Nat /\ Kept(g + n) \in Nat /\ Kept(g) <= Kept(g + n)
  /\ \A i \in 1 .. Len(KeptOf(out, d)) : KeptOf(out, d)[i] = sym[Kept(g) + (i - 1)]
  /\ d - DropOf(out, d) = Skip(g + n)

\* Discarding the first Late symbols puts the first frame of the mapper at the joint.
LEMMA KeptAre ==
  ASSUME p \in Params, NEW g \in Nat, NEW n \in Nat, NEW out, NEW sym, MapperSends(out, g, n, sym),
         NEW d, d = Skip(g)
  PROVE  Keeps(out, g, n, sym, d)
<1> DEFINE kept == KeptOf(out, d)
           dropped == DropOf(out, d)
<1>0. /\ out \in Seq(Item) /\ Len(out) = 6 * n
      /\ \A j \in 1 .. 6 * n : Late <= 6 * g + (j - 1) => out[j] = sym[6 * g + ((j - 1) - Late)]
      /\ dropped = IF Skip(g) < Len(out) THEN Skip(g) ELSE Len(out)
      /\ kept = SubSeq(out, dropped + 1, Len(out))
  BY DEF MapperSends, DropOf, KeptOf
<1> HIDE DEF kept, dropped
<1>1. PICK l \in 0 .. 18 : l = Late
  BY LateIs
<1>2. /\ Skip(g) = IF 6 * g < l THEN l - 6 * g ELSE 0
      /\ Skip(g + n) = IF 6 * g + 6 * n < l THEN l - (6 * g + 6 * n) ELSE 0
      /\ Kept(g) = IF 6 * g < l THEN 0 ELSE 6 * g - l
      /\ Kept(g + n) = IF 6 * g + 6 * n < l THEN 0 ELSE (6 * g + 6 * n) - l
  <2>1. 6 * (g + n) = 6 * g + 6 * n
    OBVIOUS
  <2> QED BY <1>1, <2>1 DEF Skip, Kept
<1>3. dropped \in 0 .. Len(out)
  BY <1>0, <1>2
<1>4. /\ kept \in Seq(Item) /\ Len(kept) = Len(out) - dropped
      /\ \A i \in 1 .. Len(out) - dropped : kept[i] = out[dropped + i]
  BY <1>0, <1>3, SubSeqIs
<1>5. /\ Len(kept) = Kept(g + n) - Kept(g)
      /\ Kept(g) \in Nat /\ Kept(g + n) \in Nat /\ Kept(g) <= Kept(g + n)
      /\ Skip(g) - dropped = Skip(g + n)
  <2>1. PICK a \in Nat, b \in Nat : a = 6 * g /\ b = 6 * n
    OBVIOUS
  <2>2. /\ Skip(g) = IF a < l THEN l - a ELSE 0
        /\ Skip(g + n) = IF a + b < l THEN l - (a + b) ELSE 0
        /\ Kept(g) = IF a < l THEN 0 ELSE a - l
        /\ Kept(g + n) = IF a + b < l THEN 0 ELSE (a + b) - l
        /\ dropped = IF Skip(g) < b THEN Skip(g) ELSE b
        /\ Len(kept) = b - dropped
    BY <1>0, <1>2, <1>4, <2>1
  <2>3. CASE a < l /\ a + b < l
    BY <2>2, <2>3
  <2>4. CASE a < l /\ ~(a + b < l)
    BY <2>2, <2>4
  <2>5. CASE ~(a < l)
    BY <2>2, <2>5
  <2> QED BY <2>3, <2>4, <2>5
<1>6. ASSUME NEW i \in 1 .. Len(kept) PROVE kept[i] = sym[Kept(g) + (i - 1)]
  <2>1. i \in 1 .. Len(out) - dropped /\ dropped + i \in 1 .. 6 * n
    <3>1. i \in 1 .. Len(out) - dropped
      BY <1>4
    <3>2. PICK x \in Nat : x = Len(out) /\ x = 6 * n
      BY <1>0
    <3>3. dropped \in 0 .. x /\ i \in 1 .. x - dropped
      BY <1>3, <3>1, <3>2
    <3>4. dropped + i \in 1 .. x
      BY <3>3
    <3> QED BY <3>1, <3>2, <3>4
  <2>2. l <= 6 * g + ((dropped + i) - 1) /\ 6 * g + (((dropped + i) - 1) - l) = Kept(g) + (i - 1)
    BY <1>0, <1>2, <1>3, <2>1
  <2>3. out[dropped + i] = sym[6 * g + (((dropped + i) - 1) - l)]
    BY <1>0, <1>1, <2>1, <2>2
  <2> QED BY <1>4, <2>1, <2>2, <2>3
<1>7. d - dropped = Skip(g + n)
  BY <1>5
<1> QED BY <1>4, <1>5, <1>6, <1>7 DEF kept, dropped, Keeps

\* New frames change nothing the far end has heard.
LEMMA FarStillKnows ==
  ASSUME p \in Params, NEW g \in Nat, NEW H, NEW G, Continues(H, G, g), NEW f, f.count \in Nat,
         FarKnows(H, f), 6 * f.count <= Kept(g)
  PROVE  FarKnows(G, f)
<1>1. PICK c \in Nat : c = f.count
  OBVIOUS
<1>2. Late \in 0 .. 18
  BY LateIs
<1>3. c >= 1 => 6 * c + Late <= 6 * g /\ c - 1 \in Nat /\ c - 1 < g
  BY <1>1, <1>2 DEF Kept
<1>4. ASSUME p.S # 6, c >= 1 PROVE G.t[Part(c, 0)] = H.t[Part(c, 0)]
  <2>1. 6 * (c - 1) + 6 + Late <= 6 * g /\ c - 1 \in Nat /\ (c - 1) + 1 = c
    BY <1>2, <1>3, <1>4
  <2>2. Parts \in 0 .. Parts
    BY LateIs DEF Parts
  <2>3. Part(c - 1, Parts) = Part((c - 1) + 1, 0) /\ Part(c - 1, Parts) \in Nat
        /\ Part(c - 1, Parts) <= Parts * g
    BY <1>4, <2>1, <2>2, PartsSent
  <2>4. Part(c, 0) \in Nat /\ Part(c, 0) <= Parts * g
    BY <2>1, <2>3
  <2> QED BY <2>4 DEF Continues
<1>5. c >= 2 => Last(G, c) = Last(H, c)
  BY <1>3 DEF Last, Continues
<1> QED BY <1>1, <1>4, <1>5 DEF FarKnows

\* encode_raw_bits puts its frames at the end of the line.
LEMMA MoreEncoded ==
  ASSUME p \in Params, payload \in Payloads, p.S = 6 => p.ld = 0, given \in Nat,
         NEW L \in Seq(Item), NEW f, f.count \in Nat, NEW H, InCall(H, mapper, given, discard, L, f),
         NEW n \in Nat, NEW paths \in [1 .. n -> Paths]
  PROVE  LET e == Encoded(n, paths)
             dropped == IF discard < Len(e.out) THEN discard ELSE Len(e.out)
             kept == SubSeq(e.out, dropped + 1, Len(e.out))
         IN  /\ kept \in Seq(Item)
             /\ \E G : InCall(G, e.mapper, given + n, discard - dropped, L \o kept, f)
<1> DEFINE e == Encoded(n, paths)
           dropped == IF discard < Len(e.out) THEN discard ELSE Len(e.out)
           kept == SubSeq(e.out, dropped + 1, Len(e.out))
<1>1. /\ History(H, given) /\ Memory(mapper, H, given) /\ discard = Skip(given)
      /\ Stream(L, f.count, Kept(given), H.sym) /\ FarKnows(H, f)
  BY DEF InCall
<1>2. /\ e.out \in Seq(Item) /\ Len(e.out) = 6 * n
      /\ \E G : Grown(H, n, e.mapper, e.out, G)
  BY <1>1, FramesEncoded
<1>3. PICK G : Grown(H, n, e.mapper, e.out, G)
  BY <1>2
<1> HIDE DEF e
<1>4. /\ Continues(H, G, given) /\ History(G, given + n) /\ Memory(e.mapper, G, given + n)
      /\ \A j \in 1 .. 6 * n : Late <= 6 * given + (j - 1) => e.out[j] = G.sym[6 * given + ((j - 1) - Late)]
  BY <1>3 DEF Grown
<1>5. dropped = DropOf(e.out, discard) /\ kept = KeptOf(e.out, discard)
  BY DEF DropOf, KeptOf
<1> HIDE DEF dropped, kept
<1>6. /\ kept \in Seq(Item) /\ Len(kept) = Kept(given + n) - Kept(given)
      /\ Kept(given) \in Nat /\ Kept(given + n) \in Nat /\ Kept(given) <= Kept(given + n)
      /\ \A i \in 1 .. Len(kept) : kept[i] = G.sym[Kept(given) + (i - 1)]
      /\ discard - dropped = Skip(given + n)
  <2>1. MapperSends(e.out, given, n, G.sym)
    BY <1>2, <1>4 DEF MapperSends
  <2>2. Keeps(e.out, given, n, G.sym, discard)
    BY <1>1, <2>1, KeptAre
  <2> QED BY <1>5, <2>2 DEF Keeps
<1>7. \A s \in Nat : s < Kept(given) => G.sym[s] = H.sym[s]
  <2> SUFFICES ASSUME NEW s \in Nat, s < Kept(given) PROVE G.sym[s] = H.sym[s]
    OBVIOUS
  <2>1. s + Late < 6 * given
    <3>1. Late \in 0 .. 18
      BY LateIs
    <3> QED BY <3>1 DEF Kept
  <2> QED BY <1>4, <2>1 DEF Continues
<1>8. Stream(L \o kept, f.count, Kept(given + n), G.sym)
  <2>1. PICK c \in Nat, a \in Nat, b \in Nat : c = f.count /\ a = Kept(given) /\ b = Kept(given + n)
    BY <1>6
  <2>2. Stream(L, c, a, H.sym) /\ SameBefore(a, H.sym, G.sym) /\ Follows(kept, a, b, G.sym)
    BY <1>1, <1>6, <1>7, <2>1 DEF SameBefore, Follows
  <2>3. Stream(L \o kept, c, b, G.sym)
    BY <2>2, StreamMore
  <2> QED BY <2>1, <2>3
<1>9. FarKnows(G, f)
  <2>1. 6 * f.count <= Kept(given)
    BY <1>1 DEF Stream
  <2> QED BY <1>1, <1>4, <2>1, FarStillKnows
<1>10. InCall(G, e.mapper, given + n, discard - dropped, L \o kept, f)
  BY <1>1, <1>4, <1>6, <1>8, <1>9 DEF InCall
<1> QED BY <1>6, <1>10 DEF e, dropped, kept

\* The first symbol of the queue goes to the far end.
LEMMA Shifted ==
  ASSUME NEW S, NEW got \in Seq(S), NEW q \in Seq(S), q # <<>>
  PROVE  /\ Append(got, Head(q)) \in Seq(S) /\ Len(Append(got, Head(q))) = Len(got) + 1
         /\ Head(q) \in S /\ Tail(q) \in Seq(S) /\ got \o q = Append(got, Head(q)) \o Tail(q)
<1> DEFINE x == Head(q)
           r == Tail(q)
           u == Append(got, x)
           v == got \o q
           w == u \o r
<1>1. x \in S /\ r \in Seq(S) /\ Len(r) = Len(q) - 1 /\ Len(q) >= 1 /\ x = q[1]
      /\ \A i \in 1 .. Len(r) : r[i] = q[i + 1]
  OBVIOUS
<1> HIDE DEF x, r
<1>2. u \in Seq(S) /\ Len(u) = Len(got) + 1 /\ u[Len(got) + 1] = x
      /\ \A i \in 1 .. Len(got) : u[i] = got[i]
  BY <1>1
<1> HIDE DEF u
<1>3. /\ w \in Seq(S) /\ Len(w) = Len(u) + Len(r)
      /\ \A i \in 1 .. Len(u) + Len(r) : w[i] = IF i <= Len(u) THEN u[i] ELSE r[i - Len(u)]
  BY <1>1, <1>2, ConcatProperties
<1>4. /\ v \in Seq(S) /\ Len(v) = Len(got) + Len(q)
      /\ \A i \in 1 .. Len(got) + Len(q) : v[i] = IF i <= Len(got) THEN got[i] ELSE q[i - Len(got)]
  BY ConcatProperties
<1> HIDE DEF v, w
<1>5. Len(v) = Len(w)
  BY <1>1, <1>2, <1>3, <1>4
<1>6. ASSUME NEW i \in 1 .. Len(v) PROVE v[i] = w[i]
  <2>1. CASE i <= Len(got)
    <3>1. v[i] = got[i] /\ u[i] = got[i]
      BY <1>2, <1>4, <2>1
    <3>2. i \in 1 .. Len(u) + Len(r) /\ i <= Len(u)
      BY <1>2, <1>3, <1>5, <2>1
    <3>3. w[i] = u[i]
      BY <1>3, <3>2
    <3> QED BY <3>1, <3>3
  <2>2. CASE i = Len(got) + 1
    <3>1. v[i] = q[1]
      <4>1. i \in 1 .. Len(got) + Len(q) /\ ~(i <= Len(got)) /\ i - Len(got) = 1
        BY <1>1, <2>2
      <4> QED BY <1>4, <4>1
    <3>2. w[i] = x
      <4>1. i \in 1 .. Len(u) + Len(r) /\ i <= Len(u)
        BY <1>2, <1>3, <1>5, <2>2
      <4>2. w[i] = u[i]
        BY <1>3, <4>1
      <4> QED BY <1>2, <2>2, <4>2
    <3> QED BY <1>1, <3>1, <3>2
  <2>3. CASE i > Len(got) + 1
    <3>1. v[i] = q[i - Len(got)]
      BY <1>4, <2>3
    <3>2. w[i] = r[i - Len(u)] /\ i - Len(u) \in 1 .. Len(r) /\ (i - Len(u)) + 1 = i - Len(got)
      <4>1. i \in 1 .. Len(u) + Len(r) /\ ~(i <= Len(u)) /\ i - Len(u) \in 1 .. Len(r)
            /\ (i - Len(u)) + 1 = i - Len(got)
        BY <1>1, <1>2, <1>3, <1>5, <2>3
      <4> QED BY <1>3, <4>1
    <3> QED BY <1>1, <3>1, <3>2
  <2> QED BY <2>1, <2>2, <2>3
<1>7. v = w
  BY <1>3, <1>4, <1>5, <1>6, SeqEqual
<1> QED BY <1>1, <1>2, <1>7 DEF x, r, u, v, w

\* The count of kept symbols is a number.
LEMMA KeptIsNat ==
  ASSUME p \in Params, NEW g \in Nat
  PROVE  Kept(g) \in Nat
<1>1. PICK l \in 0 .. 18 : l = Late
  BY LateIs
<1> QED BY <1>1 DEF Kept

\* The far end is a record of its five fields.
FarShape == far = [got |-> far.got, last |-> far.last, t |-> far.t, q |-> far.q, count |-> far.count]

\* One symbol more for the far end.
LEMMA FarStep ==
  ASSUME p \in Params, payload \in Payloads, p.S = 6 => p.ld = 0, NEW g \in Nat, NEW H, NEW m, NEW d,
         FarShape, far.got \in Seq(Item), Len(far.got) < 6, far.count \in Nat, errors \subseteq {1, 2},
         NEW due \in Seq(Item), due # <<>>, InCall(H, m, g, d, far.got \o due, far),
         FarHears(Head(due))
  PROVE  /\ FarShape' /\ far'.got \in Seq(Item) /\ Len(far'.got) < 6 /\ far'.count \in Nat
         /\ errors' \subseteq {1, 2}
         /\ InCall(H, m, g, d, far'.got \o Tail(due), far')
<1> DEFINE frame == Append(far.got, Head(due))
           r == Tail(due)
           L == far.got \o due
<1>1. /\ frame \in Seq(Item) /\ Len(frame) = Len(far.got) + 1
      /\ r \in Seq(Item) /\ L = frame \o r
  BY Shifted
<1>7. Len(frame) \in 1 .. 6
  BY <1>1
<1>2. History(H, g) /\ Memory(m, H, g) /\ d = Skip(g) /\ Stream(L, far.count, Kept(g), H.sym)
      /\ FarKnows(H, far)
  BY DEF InCall
<1> DEFINE digits == [i \in Symbols |-> frame[i + 1].mag]
           dd == Decode(far, [i \in Symbols |-> frame[i + 1].sign])
<1>3. IF Len(frame) < 6 THEN far' = [far EXCEPT !.got = frame] /\ errors' = errors
      ELSE IF \A i \in 1 .. 6 : frame[i].kind = "training"
      THEN far' = [far EXCEPT !.got = <<>>] /\ errors' = errors
      ELSE IF \A i \in 1 .. 6 : frame[i].kind = "mapped"
      THEN /\ far' = [got |-> <<>>, last |-> dd.last, t |-> dd.t, q |-> dd.q, count |-> far.count + 1]
           /\ errors' = IF Same(Given(far.count), dd.data, Value(digits)) THEN errors
                        ELSE errors \cup {far.count + 1}
      ELSE far' = [far EXCEPT !.got = <<>>] /\ errors' = errors \cup {0}
  BY Zenon DEF FarHears
<1> HIDE DEF frame, r, L, digits, dd
<1>8. frame \in Seq(Item) /\ r \in Seq(Item) /\ L = frame \o r /\ Len(r) \in Nat
  BY <1>1
<1>4. CASE Len(frame) < 6
  <2>1. far' = [far EXCEPT !.got = frame] /\ errors' = errors
    BY <1>3, <1>4
  <2>2. far' = [got |-> frame, last |-> far.last, t |-> far.t, q |-> far.q, count |-> far.count]
    BY <2>1 DEF FarShape
  <2>3. FarKnows(H, far')
    BY <1>2, <2>2 DEF FarKnows
  <2>4. far'.got \o r = L /\ far'.count = far.count
    BY <1>1, <2>2
  <2>5. InCall(H, m, g, d, far'.got \o r, far')
    BY <1>2, <2>3, <2>4 DEF InCall
  <2>6. FarShape'
    BY <2>2 DEF FarShape
  <2> QED BY <1>1, <1>4, <2>1, <2>2, <2>5, <2>6 DEF r
<1>5. CASE Len(frame) >= 6
  <2>0. Len(frame) = 6 /\ Kept(g) \in Nat
    <3>1. PICK n \in 1 .. 6 : n = Len(frame)
      BY <1>7
    <3>2. n = 6
      BY <1>5, <3>1
    <3> QED BY <3>1, <3>2, KeptIsNat
  <2>1. /\ L \in Seq(Item) /\ Len(L) = Len(frame) + Len(r)
        /\ \A i \in 1 .. Len(frame) + Len(r) : L[i] = IF i <= Len(frame) THEN frame[i] ELSE r[i - Len(frame)]
    BY <1>8, ConcatProperties
  <2>2. Len(L) >= 6 /\ Len(r) = Len(L) - 6 /\ \A i \in 1 .. 6 : L[i] = frame[i]
    <3>1. \A i \in 1 .. 6 : i \in 1 .. Len(frame) + Len(r) /\ i <= Len(frame)
      BY <1>8, <2>0
    <3>2. \A i \in 1 .. 6 : L[i] = frame[i]
      BY <2>1, <3>1
    <3>3. Len(L) >= 6 /\ Len(r) = Len(L) - 6
      BY <1>8, <2>0, <2>1
    <3> QED BY <3>2, <3>3
  <2>3. \A i \in 1 .. Len(r) : r[i] = L[i + 6]
    <3> SUFFICES ASSUME NEW i \in 1 .. Len(r) PROVE r[i] = L[i + 6]
      OBVIOUS
    <3>1. i + 6 \in 1 .. Len(frame) + Len(r) /\ ~(i + 6 <= Len(frame)) /\ (i + 6) - Len(frame) = i
      BY <1>8, <2>0
    <3> QED BY <2>1, <3>1
  <2>4. PICK c \in Nat, e \in Nat : c = far.count /\ e = Kept(g)
    BY <2>0
  <2>5. Stream(L, c, e, H.sym)
    BY <1>2, <2>4
  <2>6. \/ (\A i \in 1 .. 6 : L[i] = Training) /\ Stream(r, c, e, H.sym)
        \/ /\ 6 * c + 6 <= e /\ \A i \in 1 .. 6 : L[i] = H.sym[6 * c + (i - 1)]
           /\ Stream(r, c + 1, e, H.sym)
    BY <1>1, <2>1, <2>2, <2>3, <2>5, StreamHeard
  <2>7. <<>> \in Seq(Item) /\ Len(<<>>) < 6 /\ <<>> \o r = r
    BY <1>1
  <2>8. CASE (\A i \in 1 .. 6 : L[i] = Training) /\ Stream(r, c, e, H.sym)
    <3>1. \A i \in 1 .. 6 : frame[i].kind = "training"
      <4>1. \A i \in 1 .. 6 : frame[i] = Training
        BY <2>2, <2>8
      <4>2. Training.kind = "training"
        BY DEF Training
      <4> QED BY <4>1, <4>2
    <3>2. frame[1].kind # "mapped"
      BY <3>1
    <3>3. far' = [far EXCEPT !.got = <<>>] /\ errors' = errors
      BY <1>3, <2>0, <3>1, <3>2
    <3>4. far' = [got |-> <<>>, last |-> far.last, t |-> far.t, q |-> far.q, count |-> far.count]
      BY <3>3 DEF FarShape
    <3>5. FarKnows(H, far')
      BY <1>2, <3>4 DEF FarKnows
    <3>6. far'.got \o r = r /\ far'.count = c
      BY <2>4, <2>7, <3>4
    <3>7. InCall(H, m, g, d, far'.got \o r, far')
      BY <1>2, <2>4, <2>8, <3>5, <3>6 DEF InCall
    <3>8. FarShape'
      BY <3>4 DEF FarShape
    <3> QED BY <2>7, <3>3, <3>4, <3>7, <3>8 DEF r
  <2>9. CASE /\ 6 * c + 6 <= e /\ \A i \in 1 .. 6 : L[i] = H.sym[6 * c + (i - 1)]
             /\ Stream(r, c + 1, e, H.sym)
    <3>1. Frame(frame, H, c)
      BY <2>2, <2>9 DEF Frame
    <3>2. /\ \A i \in 1 .. 6 : frame[i].kind = "mapped"
          /\ FarKnows(H, [got |-> <<>>, last |-> dd.last, t |-> dd.t, q |-> dd.q, count |-> far.count + 1])
          /\ far.count >= 2 => Same(Given(far.count), dd.data, Value(digits))
      BY <1>2, <2>4, <2>9, <3>1, FarDecodes DEF dd, digits
    <3>3. frame[1].kind # "training"
      BY <3>2
    <3>4. /\ far' = [got |-> <<>>, last |-> dd.last, t |-> dd.t, q |-> dd.q, count |-> far.count + 1]
          /\ errors' = IF Same(Given(far.count), dd.data, Value(digits)) THEN errors
                       ELSE errors \cup {far.count + 1}
      BY <1>3, <2>0, <3>2, <3>3
    <3>5. errors' \subseteq {1, 2}
      <4>1. CASE far.count >= 2
        BY <3>2, <3>4, <4>1
      <4>2. CASE ~(far.count >= 2)
        <5>1. far.count + 1 \in {1, 2}
          BY <4>2
        <5> QED BY <3>4, <5>1
      <4> QED BY <4>1, <4>2
    <3>6. FarKnows(H, far')
      BY <3>2, <3>4
    <3>7. far'.got \o r = r /\ far'.count = c + 1
      BY <2>4, <2>7, <3>4
    <3>8. InCall(H, m, g, d, far'.got \o r, far')
      BY <1>2, <2>4, <2>9, <3>6, <3>7 DEF InCall
    <3>9. FarShape'
      BY <3>4 DEF FarShape
    <3>10. far'.got \in Seq(Item) /\ Len(far'.got) < 6 /\ far'.count \in Nat
      BY <2>7, <3>4
    <3> QED BY <3>5, <3>8, <3>9, <3>10 DEF r
  <2> QED BY <2>6, <2>8, <2>9
<1>6. Len(frame) < 6 \/ Len(frame) >= 6
  BY <1>7
<1> QED BY <1>4, <1>5, <1>6 

-----------------------------------------------------------------------------
(* The inductive invariant, action by action. *)

\* What the line still has to send: the queue, or the data left over from the last packet.
Pending == IF state = "data" THEN rest ELSE queue
\* The mappings for which signs and magnitudes go together.
Exact == p.S = 6 => p.ld = 0
\* The kinds of the variables, and which of the two queues is used in which state.
Typed ==
  /\ given \in Nat /\ queue \in Seq(Item) /\ rest \in Seq(Item)
  /\ state \in {"dil", "ri", "trn", "mp", "ed", "data"}
  /\ (state = "data" => queue = <<>>) /\ (state # "data" => rest = <<>>)
  /\ (state \in {"dil", "ri"} => given = 0)
  /\ FarShape /\ far.got \in Seq(Item) /\ Len(far.got) < 6 /\ far.count \in Nat
  /\ errors \subseteq {1, 2}
\* The inductive invariant: some history explains the mapper, the line and the far end.
FramesInv ==
  /\ p \in Params /\ payload \in Payloads
  /\ Exact => Typed /\ \E H : InCall(H, mapper, given, discard, far.got \o Pending, far)

\* Nothing but the parameters and the payload is behind the invariant's words.
LEMMA SameWords ==
  ASSUME p' = p, payload' = payload, NEW CONSTANT H
  PROVE  InCall(H, mapper, given, discard, far.got \o Pending, far)'
           <=> InCall(H, mapper', given', discard', far'.got \o Pending', far')
<1>1. Parts' = Parts /\ FrameSize' = FrameSize /\ Late' = Late
  BY DEF Parts, FrameSize, Late
<1>2. History(H, given)' <=> History(H, given')
  BY DEF Parts, FrameSize, Late, Plain, Differential, SignBits, Carried, Digits, Weight, History, Given,
    Part, Last, LastBit, SignOf, PartOf, Mapped
<1>3. Memory(mapper, H, given)' <=> Memory(mapper', H, given')
  BY DEF Parts, FrameSize, Late, Plain, Differential, Carried, Digits, Weight, Memory, Given,
    Last, LastBit, PartOf
<1>4. Skip(given)' = Skip(given') /\ Kept(given)' = Kept(given')
  BY <1>1 DEF Skip, Kept
<1>5. Stream(far.got \o Pending, far.count, Kept(given), H.sym)'
        <=> Stream(far'.got \o Pending', far'.count, Kept(given'), H.sym)
  BY <1>4 DEF Stream
<1>6. FarKnows(H, far)' <=> FarKnows(H, far')
  BY DEF FarKnows, AgreeOn, Part, Last, LastBit, Parts, FrameSize, Differential
<1> QED BY <1>2, <1>3, <1>4, <1>5, <1>6 DEF InCall

\* Concatenation of three lines.
LEMMA Regroup ==
  \A u, v, w \in Seq(Item) : (u \o v) \o w = u \o (v \o w)
<1> SUFFICES ASSUME NEW u \in Seq(Item), NEW v \in Seq(Item), NEW w \in Seq(Item)
             PROVE  (u \o v) \o w = u \o (v \o w)
  OBVIOUS
<1>1. PICK S : S = Item
  OBVIOUS
<1>2. u \in Seq(S) /\ v \in Seq(S) /\ w \in Seq(S)
  BY <1>1
<1> QED BY <1>2, ConcatAssociative

\* What encode_raw_bits gives of n frames.
FramesOut(n, paths) == KeptOf(Encoded(n, paths).out, discard)
\* EncodeRaw, but for where the symbols go.
Encodes(n, paths) ==
  /\ paths \in [1 .. n -> Paths] /\ given' = given + n
  /\ mapper' = Encoded(n, paths).mapper
  /\ discard' = discard - DropOf(Encoded(n, paths).out, discard)

\* MoreEncoded for a step of the model.
LEMMA EncodesMore ==
  ASSUME p \in Params, payload \in Payloads, Exact, given \in Nat,
         NEW L \in Seq(Item), far.count \in Nat, NEW H, InCall(H, mapper, given, discard, L, far),
         NEW n \in Nat, NEW paths, Encodes(n, paths)
  PROVE  /\ FramesOut(n, paths) \in Seq(Item)
         /\ \E G : InCall(G, mapper', given', discard', L \o FramesOut(n, paths), far)
<1> DEFINE e == Encoded(n, paths)
<1>1. paths \in [1 .. n -> Paths] /\ given' = given + n /\ mapper' = e.mapper
      /\ discard' = discard - DropOf(e.out, discard)
  BY DEF Encodes
<1>2. LET dropped == IF discard < Len(e.out) THEN discard ELSE Len(e.out)
          kept == SubSeq(e.out, dropped + 1, Len(e.out))
      IN  /\ kept \in Seq(Item)
          /\ \E G : InCall(G, e.mapper, given + n, discard - dropped, L \o kept, far)
  BY <1>1, MoreEncoded DEF Exact
<1> HIDE DEF e
<1>3. /\ KeptOf(e.out, discard) \in Seq(Item)
      /\ \E G : InCall(G, e.mapper, given + n, discard - DropOf(e.out, discard), L \o KeptOf(e.out, discard), far)
  BY <1>2 DEF KeptOf, DropOf
<1> QED BY <1>1, <1>3 DEF e, FramesOut

\* A step that puts frames at the end of the line keeps the invariant.
LEMMA EncodeStep ==
  ASSUME p \in Params, payload \in Payloads, Exact, Typed,
         NEW L \in Seq(Item), NEW H, InCall(H, mapper, given, discard, L, far),
         p' = p, payload' = payload, far' = far, errors' = errors,
         NEW n \in Nat, NEW paths, Encodes(n, paths), state' \in {"trn", "mp", "ed", "data"},
         queue' \in Seq(Item), rest' \in Seq(Item),
         (state' = "data" => queue' = <<>>) /\ (state' # "data" => rest' = <<>>),
         far.got \o Pending' = L \o FramesOut(n, paths)
  PROVE  FramesInv'
<1>2. given \in Nat /\ far.count \in Nat
  BY DEF Typed
<1>3. \E G : InCall(G, mapper', given', discard', L \o FramesOut(n, paths), far)
  BY <1>2, EncodesMore
<1>4. PICK G : InCall(G, mapper', given', discard', L \o FramesOut(n, paths), far)
  BY <1>3
<1>5. InCall(G, mapper', given', discard', far'.got \o Pending', far')
  BY <1>4
<1>6. InCall(G, mapper, given, discard, far.got \o Pending, far)'
  BY <1>5, SameWords
<1>7. given' \in Nat
  BY <1>2 DEF Encodes
<1>8. FarShape'
  BY DEF Typed, FarShape
<1>9. Typed'
  BY <1>7, <1>8 DEF Typed
<1> QED BY <1>6, <1>9 DEF FramesInv

\* The line before an action.
LEMMA LineIs ==
  ASSUME Typed
  PROVE  /\ Pending \in Seq(Item) /\ far.got \in Seq(Item) /\ far.got \o Pending \in Seq(Item)
         /\ queue \in Seq(Item) /\ rest \in Seq(Item) /\ far.count \in Nat /\ given \in Nat
<1>1. Pending \in Seq(Item) /\ far.got \in Seq(Item)
  BY DEF Pending, Typed
<1> QED BY <1>1 DEF Typed

\* What is put at the end of the line is a sequence of symbols.
LEMMA OutIsSeq ==
  ASSUME p \in Params, payload \in Payloads, Exact, Typed, NEW L \in Seq(Item),
         NEW H, InCall(H, mapper, given, discard, L, far), NEW n \in Nat, NEW paths, Encodes(n, paths)
  PROVE  FramesOut(n, paths) \in Seq(Item)
  BY LineIs, EncodesMore

\* StartEd keeps the invariant: Ed follows what is queued.
LEMMA StartEdKeeps ==
  ASSUME FramesInv, StartEd
  PROVE  FramesInv'
<1>1. p' = p /\ payload' = payload /\ rest' = rest /\ far' = far /\ errors' = errors
      /\ state \in {"trn", "mp"} /\ state' = "ed"
  BY DEF StartEd, line
<1>2. CASE ~Exact
  BY <1>1, <1>2 DEF FramesInv, Exact
<1>3. CASE Exact
  <2>1. p \in Params /\ payload \in Payloads /\ Typed /\ EdFrames \in Nat
    BY <1>3, Counts DEF FramesInv
  <2>2. PICK H : InCall(H, mapper, given, discard, far.got \o Pending, far)
    BY <1>3 DEF FramesInv
  <2>3. PICK paths : Encodes(EdFrames, paths) /\ queue' = queue \o FramesOut(EdFrames, paths)
    BY DEF StartEd, EncodeRaw, Encodes, FramesOut, DropOf, KeptOf
  <2>4. FramesOut(EdFrames, paths) \in Seq(Item)
    BY <1>3, <2>1, <2>2, <2>3, LineIs, OutIsSeq
  <2>5. queue' \in Seq(Item) /\ rest' \in Seq(Item) /\ rest' = <<>>
    BY <1>1, <2>1, <2>3, <2>4 DEF Typed
  <2>6. far.got \o Pending' = (far.got \o Pending) \o FramesOut(EdFrames, paths)
    <3>1. Pending = queue /\ Pending' = queue'
      BY <1>1 DEF Pending
    <3>2. (far.got \o queue) \o FramesOut(EdFrames, paths) = far.got \o (queue \o FramesOut(EdFrames, paths))
      <4>1. far.got \in Seq(Item) /\ queue \in Seq(Item)
        BY <2>1, LineIs
      <4> QED BY <2>4, <4>1, Regroup, Zenon
    <3> QED BY <2>3, <3>1, <3>2
  <2> QED BY <1>1, <1>3, <2>1, <2>2, <2>3, <2>5, <2>6, LineIs, EncodeStep
<1> QED BY <1>2, <1>3

\* Before the first frame the far end has counted none.
LEMMA NothingGiven ==
  ASSUME p \in Params, NEW L, NEW f, f.count \in Nat, NEW H, NEW m, NEW d, InCall(H, m, 0, d, L, f)
  PROVE  f.count = 0 /\ Kept(0) = 0
<1>1. PICK l \in 0 .. 18 : l = Late
  BY LateIs
<1>2. Kept(0) = 0
  BY <1>1 DEF Kept
<1>3. 6 * f.count <= 0
  BY <1>2 DEF InCall, Stream
<1> QED BY <1>2, <1>3

\* Training after a line on which nothing was mapped yet.
LEMMA MoreTraining ==
  ASSUME p \in Params, NEW L \in Seq(Item), NEW f, f.count \in Nat, NEW H, NEW m, NEW d,
         InCall(H, m, 0, d, L, f), NEW k \in Nat
  PROVE  InCall(H, m, 0, d, L \o Quiet(k), f)
<1>1. f.count = 0 /\ Kept(0) = 0
  BY NothingGiven
<1>2. Stream(L, 0, 0, H.sym)
  BY <1>1 DEF InCall
<1>3. Stream(L \o Quiet(k), 0, 0, H.sym)
  BY <1>2, StreamTraining
<1> QED BY <1>1, <1>3 DEF InCall

\* HearCPt keeps the invariant: the first frames of TRN2d follow training of whole frames.
LEMMA HearCPtKeeps ==
  ASSUME FramesInv, HearCPt
  PROVE  FramesInv'
<1> DEFINE n == TrnFrames + MpFrames
           r == Quiet(RiBarFrames)
<1>1. p' = p /\ payload' = payload /\ rest' = rest /\ far' = far /\ errors' = errors
      /\ state = "ri" /\ state' = "trn"
  BY DEF HearCPt, line
<1>2. CASE ~Exact
  BY <1>1, <1>2 DEF FramesInv, Exact
<1>3. CASE Exact
  <2>1. p \in Params /\ payload \in Payloads /\ Typed /\ n \in Nat /\ RiBarFrames \in Nat
    BY <1>3, Counts DEF FramesInv
  <2>2. PICK H : InCall(H, mapper, given, discard, far.got \o Pending, far)
    BY <1>3 DEF FramesInv
  <2>3. PICK paths : Encodes(n, paths) /\ queue' = queue \o r \o FramesOut(n, paths)
    BY DEF HearCPt, EncodeRaw, Encodes, FramesOut, DropOf, KeptOf
  <2>4. far.got \in Seq(Item) /\ queue \in Seq(Item) /\ r \in Seq(Item) /\ far.count \in Nat
        /\ far.got \o queue \in Seq(Item)
    <3>1. r \in Seq(Item)
      BY <2>1, QuietIs
    <3>2. far.got \in Seq(Item) /\ queue \in Seq(Item) /\ far.count \in Nat
      BY <2>1, LineIs
    <3> HIDE DEF r
    <3> QED BY <3>1, <3>2
  <2>5. given = 0 /\ Pending = queue
    BY <1>1, <2>1 DEF Typed, Pending
  <2> HIDE DEF n
  <2>6. InCall(H, mapper, given, discard, (far.got \o queue) \o r, far)
    BY <2>1, <2>2, <2>4, <2>5, MoreTraining
  <2> HIDE DEF r
  <2>7. (far.got \o queue) \o r \in Seq(Item)
    BY <2>4
  <2>8. FramesOut(n, paths) \in Seq(Item)
    BY <1>3, <2>1, <2>3, <2>6, <2>7, OutIsSeq
  <2>9. queue' \in Seq(Item) /\ rest' \in Seq(Item) /\ rest' = <<>>
    <3>1. queue \o r \in Seq(Item)
      BY <2>4
    <3> QED BY <1>1, <2>1, <2>3, <2>8, <3>1 DEF Typed
  <2>10. far.got \o Pending' = ((far.got \o queue) \o r) \o FramesOut(n, paths)
    <3>1. Pending' = queue'
      BY <1>1 DEF Pending
    <3>2. queue \o r \in Seq(Item)
      BY <2>4
    <3>3. (far.got \o queue) \o r = far.got \o (queue \o r)
      BY <2>4, Regroup, Zenon
    <3>4. (far.got \o (queue \o r)) \o FramesOut(n, paths) = far.got \o ((queue \o r) \o FramesOut(n, paths))
      <4>1. PICK v \in Seq(Item), u \in Seq(Item), w \in Seq(Item) :
              v = queue \o r /\ u = far.got /\ w = FramesOut(n, paths)
        BY <2>4, <2>8, <3>2
      <4>2. (u \o v) \o w = u \o (v \o w)
        BY Regroup, Zenon
      <4> QED BY <4>1, <4>2
    <3> QED BY <2>3, <3>1, <3>3, <3>4
  <2> QED BY <1>1, <1>3, <2>1, <2>3, <2>6, <2>7, <2>9, <2>10, EncodeStep
<1> QED BY <1>2, <1>3

\* Produce keeps the invariant: data goes on where Ed ended.
LEMMA ProduceKeeps ==
  ASSUME FramesInv, Produce
  PROVE  FramesInv'
<1>1. p' = p /\ payload' = payload /\ queue' = queue /\ far' = far /\ errors' = errors
      /\ state = "data" /\ state' = "data" /\ rest = <<>>
  BY DEF Produce, line
<1>2. CASE ~Exact
  BY <1>1, <1>2 DEF FramesInv, Exact
<1>3. CASE Exact
  <2>1. p \in Params /\ payload \in Payloads /\ Typed /\ DataFrames \in Nat
    BY <1>3, Counts DEF FramesInv
  <2>2. PICK H : InCall(H, mapper, given, discard, far.got \o Pending, far)
    BY <1>3 DEF FramesInv
  <2>3. PICK paths : Encodes(DataFrames, paths) /\ rest' = FramesOut(DataFrames, paths)
    BY DEF Produce, EncodeRaw, Encodes, FramesOut, DropOf, KeptOf
  <2>4. FramesOut(DataFrames, paths) \in Seq(Item)
    BY <1>3, <2>1, <2>2, <2>3, LineIs, OutIsSeq
  <2>5. queue' \in Seq(Item) /\ rest' \in Seq(Item) /\ queue' = <<>>
    BY <1>1, <2>1, <2>3, <2>4 DEF Typed
  <2>6. far.got \o Pending' = (far.got \o Pending) \o FramesOut(DataFrames, paths)
    <3>1. Pending = <<>> /\ Pending' = FramesOut(DataFrames, paths)
      BY <1>1, <2>3 DEF Pending
    <3>2. far.got \in Seq(Item)
      BY <2>1, LineIs
    <3> QED BY <3>1, <3>2
  <2> QED BY <1>1, <1>3, <2>1, <2>2, <2>3, <2>5, <2>6, LineIs, EncodeStep
<1> QED BY <1>2, <1>3

\* A step that leaves the line as it is.
LEMMA SameLine ==
  ASSUME p \in Params, payload \in Payloads, Typed, NEW H,
         p' = p, payload' = payload, mapper' = mapper, discard' = discard, given' = given,
         Typed', far' = far, InCall(H, mapper, given, discard, far.got \o Pending', far)
  PROVE  FramesInv'
<1>1. InCall(H, mapper', given', discard', far'.got \o Pending', far')
  OBVIOUS
<1>2. InCall(H, mapper, given, discard, far.got \o Pending, far)'
  BY <1>1, SameWords
<1> QED BY <1>2 DEF FramesInv

\* What is left of the DIL ends with the frame it is in.
LEMMA CutToFrame ==
  ASSUME NEW g \in Seq(Item), NEW q \in Seq(Item), NEW sym, Stream(g \o q, 0, 0, sym)
  PROVE  SubSeq(q, 1, Len(q) % 6) \in Seq(Item) /\ Stream(g \o SubSeq(q, 1, Len(q) % 6), 0, 0, sym)
<1> DEFINE L == g \o q
           n == Len(q) % 6
           r == SubSeq(q, 1, n)
           w == g \o r
<1>1. /\ L \in Seq(Item) /\ Len(L) = Len(g) + Len(q)
      /\ \A i \in 1 .. Len(g) + Len(q) : L[i] = IF i <= Len(g) THEN g[i] ELSE q[i - Len(g)]
  BY ConcatProperties
<1>2. PICK k \in Nat : n \in 0 .. 5 /\ Len(q) = 6 * k + n
  <2>1. PICK z \in Nat : z = Len(q)
    OBVIOUS
  <2>2. PICK y \in Int, x \in 0 .. 6 - 1 : z \div 6 = y /\ z % 6 = x /\ z = 6 * y + x
    <3>1. z \in Int /\ 6 \in Nat \ {0}
      OBVIOUS
    <3> QED BY <3>1, DivMod
  <2>3. y \in Nat /\ x \in 0 .. 5
    BY <2>2
  <2> QED BY <2>1, <2>2, <2>3
<1> HIDE DEF L, n
<1>3. r \in Seq(Item) /\ Len(r) = n /\ \A i \in 1 .. n : r[i] = q[i]
  <2>1. n <= Len(q) /\ n \in Nat
    BY <1>2
  <2> QED BY <2>1
<1> HIDE DEF r
<1>4. /\ w \in Seq(Item) /\ Len(w) = Len(g) + Len(r)
      /\ \A i \in 1 .. Len(g) + Len(r) : w[i] = IF i <= Len(g) THEN g[i] ELSE r[i - Len(g)]
  BY <1>3, ConcatProperties
<1> HIDE DEF w
<1>5. PICK a \in Nat :
        /\ Len(L) = 6 * a + (0 - 6 * 0)
        /\ \A i \in 1 .. Len(L) : L[i] = IF i <= 6 * a THEN Training ELSE sym[6 * 0 + ((i - 6 * a) - 1)]
  BY DEF Stream, L
<1>6. Len(L) = 6 * a /\ \A i \in 1 .. Len(L) : L[i] = Training
  BY <1>5
<1>7. a - k \in Nat /\ Len(w) = 6 * (a - k)
  <2>1. PICK x \in Nat : x = Len(g)
    OBVIOUS
  <2>2. x + (6 * k + n) = 6 * a
    BY <1>1, <1>2, <1>6, <2>1
  <2>3. x + n = 6 * (a - k) /\ a - k >= 0
    BY <1>2, <2>2
  <2> QED BY <1>3, <1>4, <2>1, <2>3
<1>8. ASSUME NEW i \in 1 .. Len(w) PROVE w[i] = Training
  <2>1. CASE i <= Len(g)
    <3>1. w[i] = g[i] /\ L[i] = g[i] /\ i \in 1 .. Len(L)
      BY <1>1, <1>3, <1>4, <2>1
    <3> QED BY <1>6, <3>1
  <2>2. CASE ~(i <= Len(g))
    <3>1. i - Len(g) \in 1 .. n /\ i \in 1 .. Len(g) + Len(r) /\ i \in 1 .. Len(g) + Len(q)
      BY <1>2, <1>3, <1>4, <2>2
    <3>2. w[i] = r[i - Len(g)] /\ L[i] = q[i - Len(g)] /\ r[i - Len(g)] = q[i - Len(g)]
      BY <1>1, <1>3, <1>4, <2>2, <3>1
    <3> QED BY <1>1, <1>6, <3>1, <3>2
  <2> QED BY <2>1, <2>2
<1>9. PICK b \in Nat : b = a - k
  BY <1>7
<1>10. /\ Len(w) = 6 * b + (0 - 6 * 0)
       /\ \A i \in 1 .. Len(w) : w[i] = IF i <= 6 * b THEN Training ELSE sym[6 * 0 + ((i - 6 * b) - 1)]
  <2>1. \A i \in 1 .. Len(w) : i <= 6 * b
    BY <1>7, <1>9
  <2> QED BY <1>7, <1>8, <1>9, <2>1
<1>11. Stream(w, 0, 0, sym)
  BY <1>10 DEF Stream
<1> QED BY <1>3, <1>11 DEF w, r, n

\* HearS keeps the invariant: DIL ends with the frame it is in.
LEMMA HearSKeeps ==
  ASSUME FramesInv, HearS
  PROVE  FramesInv'
<1>1. /\ p' = p /\ payload' = payload /\ mapper' = mapper /\ discard' = discard /\ given' = given
      /\ rest' = rest /\ far' = far /\ errors' = errors
      /\ state = "dil" /\ state' = "ri" /\ queue' = KeepFrames \o Quiet(RiFrames)
  BY DEF HearS, line, mapping
<1>2. CASE ~Exact
  BY <1>1, <1>2 DEF FramesInv, Exact
<1>3. CASE Exact
  <2>1. p \in Params /\ payload \in Payloads /\ Typed /\ RiFrames \in Nat
    BY <1>3, Counts DEF FramesInv
  <2>2. PICK H : InCall(H, mapper, given, discard, far.got \o Pending, far)
    BY <1>3 DEF FramesInv
  <2>3. given = 0 /\ Pending = queue /\ far.got \in Seq(Item) /\ queue \in Seq(Item) /\ far.count \in Nat
    <3>1. given = 0 /\ Pending = queue
      BY <1>1, <2>1 DEF Typed, Pending
    <3> QED BY <2>1, <3>1, LineIs
  <2>4. InCall(H, mapper, 0, discard, far.got \o queue, far)
    BY <2>2, <2>3
  <2>5. far.count = 0 /\ Kept(0) = 0
    BY <2>1, <2>3, <2>4, NothingGiven
  <2>6. Stream(far.got \o queue, 0, 0, H.sym)
    BY <2>4, <2>5 DEF InCall
  <2>7. KeepFrames \in Seq(Item) /\ Stream(far.got \o KeepFrames, 0, 0, H.sym)
    BY <2>3, <2>6, CutToFrame DEF KeepFrames
  <2>8. InCall(H, mapper, 0, discard, far.got \o KeepFrames, far)
    BY <2>4, <2>5, <2>7 DEF InCall
  <2>9. far.got \o KeepFrames \in Seq(Item)
    BY <2>3, <2>7
  <2>10. InCall(H, mapper, 0, discard, (far.got \o KeepFrames) \o Quiet(RiFrames), far)
    BY <2>1, <2>3, <2>8, <2>9, MoreTraining
  <2>11. Quiet(RiFrames) \in Seq(Item)
    BY <2>1, QuietIs
  <2>12. (far.got \o KeepFrames) \o Quiet(RiFrames) = far.got \o (KeepFrames \o Quiet(RiFrames))
    BY <2>3, <2>7, <2>11, Regroup, Zenon
  <2>13. Pending' = KeepFrames \o Quiet(RiFrames) /\ queue' \in Seq(Item)
    BY <1>1, <2>7, <2>11 DEF Pending
  <2>14. Typed'
    BY <1>1, <2>1, <2>13 DEF Typed, FarShape
  <2>15. InCall(H, mapper, given, discard, far.got \o Pending', far)
    BY <2>3, <2>10, <2>12, <2>13
  <2> QED BY <1>1, <2>1, <2>14, <2>15, SameLine
<1> QED BY <1>2, <1>3

\* A step of the packet only.
LEMMA OffTheLine ==
  ASSUME FramesInv, p' = p, payload' = payload, mapper' = mapper, discard' = discard, given' = given,
         state' = state, queue' = queue, rest' = rest, far' = far, errors' = errors
  PROVE  FramesInv'
<1>1. CASE ~Exact
  BY <1>1 DEF FramesInv, Exact
<1>2. CASE Exact
  <2>1. p \in Params /\ payload \in Payloads /\ Typed
    BY <1>2 DEF FramesInv
  <2>2. PICK H : InCall(H, mapper, given, discard, far.got \o Pending, far)
    BY <1>2 DEF FramesInv
  <2>3. Pending' = Pending
    BY DEF Pending
  <2>4. Typed'
    BY <2>1 DEF Typed, FarShape
  <2> QED BY <2>1, <2>2, <2>3, <2>4, SameLine
<1> QED BY <1>1, <1>2

\* Advance keeps the invariant: DIL and Ri repeated, MP again, or Ed over.
LEMMA AdvanceKeeps ==
  ASSUME FramesInv, Advance
  PROVE  FramesInv'
<1>1. p' = p /\ payload' = payload /\ rest' = rest /\ far' = far /\ errors' = errors
      /\ queue = <<>> /\ state # "data"
  BY DEF Advance, line
<1>2. CASE ~Exact
  BY <1>1, <1>2 DEF FramesInv, Exact
<1>3. CASE Exact
  <2>1. p \in Params /\ payload \in Payloads /\ Typed
    BY <1>3 DEF FramesInv
  <2>2. PICK H : InCall(H, mapper, given, discard, far.got \o Pending, far)
    BY <1>3 DEF FramesInv
  <2>3. Pending = <<>> /\ far.got \in Seq(Item) /\ far.got \o Pending = far.got /\ far.count \in Nat
        /\ rest = <<>>
    BY <1>1, <2>1 DEF Pending, Typed
  <2>4. ASSUME NEW k \in Nat, state \in {"dil", "ri"}, state' = state, queue' = Quiet(k),
               mapper' = mapper, discard' = discard, given' = given
        PROVE  FramesInv'
    <3>1. given = 0
      BY <2>1, <2>4 DEF Typed
    <3>2. InCall(H, mapper, 0, discard, far.got, far)
      BY <2>2, <2>3, <3>1
    <3>3. InCall(H, mapper, 0, discard, far.got \o Quiet(k), far)
      BY <2>1, <2>3, <3>2, MoreTraining
    <3>4. Pending' = Quiet(k) /\ Quiet(k) \in Seq(Item)
      BY <2>4, QuietIs DEF Pending
    <3>5. Typed'
      BY <1>1, <2>1, <2>4, <3>4 DEF Typed, FarShape
    <3> QED BY <1>1, <2>1, <2>4, <3>1, <3>3, <3>4, <3>5, SameLine
  <2>5. CASE state \in {"dil", "ri"} /\ state' = state
             /\ queue' = Quiet(IF state = "dil" THEN DilFrames ELSE RiFrames) /\ UNCHANGED mapping
    <3>1. (IF state = "dil" THEN DilFrames ELSE RiFrames) \in Nat
      BY Counts
    <3>2. mapper' = mapper /\ discard' = discard /\ given' = given
      BY <2>5 DEF mapping
    <3> QED BY <2>4, <2>5, <3>1, <3>2
  <2>6. CASE state \in {"trn", "mp"} /\ state' = "mp" /\ EncodeRaw(MpFrames, LAMBDA out : queue' = out)
    <3>1. PICK paths : Encodes(MpFrames, paths) /\ queue' = FramesOut(MpFrames, paths)
      BY <2>6 DEF EncodeRaw, Encodes, FramesOut, DropOf, KeptOf
    <3>2. MpFrames \in Nat
      BY Counts
    <3>3. FramesOut(MpFrames, paths) \in Seq(Item)
      BY <1>3, <2>1, <2>2, <3>1, <3>2, LineIs, OutIsSeq
    <3>4. queue' \in Seq(Item) /\ rest' \in Seq(Item) /\ rest' = <<>>
      BY <1>1, <2>1, <2>3, <3>1, <3>3 DEF Typed
    <3>5. far.got \o Pending' = (far.got \o Pending) \o FramesOut(MpFrames, paths)
      <4>1. Pending' = queue'
        BY <2>6 DEF Pending
      <4> QED BY <2>3, <3>1, <4>1
    <3> QED BY <1>1, <1>3, <2>1, <2>2, <2>6, <3>1, <3>2, <3>4, <3>5, LineIs, EncodeStep
  <2>7. CASE state = "ed" /\ state' = "data" /\ UNCHANGED <<queue, mapping>>
    <3>1. queue' = <<>> /\ mapper' = mapper /\ discard' = discard /\ given' = given
      BY <1>1, <2>7 DEF mapping
    <3>2. Pending' = Pending
      BY <1>1, <2>3, <2>7 DEF Pending
    <3>3. Typed'
      BY <1>1, <2>1, <2>3, <2>7, <3>1 DEF Typed, FarShape
    <3> QED BY <1>1, <2>1, <2>2, <3>1, <3>2, <3>3, SameLine
  <2> QED BY <2>5, <2>6, <2>7 DEF Advance
<1> QED BY <1>2, <1>3

\* The next symbol of the line goes out.
LEMMA Sends ==
  ASSUME FramesInv, Pending # <<>>, FarHears(Head(Pending)), Pending' = Tail(Pending),
         p' = p, payload' = payload, mapper' = mapper, discard' = discard, given' = given, state' = state,
         state = "data" => queue' = queue /\ rest' = Tail(rest),
         state # "data" => rest' = rest /\ queue' = Tail(queue)
  PROVE  Exact => FramesInv'
<1> SUFFICES ASSUME Exact PROVE FramesInv'
  OBVIOUS
<1>1. p \in Params /\ payload \in Payloads /\ Typed
  BY DEF FramesInv
<1>2. PICK H : InCall(H, mapper, given, discard, far.got \o Pending, far)
  BY DEF FramesInv
<1>3. /\ Pending \in Seq(Item) /\ FarShape /\ far.got \in Seq(Item) /\ Len(far.got) < 6
      /\ far.count \in Nat /\ errors \subseteq {1, 2} /\ given \in Nat
  BY <1>1, LineIs DEF Typed
<1>4. PICK L \in Seq(Item) : L = Pending
  BY <1>3
<1>5. L # <<>> /\ InCall(H, mapper, given, discard, far.got \o L, far) /\ FarHears(Head(L))
  BY <1>2, <1>4
<1>6. p.S = 6 => p.ld = 0
  BY DEF Exact
<1>7. /\ FarShape' /\ far'.got \in Seq(Item) /\ Len(far'.got) < 6 /\ far'.count \in Nat
      /\ errors' \subseteq {1, 2} /\ InCall(H, mapper, given, discard, far'.got \o Tail(L), far')
  BY <1>1, <1>3, <1>4, <1>5, <1>6, FarStep
<1>8. InCall(H, mapper', given', discard', far'.got \o Pending', far')
  BY <1>4, <1>7
<1>9. InCall(H, mapper, given, discard, far.got \o Pending, far)'
  BY <1>8, SameWords
<1>10. Tail(L) \in Seq(Item)
  BY <1>5
<1>11. queue' \in Seq(Item) /\ rest' \in Seq(Item)
       /\ (state' = "data" => queue' = <<>>) /\ (state' # "data" => rest' = <<>>)
  <2>1. CASE state = "data"
    BY <1>1, <1>4, <1>10, <2>1 DEF Typed, Pending
  <2>2. CASE state # "data"
    BY <1>1, <1>4, <1>10, <2>2 DEF Typed, Pending
  <2> QED BY <2>1, <2>2
<1>12. Typed'
  BY <1>1, <1>7, <1>11 DEF Typed
<1> QED BY <1>1, <1>9, <1>12 DEF FramesInv

\* SendQueued keeps the invariant.
LEMMA SendQueuedKeeps ==
  ASSUME FramesInv, SendQueued
  PROVE  FramesInv'
<1>1. /\ queue # <<>> /\ FarHears(Head(queue)) /\ queue' = Tail(queue) /\ p' = p /\ payload' = payload
      /\ mapper' = mapper /\ discard' = discard /\ given' = given /\ state' = state /\ rest' = rest
  BY DEF SendQueued, mapping
<1>2. CASE ~Exact
  BY <1>1, <1>2 DEF FramesInv, Exact
<1>3. CASE Exact
  <2>1. state # "data"
    BY <1>1, <1>3 DEF FramesInv, Typed
  <2>2. Pending = queue /\ Pending' = queue'
    BY <1>1, <2>1 DEF Pending
  <2> QED BY <1>1, <1>3, <2>1, <2>2, Sends
<1> QED BY <1>2, <1>3

\* SendData keeps the invariant.
LEMMA SendDataKeeps ==
  ASSUME FramesInv, SendData
  PROVE  FramesInv'
<1>1. /\ rest # <<>> /\ FarHears(Head(rest)) /\ rest' = Tail(rest) /\ p' = p /\ payload' = payload
      /\ mapper' = mapper /\ discard' = discard /\ given' = given /\ queue' = queue
      /\ state' = state /\ state = "data"
  BY DEF SendData, mapping
<1>2. CASE ~Exact
  BY <1>1, <1>2 DEF FramesInv, Exact
<1>3. CASE Exact
  <2>2. Pending = rest /\ Pending' = rest'
    BY <1>1 DEF Pending
  <2> QED BY <1>1, <1>3, <2>2, Sends
<1> QED BY <1>2, <1>3

\* The invariant holds as the call begins: nothing mapped, zeros behind.
LEMMA InitKeeps ==
  ASSUME Init
  PROVE  FramesInv
<1>1. p \in Params /\ payload \in Payloads
  BY DEF Init
<1>2. CASE ~Exact
  BY <1>1, <1>2 DEF FramesInv
<1>3. CASE Exact
  <2> DEFINE H == [b |-> [k \in Nat |-> Zeros], t |-> [r \in Nat |-> Zeros], q |-> [r \in Nat |-> 0],
                   sym |-> [s \in Nat |-> Training]]
  <2>1. Zeros \in Signs /\ Zeros[0] = 0 /\ 0 \in Bit
    BY DEF Zeros, Signs, Bit, Symbols
  <2>2. PICK n \in 0 .. 3, l \in 0 .. 18, z \in 0 .. 3 : n = Parts /\ l = Late /\ z = p.ld
    BY <1>1, LateIs DEF Parts
  <2>3. /\ H.b \in [Nat -> Signs] /\ H.t \in [Nat -> Signs] /\ H.q \in [Nat -> Bit]
        /\ H.b[0] = Zeros /\ H.t[0] = Zeros /\ H.q[0] = 0
    BY <2>1
  <2> HIDE DEF H
  <2>4. History(H, 0)
    <3>1. Parts * 0 = 0 /\ 6 * 0 = 0
      BY <2>2
    <3>2. \A r \in Nat : r <= Parts * 0 => H.q[r] = H.t[r][0]
      <4> SUFFICES ASSUME NEW r \in Nat, r <= 0 PROVE H.q[r] = H.t[r][0]
        BY <3>1
      <4>1. r = 0
        OBVIOUS
      <4> QED BY <2>1, <2>3, <4>1
    <3>3. ASSUME NEW k \in Nat, NEW h \in 1 .. Parts PROVE ~(Part(k, h) <= Parts * 0)
      <4>1. Part(k, h) = n * k + h + z /\ h \in Nat /\ h >= 1
        BY <2>2 DEF Part
      <4>2. n * k \in Nat
        OBVIOUS
      <4> QED BY <2>2, <3>1, <4>1, <4>2
    <3>4. ASSUME NEW k \in Nat, NEW i \in Symbols PROVE ~(6 * k + i + Late < 6 * 0)
      BY <2>2 DEF Symbols
    <3>5. \A k \in Nat : ~(k < 0)
      OBVIOUS
    <3> QED BY <2>3, <3>2, <3>3, <3>4, <3>5 DEF History
  <2>5. Memory(mapper, H, 0)
    <3>1. Parts * 0 = 0 /\ 6 * 0 = 0 /\ At(0) = 0
      BY <2>2, RingIsDeep DEF At
    <3>2. mapper = [ring |-> [i \in 0 .. RingBuf - 1 |-> 0], pp |-> [i \in 0 .. RingBuf - 1 |-> Zeros],
                    ptr |-> 0, last |-> 0, t |-> Zeros, q |-> 0]
      BY DEF Init
    <3>3. \A i \in 0 .. RingBuf - 1 : mapper.ring[i] \in Int /\ mapper.pp[i] \in Signs /\ mapper.pp[i][0] = 0
      BY <2>1, <3>2
    <3>4. ASSUME NEW k \in Nat, NEW i \in Symbols PROVE ~(6 * k + i < 6 * 0)
      BY DEF Symbols
    <3>5. ASSUME NEW k \in Nat, NEW h \in 1 .. Parts PROVE ~(6 * k + (h - 1) * FrameSize < 6 * 0)
      <4>1. (h - 1) * FrameSize \in Nat
        <5>1. PICK f \in Nat, j \in Nat : f = FrameSize /\ j = h - 1
          BY <1>1, <2>2, LateIs
        <5> QED BY <5>1
      <4> QED BY <4>1
    <3>6. mapper.ptr = At(6 * 0) /\ mapper.last = Last(H, 0) /\ mapper.t = H.t[Parts * 0]
          /\ mapper.q = H.q[Parts * 0] /\ DOMAIN mapper.ring = 0 .. RingBuf - 1
          /\ DOMAIN mapper.pp = 0 .. RingBuf - 1
      BY <2>3, <3>1, <3>2 DEF Last
    <3> QED BY <3>3, <3>4, <3>5, <3>6 DEF Memory
  <2>6. discard = Skip(0) /\ given = 0 /\ Kept(0) = 0
    <3>1. Skip(0) = Late /\ Kept(0) = 0
      BY <2>2 DEF Skip, Kept
    <3>2. Delay = Late
      <4>1. CASE p.S = 6
        BY <1>3, <2>2, <4>1 DEF Delay, Late, FrameSize, Exact
      <4>2. CASE p.S # 6
        BY <4>2 DEF Delay
      <4> QED BY <4>1, <4>2
    <3> QED BY <3>1, <3>2 DEF Init
  <2>7. <<>> \in Seq(Item) /\ DilFrames \in Nat
    BY Counts
  <2>8. far.got = <<>> /\ far.count = 0 /\ far.t = Zeros /\ far.q = 0 /\ FarShape
    BY DEF Init, FarShape
  <2>9. Stream(<<>> \o Quiet(DilFrames), 0, 0, H.sym)
    <3>1. Len(<<>>) = 6 * 0 + (0 - 6 * 0) /\ 6 * 0 <= 0
      OBVIOUS
    <3>2. \A i \in 1 .. Len(<<>>) :
            <<>>[i] = IF i <= 6 * 0 THEN Training ELSE H.sym[6 * 0 + ((i - 6 * 0) - 1)]
      OBVIOUS
    <3>3. Stream(<<>>, 0, 0, H.sym)
      BY <3>1, <3>2 DEF Stream
    <3> QED BY <2>7, <3>3, StreamTraining
  <2>10. Pending = Quiet(DilFrames) /\ Pending \in Seq(Item)
    BY <2>7, QuietIs DEF Init, Pending
  <2>11. FarKnows(H, far)
    BY <2>1, <2>8 DEF FarKnows
  <2>12. InCall(H, mapper, given, discard, far.got \o Pending, far)
    BY <2>4, <2>5, <2>6, <2>8, <2>9, <2>10, <2>11 DEF InCall
  <2>13. Typed
    <3>1. given = 0 /\ rest = <<>> /\ state = "dil" /\ queue = Quiet(DilFrames) /\ errors = {}
      BY DEF Init
    <3>2. queue \in Seq(Item)
      BY <2>10, <3>1 DEF Pending
    <3> QED BY <2>7, <2>8, <3>1, <3>2 DEF Typed
  <2> QED BY <1>1, <2>12, <2>13 DEF FramesInv
<1> QED BY <1>2, <1>3

(* At all times a history of frames, encoded one after the other, explains *)
(* what is in the mapper's ring, what is on the line and in the queues, and *)
(* what the far end's decoder knows, whatever the shaper chose and wherever *)
(* a packet ends (V90PcmMapper with LiveModem's transmit queue).           *)
THEOREM FramesInvHolds == Spec => []FramesInv
<1>1. Init => FramesInv
  BY InitKeeps
<1>2. FramesInv /\ [Next]_vars => FramesInv'
  <2> SUFFICES ASSUME FramesInv, [Next]_vars PROVE FramesInv'
    OBVIOUS
  <2>1. CASE HearS
    BY <2>1, HearSKeeps
  <2>2. CASE HearCPt
    BY <2>2, HearCPtKeeps
  <2>3. CASE StartEd
    BY <2>3, StartEdKeeps
  <2>4. CASE BeginPacket
    BY <2>4, OffTheLine DEF BeginPacket, mapping, line
  <2>5. CASE Advance
    BY <2>5, AdvanceKeeps
  <2>6. CASE SendQueued
    BY <2>6, SendQueuedKeeps
  <2>7. CASE SendFill
    BY <2>7, OffTheLine DEF SendFill, mapping
  <2>8. CASE Produce
    BY <2>8, ProduceKeeps
  <2>9. CASE SendData
    BY <2>9, SendDataKeeps
  <2>10. CASE UNCHANGED vars
    BY <2>10, OffTheLine DEF vars
  <2> QED BY <2>1, <2>2, <2>3, <2>4, <2>5, <2>6, <2>7, <2>8, <2>9, <2>10 DEF Next
<1> QED BY <1>1, <1>2, PTL DEF Spec

(* The far end gets every frame as it was given, but for the signs of the  *)
(* first two: through the end of DIL, the late start of the mapper, the    *)
(* joints of TRN2d, MP, Ed and data and the cutting into packets, for all  *)
(* mapping parameters of which signs and magnitudes go together (S = 6     *)
(* only without look-ahead).                                               *)
THEOREM FramesArrive == Spec => []FramesDecode
<1>1. FramesInv => FramesDecode
  BY DEF FramesInv, Typed, Exact, FramesDecode
<1> QED BY <1>1, FramesInvHolds, PTL
=============================================================================
