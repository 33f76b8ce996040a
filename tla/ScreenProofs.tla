---------------------------- MODULE ScreenProofs ----------------------------
(***************************************************************************)
(* Proofs about the treemap, for any directory and any pane: the tiles are *)
(* complete, apart from each other and as large as they should be.  They   *)
(* rest on the exact arithmetic of fractions, which comes first.  Then the *)
(* shell, for any number of requests: nobody waits for what is not coming. *)
(***************************************************************************)
EXTENDS Shell, Treemap, SequenceLemmas

Pos == Nat \ {0}

-----------------------------------------------------------------------------
(***************************************************************************)
(* Greatest common divisors.                                               *)
(***************************************************************************)

\* What division by a positive number yields.
LEMMA Divided ==
    ASSUME NEW a \in Nat, NEW b \in Pos
    PROVE  /\ a \div b \in Nat /\ a % b \in Nat /\ a % b < b
           /\ a = b * (a \div b) + (a % b)
           /\ \A k \in Nat : a = b * k => a \div b = k
BY DEF Pos

\* The common divisors of a pair.
Divisors(p) == {g \in Pos : \E k, l \in Nat : p[1] = g * k /\ p[2] = g * l}

\* Euclid's step keeps the common divisors.
LEMMA SameDivisors ==
    ASSUME NEW a \in Nat, NEW b \in Pos
    PROVE  Divisors(<<a, b>>) = Divisors(<<b, a % b>>)
<1>1. PICK q \in Nat, r \in Nat : a = b * q + r /\ r = a % b
  BY Divided
<1>2. ASSUME NEW g \in Pos, NEW k \in Nat, NEW l \in Nat, a = g * k, b = g * l
      PROVE  \E m \in Nat : r = g * m
  <2>1. r = g * (k - l * q)
    BY <1>1, <1>2 DEF Pos
  <2>2. k - l * q \in Int /\ k - l * q >= 0
    <3>1. l * q \in Nat
      OBVIOUS
    <3>2. ASSUME k - l * q < 0 PROVE FALSE
      <4>1. PICK z \in Pos : z = l * q - k
        BY <3>1, <3>2 DEF Pos
      <4>2. r = 0 - g * z
        BY <2>1, <3>1, <4>1 DEF Pos
      <4>3. g * z > 0 /\ g * z \in Nat
        BY DEF Pos
      <4>4. PICK w \in Nat : w = g * z /\ w > 0
        BY <4>3
      <4>5. r = 0 - w
        BY <4>2, <4>4
      <4>6. QED
        BY <4>4, <4>5
    <3>3. QED
      BY <3>1, <3>2
  <2>3. QED
    BY <2>1, <2>2
<1>3. ASSUME NEW g \in Pos, NEW k \in Nat, NEW l \in Nat, b = g * k, r = g * l
      PROVE  \E m \in Nat : a = g * m
  <2>1. (g * k) * q = g * (k * q) /\ k * q \in Nat
    BY DEF Pos
  <2>2. b * q = g * (k * q)
    BY <1>3, <2>1
  <2>g. g \in Nat
    BY DEF Pos
  <2>3. a = g * (k * q + l) /\ k * q + l \in Nat
    <3>1. PICK m \in Nat : m = k * q
      BY <2>1
    <3>2. g * (m + l) = g * m + g * l
      BY <2>g
    <3>3. a = g * m + g * l
      BY <1>1, <1>3, <2>2, <3>1
    <3>4. QED
      BY <3>1, <3>2, <3>3
  <2>4. QED
    BY <2>3
<1>4. QED
  BY <1>1, <1>2, <1>3 DEF Divisors, Pos

\* A pair other than <<0, 0>> has a greatest common divisor.
LEMMA GreatestDivisor ==
    ASSUME NEW a \in Pos
    PROVE  /\ Divisors(<<a, 0>>) # {} /\ Max(Divisors(<<a, 0>>)) = a
<1>1. a \in Divisors(<<a, 0>>)
  <2>1. a = a * 1 /\ 0 = a * 0 /\ 1 \in Nat /\ 0 \in Nat
    BY DEF Pos
  <2>2. QED
    BY <2>1 DEF Divisors
<1>2. \A g \in Divisors(<<a, 0>>) : g \in Nat /\ a >= g
  <2> SUFFICES ASSUME NEW g \in Pos, NEW k \in Nat, a = g * k PROVE g \in Nat /\ a >= g
    BY DEF Divisors
  <2>1. k # 0
    BY DEF Pos
  <2>2. g * k >= g
    BY <2>1 DEF Pos
  <2>3. QED
    BY <2>2 DEF Pos
<1>3. PICK D : D = Divisors(<<a, 0>>)
  OBVIOUS
<1>4. \E x \in D : \A y \in D : x >= y
  BY <1>1, <1>2, <1>3
<1>5. Max(D) \in D /\ \A y \in D : Max(D) >= y
  BY <1>4 DEF Max
<1>6. Max(D) \in Nat /\ a >= Max(D) /\ Max(D) >= a
  BY <1>1, <1>2, <1>3, <1>5
<1>7. QED
  BY <1>1, <1>3, <1>6 DEF Pos

\* There is a function that Euclid's equation defines.
LEMMA GcdIs ==
    \A a, b \in Nat : gcd[<<a, b>>] = IF b = 0 THEN a ELSE gcd[<<b, a % b>>]
<1> DEFINE Step(f) == [p \in Nat \X Nat |-> IF p[2] = 0 THEN p[1] ELSE f[<<p[2], p[1] % p[2]>>]]
           g == [p \in Nat \X Nat |-> IF p = <<0, 0>> THEN 0 ELSE Max(Divisors(p))]
<1>1. ASSUME NEW a \in Nat, NEW b \in Nat PROVE g[<<a, b>>] = Step(g)[<<a, b>>]
  <2>0. <<a, b>> \in Nat \X Nat /\ <<a, b>>[1] = a /\ <<a, b>>[2] = b
    OBVIOUS
  <2>1. CASE b = 0 /\ a = 0
    BY <2>0, <2>1
  <2>2. CASE b = 0 /\ a # 0
    <3>1. Max(Divisors(<<a, 0>>)) = a
      BY <2>2, GreatestDivisor DEF Pos
    <3>2. QED
      BY <2>0, <2>2, <3>1
  <2>3. CASE b # 0
    <3>1. b \in Pos /\ a % b \in Nat
      BY <2>3, Divided DEF Pos
    <3>2. Divisors(<<a, b>>) = Divisors(<<b, a % b>>)
      BY <3>1, SameDivisors
    <3>3. g[<<a, b>>] = Max(Divisors(<<a, b>>))
      BY <2>0, <2>3
    <3>4. g[<<b, a % b>>] = Max(Divisors(<<b, a % b>>))
      BY <2>3, <3>1
    <3>5. Step(g)[<<a, b>>] = g[<<b, a % b>>]
      BY <2>0, <2>3
    <3>6. QED
      BY <3>2, <3>3, <3>4, <3>5
  <2>4. QED
    BY <2>1, <2>2, <2>3
<1>2. g = Step(g)
  <2>1. ASSUME NEW p \in Nat \X Nat PROVE g[p] = Step(g)[p]
    <3>1. PICK a \in Nat, b \in Nat : p = <<a, b>>
      OBVIOUS
    <3>2. g[<<a, b>>] = Step(g)[<<a, b>>]
      BY <1>1
    <3> HIDE DEF Step, g
    <3>3. QED
      BY <3>1, <3>2
  <2>2. g = [p \in Nat \X Nat |-> g[p]]
    OBVIOUS
  <2>3. Step(g) = [p \in Nat \X Nat |-> Step(g)[p]]
    OBVIOUS
  <2> HIDE DEF Step, g
  <2>4. [p \in Nat \X Nat |-> g[p]] = [p \in Nat \X Nat |-> Step(g)[p]]
    BY <2>1
  <2>5. QED
    BY <2>2, <2>3, <2>4
<1> HIDE DEF g
<1>3. \E f : f = Step(f)
  BY <1>2
<1>4. gcd = Step(gcd)
  BY <1>3 DEF gcd
<1>5. QED
  BY <1>4

\* What Euclid's algorithm computes divides both, and is a combination of both.
LEMMA GcdDivides ==
    ASSUME NEW a \in Nat, NEW b \in Nat, a + b # 0
    PROVE  \E g \in Pos, k, l \in Nat, u, v \in Int :
              gcd[<<a, b>>] = g /\ a = g * k /\ b = g * l /\ g = u * a + v * b
<1> DEFINE Good(c, d) == \E g \in Pos, k, l \in Nat, u, v \in Int :
                            gcd[<<c, d>>] = g /\ c = g * k /\ d = g * l /\ g = u * c + v * d
           P == {n \in Nat : \A d \in 0..n, c \in Nat : c + d # 0 => Good(c, d)}
<1>z. ASSUME NEW c \in Nat, c # 0 PROVE Good(c, 0)
  <2>1. c \in Pos /\ gcd[<<c, 0>>] = c
    BY <1>z, GcdIs DEF Pos
  <2>2. c = c * 1 /\ 0 = c * 0 /\ c = 1 * c + 0 * 0
    OBVIOUS
  <2>3. 1 \in Nat /\ 0 \in Nat /\ 1 \in Int /\ 0 \in Int
    OBVIOUS
  <2>4. QED
    BY <2>1, <2>2, <2>3
<1> HIDE DEF Good
<1>1. 0 \in P
  BY <1>z
<1>2. ASSUME NEW n \in P PROVE n + 1 \in P
  <2>n. n \in Nat /\ \A d \in 0..n, c \in Nat : c + d # 0 => Good(c, d)
    BY <1>2
  <2> SUFFICES ASSUME NEW c \in Nat PROVE Good(c, n + 1)
    <3>1. \A d \in 0..(n + 1) : d \in 0..n \/ d = n + 1
      BY <2>n
    <3>2. QED
      BY <2>n, <3>1
  <2>1. PICK d \in Pos : d = n + 1
    BY DEF Pos
  <2>2. PICK q \in Nat, r \in Nat : c = d * q + r /\ r = c % d /\ r < d
    BY Divided
  <2>3. r \in 0..n
    BY <2>1, <2>2
  <2>4. d \in Nat /\ d + r # 0
    BY DEF Pos
  <2>z. d # 0
    BY DEF Pos
  <2>5. CASE r = 0
    <3>1. gcd[<<c, d>>] = gcd[<<d, 0>>] /\ gcd[<<d, 0>>] = d
      <4>1. gcd[<<c, d>>] = gcd[<<d, c % d>>]
        BY <2>4, <2>z, GcdIs
      <4>2. 0 \in Nat
        OBVIOUS
      <4>3. gcd[<<d, 0>>] = d
        BY <2>4, <4>2, GcdIs
      <4>4. QED
        BY <2>2, <2>5, <4>1, <4>3
    <3>2. c = d * q /\ d = d * 1 /\ d = 0 * c + 1 * d
      BY <2>2, <2>4, <2>5
    <3>3. 1 \in Nat /\ 0 \in Int /\ 1 \in Int
      OBVIOUS
    <3>4. QED
      <4>1. gcd[<<c, d>>] = d /\ c = d * q /\ d = d * 1 /\ d = 0 * c + 1 * d
        BY <3>1, <3>2
      <4>2. Good(c, d)
        BY <3>3, <4>1 DEF Good
      <4>3. QED
        BY <2>1, <4>2
  <2>6. CASE r # 0
    <3>1. Good(d, r)
      BY <2>n, <2>3, <2>4
    <3>2. PICK g \in Pos, k \in Nat, l \in Nat, u \in Int, v \in Int :
             gcd[<<d, r>>] = g /\ d = g * k /\ r = g * l /\ g = u * d + v * r
      BY <3>1 DEF Good
    <3>3. gcd[<<c, d>>] = g
      BY <2>2, <2>4, <3>2, GcdIs, <2>z
    <3>m. (g * k) * q = g * (k * q) /\ k * q \in Nat
      BY DEF Pos
    <3>n. d * q = g * (k * q)
      BY <3>2, <3>m
    <3>g. g \in Nat
      BY DEF Pos
    <3>4. c = g * (k * q + l) /\ k * q + l \in Nat
      <4>1. PICK m \in Nat : m = k * q
        BY <3>m
      <4>2. g * (m + l) = g * m + g * l
        BY <3>g
      <4>3. c = g * m + g * l
        BY <2>2, <3>2, <3>n, <4>1
      <4>4. QED
        BY <4>1, <4>2, <4>3
    <3>5. g = v * c + (u - v * q) * d /\ u - v * q \in Int
      BY <2>2, <2>4, <3>2 DEF Pos
    <3>6. QED
      <4>1. PICK m \in Nat, w \in Int : m = k * q + l /\ w = u - v * q
        BY <3>4, <3>5
      <4>2. gcd[<<c, d>>] = g /\ c = g * m /\ d = g * k /\ g = v * c + w * d
        BY <3>2, <3>3, <3>4, <3>5, <4>1
      <4>3. Good(c, d)
        <5> SUFFICES \E h \in Pos, i, j \in Nat, s, t \in Int :
                        gcd[<<c, d>>] = h /\ c = h * i /\ d = h * j /\ h = s * c + t * d
          BY DEF Good
        <5> WITNESS g \in Pos, m \in Nat, k \in Nat, v \in Int, w \in Int
        <5> QED
          BY <4>2
      <4>4. QED
        BY <2>1, <4>3
  <2>7. QED
    BY <2>5, <2>6
<1>3. P = Nat
  <2> HIDE DEF P
  <2>1. P \in SUBSET Nat
    BY DEF P
  <2>2. QED
    BY <1>1, <1>2, <2>1, NumberInduction
<1>4. b \in P /\ b \in 0..b
  BY <1>3
<1>5. Good(a, b)
  BY <1>4
<1>6. QED
  BY <1>5 DEF Good

-----------------------------------------------------------------------------
(***************************************************************************)
(* Fractions in lowest terms: two are the same when they agree crosswise.  *)
(***************************************************************************)

Frac == {Q(n, d) : n \in Nat, d \in Pos}

\* What every positive number is.
LEMMA PosIs == ASSUME NEW n \in Pos PROVE n \in Nat /\ n \in Int /\ n > 0 /\ n # 0
BY DEF Pos

\* Products of four numbers, and what may be cancelled.
LEMMA Products ==
    ASSUME NEW x \in Int, NEW y \in Int, NEW z \in Int, NEW w \in Int
    PROVE  /\ (x * y) * (z * w) = (x * z) * (y * w)
           /\ (x * y) * (z * w) = (x * w) * (z * y)
           /\ (x + y) * z = x * z + y * z
           /\ (x - y) * z = x * z - y * z
OBVIOUS

\* A positive factor can be cancelled.
LEMMA Cancel ==
    ASSUME NEW x \in Int, NEW y \in Int, NEW z \in Pos
    PROVE  (x * z = y * z <=> x = y) /\ (x * z <= y * z <=> x <= y)
<1>1. z \in Int /\ z > 0
  BY PosIs
<1>2. x * z <= y * z => x <= y
  <2> SUFFICES ASSUME x > y PROVE x * z > y * z
    <3>1. x * z \in Int /\ y * z \in Int
      BY <1>1
    <3>2. QED
      BY <3>1
  <2>1. PICK k \in Int : k = x - y /\ k > 0
    OBVIOUS
  <2>2. k * z > 0
    BY <1>1, <2>1
  <2>3. k * z = x * z - y * z
    BY <1>1, <2>1, Products
  <2>4. x * z \in Int /\ y * z \in Int /\ k * z \in Int
    BY <1>1, <2>1
  <2>5. QED
    BY <2>2, <2>3, <2>4
<1>3. x <= y => x * z <= y * z
  <2> SUFFICES ASSUME x <= y PROVE x * z <= y * z
    OBVIOUS
  <2>1. PICK k \in Nat : k = y - x
    OBVIOUS
  <2>2. k * z >= 0
    BY <1>1, <2>1
  <2>3. k * z = y * z - x * z
    BY <1>1, <2>1, Products
  <2>4. x * z \in Int /\ y * z \in Int /\ k * z \in Int
    BY <1>1, <2>1
  <2>5. QED
    BY <2>2, <2>3, <2>4
<1>4. x * z = y * z => x = y
  <2> SUFFICES ASSUME x * z = y * z, x # y PROVE FALSE
    OBVIOUS
  <2>1. PICK k \in Int : k = x - y /\ k # 0
    OBVIOUS
  <2>2. k * z # 0
    BY <1>1, <2>1
  <2>3. k * z = x * z - y * z
    BY <1>1, <2>1, Products
  <2>4. x * z \in Int
    BY <1>1
  <2>5. QED
    BY <2>2, <2>3, <2>4
<1>5. QED
  BY <1>2, <1>3, <1>4

\* A product of positive numbers is positive.
LEMMA ProductPos == \A x, y \in Pos : x * y \in Pos
<1> SUFFICES ASSUME NEW x \in Pos, NEW y \in Pos PROVE x * y \in Pos
  OBVIOUS
<1>1. x \in Nat /\ y \in Nat /\ x > 0 /\ y > 0
  BY PosIs
<1>2. x * y \in Nat /\ x * y > 0
  BY <1>1
<1>3. QED
  BY <1>2 DEF Pos

\* n / d is a / b, in lowest terms.
Lowest(n, d, a, b) ==
    /\ Q(n, d) = <<a, b>>
    /\ a * d = n * b
    /\ \E u, v \in Int : u * a + v * b = 1

\* A fraction is a pair in lowest terms.
LEMMA QIs ==
    ASSUME NEW n \in Nat, NEW d \in Pos
    PROVE  \E a \in Nat, b \in Pos : Lowest(n, d, a, b)
<1>1. n + d # 0 /\ d \in Nat /\ d > 0
  BY PosIs
<1>2. PICK g \in Pos, k \in Nat, l \in Nat, u \in Int, v \in Int :
         gcd[<<n, d>>] = g /\ n = g * k /\ d = g * l /\ g = u * n + v * d
  BY <1>1, GcdDivides
<1>3. g \in Nat /\ g > 0
  BY PosIs
<1>4. Q(n, d) = <<k, l>>
  <2>1. n \div g = k /\ d \div g = l
    BY <1>1, <1>2, Divided
  <2>2. QED
    BY <1>2, <2>1 DEF Q
<1>5. l \in Pos
  <2>1. l # 0
    BY <1>1, <1>2, <1>3
  <2>2. QED
    BY <2>1 DEF Pos
<1>6. k * (g * l) = (g * k) * l
  BY <1>3
<1>7. u * k + v * l = 1
  <2>1. u * (g * k) + v * (g * l) = (u * k + v * l) * g
    BY <1>3
  <2>2. (u * k + v * l) * g = 1 * g
    BY <1>2, <1>3, <2>1
  <2>3. u * k + v * l \in Int /\ 1 \in Int
    OBVIOUS
  <2>4. QED
    BY <2>2, <2>3, Cancel
<1>8. k * d = n * l
  BY <1>2, <1>6
<1>9. Lowest(n, d, k, l)
  BY <1>4, <1>7, <1>8 DEF Lowest
<1>10. QED
  BY <1>5, <1>9

\* Equal fractions in lowest terms have the same denominator, as each divides
\* the other.
LEMMA Divides ==
    ASSUME NEW a \in Nat, NEW b \in Pos, NEW c \in Nat, NEW f \in Pos,
           NEW u \in Int, NEW v \in Int, a * f = c * b, u * a + v * b = 1
    PROVE  b <= f
<1>1. b \in Nat /\ f \in Nat /\ b > 0 /\ f > 0
  BY PosIs
<1>2. PICK t \in Int : t = u * c + v * f
  BY <1>1
<1>3. f = t * b
  <2>1. (u * a + v * b) * f = u * (a * f) + v * (b * f)
    BY <1>1
  <2>2. f = u * (c * b) + v * (b * f)
    BY <1>1, <2>1
  <2>3. u * (c * b) + v * (b * f) = (u * c + v * f) * b
    BY <1>1
  <2>4. QED
    BY <1>2, <2>2, <2>3
<1>4. t >= 1
  <2> SUFFICES ASSUME t <= 0 PROVE FALSE
    OBVIOUS
  <2>1. t * b <= 0
    BY <1>1
  <2>2. QED
    BY <1>1, <1>3, <2>1
<1>5. 1 * b <= t * b
  BY <1>4, Cancel
<1>6. QED
  BY <1>1, <1>3, <1>5

\* The numerators and denominators of two fractions, crosswise.
LEMMA Crosswise ==
    ASSUME NEW n \in Nat, NEW d \in Pos, NEW m \in Nat, NEW e \in Pos,
           NEW a \in Nat, NEW b \in Pos, NEW c \in Nat, NEW f \in Pos,
           Lowest(n, d, a, b), Lowest(m, e, c, f)
    PROVE  /\ (a * f) * (d * e) = (n * e) * (b * f)
           /\ (c * b) * (d * e) = (m * d) * (b * f)
           /\ (a * c) * (d * e) = (n * m) * (b * f)
           /\ (a * f) * (d * m) = (n * e) * (b * c)
<1>0. a * d = n * b /\ c * e = m * f
  BY DEF Lowest
<1>1. d \in Int /\ e \in Int /\ b \in Int /\ f \in Int
  BY PosIs
<1>2. (a * f) * (d * e) = (a * d) * (f * e) /\ (n * e) * (b * f) = (n * b) * (e * f)
  BY <1>1, Products
<1>3. (c * b) * (d * e) = (c * e) * (d * b) /\ (m * d) * (b * f) = (m * f) * (b * d)
  BY <1>1, Products
<1>4. (a * c) * (d * e) = (a * d) * (c * e) /\ (n * m) * (b * f) = (n * b) * (m * f)
  BY <1>1, Products
<1>5. (a * f) * (d * m) = (a * d) * (f * m) /\ (n * e) * (b * c) = (n * b) * (e * c)
  BY <1>1, Products
<1>6. f * e = e * f /\ d * b = b * d /\ f * m = m * f /\ e * c = c * e
  BY <1>1
<1>7. QED
  BY <1>0, <1>2, <1>3, <1>4, <1>5, <1>6

\* Fractions of one value are one fraction.
LEMMA QSame ==
    ASSUME NEW n \in Nat, NEW d \in Pos, NEW m \in Nat, NEW e \in Pos, n * e = m * d
    PROVE  Q(n, d) = Q(m, e)
<1>1. PICK a \in Nat, b \in Pos : Lowest(n, d, a, b)
  BY QIs
<1>2. PICK c \in Nat, f \in Pos : Lowest(m, e, c, f)
  BY QIs
<1>3. a * f = c * b
  <2>1. /\ (a * f) * (d * e) = (n * e) * (b * f)
        /\ (c * b) * (d * e) = (m * d) * (b * f)
    BY <1>1, <1>2, Crosswise
  <2>2. a * f \in Int /\ c * b \in Int /\ d * e \in Pos
    BY PosIs, ProductPos
  <2>3. PICK x \in Int, y \in Int, z \in Pos : x = a * f /\ y = c * b /\ z = d * e
    BY <2>2
  <2>4. x * z = y * z
    BY <2>1, <2>3
  <2>5. QED
    BY <2>3, <2>4, Cancel
<1>4. b <= f /\ f <= b
  <2>1. PICK u \in Int, v \in Int : u * a + v * b = 1
    BY <1>1 DEF Lowest
  <2>2. PICK s \in Int, t \in Int : s * c + t * f = 1
    BY <1>2 DEF Lowest
  <2>3. QED
    BY <1>3, <2>1, <2>2, Divides
<1>5. b = f
  BY <1>4, PosIs
<1>6. a = c
  BY <1>3, <1>5, Cancel
<1>7. QED
  BY <1>1, <1>2, <1>5, <1>6 DEF Lowest

\* Fractions are compared crosswise.
LEMMA QLeq ==
    ASSUME NEW n \in Nat, NEW d \in Pos, NEW m \in Nat, NEW e \in Pos
    PROVE  Leq(Q(n, d), Q(m, e)) <=> n * e <= m * d
<1>p. PICK a \in Nat, b \in Pos : Lowest(n, d, a, b)
  BY QIs
<1>q. PICK c \in Nat, f \in Pos : Lowest(m, e, c, f)
  BY QIs
<1>1. Q(n, d) = <<a, b>> /\ Q(m, e) = <<c, f>>
  BY <1>p, <1>q DEF Lowest
<1>3. /\ (a * f) * (d * e) = (n * e) * (b * f)
      /\ (c * b) * (d * e) = (m * d) * (b * f)
  BY <1>p, <1>q, Crosswise
<1>4. /\ a * f \in Int /\ c * b \in Int /\ n * e \in Int /\ m * d \in Int
      /\ d * e \in Pos /\ b * f \in Pos
  BY PosIs, ProductPos
<1>5. PICK af \in Int, cb \in Int, ne \in Int, md \in Int, de \in Pos, bf \in Pos :
        /\ af = a * f /\ cb = c * b /\ ne = n * e /\ md = m * d /\ de = d * e /\ bf = b * f
  BY <1>4
<1>6. (af <= cb <=> af * de <= cb * de) /\ (ne <= md <=> ne * bf <= md * bf)
  BY Cancel
<1>7. Leq(Q(n, d), Q(m, e)) <=> a * f <= c * b
  BY <1>1 DEF Leq
<1>8. QED
  BY <1>3, <1>5, <1>6, <1>7

\* The sum of two fractions.
LEMMA QPlus ==
    ASSUME NEW n \in Nat, NEW d \in Pos, NEW m \in Nat, NEW e \in Pos
    PROVE  Plus(Q(n, d), Q(m, e)) = Q(n * e + m * d, d * e)
<1>p. PICK a \in Nat, b \in Pos : Lowest(n, d, a, b)
  BY QIs
<1>q. PICK c \in Nat, f \in Pos : Lowest(m, e, c, f)
  BY QIs
<1>1. Q(n, d) = <<a, b>> /\ Q(m, e) = <<c, f>>
  BY <1>p, <1>q DEF Lowest
<1>3. /\ (a * f) * (d * e) = (n * e) * (b * f)
      /\ (c * b) * (d * e) = (m * d) * (b * f)
  BY <1>p, <1>q, Crosswise
<1>4. /\ a * f \in Nat /\ c * b \in Nat /\ n * e \in Nat /\ m * d \in Nat
      /\ d * e \in Pos /\ b * f \in Pos
  BY PosIs, ProductPos
<1>5. PICK af \in Nat, cb \in Nat, ne \in Nat, md \in Nat, de \in Pos, bf \in Pos :
        /\ af = a * f /\ cb = c * b /\ ne = n * e /\ md = m * d /\ de = d * e /\ bf = b * f
  BY <1>4
<1>6. (af + cb) * de = (ne + md) * bf
  BY <1>3, <1>5, Products, PosIs
<1>7. Q(af + cb, bf) = Q(ne + md, de)
  BY <1>6, QSame
<1>8. QED
  BY <1>1, <1>5, <1>7 DEF Plus

\* The difference of two fractions, the first no smaller.
LEMMA QMinus ==
    ASSUME NEW n \in Nat, NEW d \in Pos, NEW m \in Nat, NEW e \in Pos, m * d <= n * e
    PROVE  Minus(Q(n, d), Q(m, e)) = Q(n * e - m * d, d * e)
<1>p. PICK a \in Nat, b \in Pos : Lowest(n, d, a, b)
  BY QIs
<1>q. PICK c \in Nat, f \in Pos : Lowest(m, e, c, f)
  BY QIs
<1>1. Q(n, d) = <<a, b>> /\ Q(m, e) = <<c, f>>
  BY <1>p, <1>q DEF Lowest
<1>3. /\ (a * f) * (d * e) = (n * e) * (b * f)
      /\ (c * b) * (d * e) = (m * d) * (b * f)
  BY <1>p, <1>q, Crosswise
<1>4. /\ a * f \in Nat /\ c * b \in Nat /\ n * e \in Nat /\ m * d \in Nat
      /\ d * e \in Pos /\ b * f \in Pos
  BY PosIs, ProductPos
<1>5. PICK af \in Nat, cb \in Nat, ne \in Nat, md \in Nat, de \in Pos, bf \in Pos :
        /\ af = a * f /\ cb = c * b /\ ne = n * e /\ md = m * d /\ de = d * e /\ bf = b * f
  BY <1>4
<1>6. (af - cb) * de = (ne - md) * bf
  BY <1>3, <1>5, Products, PosIs
<1>7. cb <= af
  <2>0. md <= ne
    BY <1>5
  <2>1. md * bf <= ne * bf
    BY <2>0, Cancel
  <2>2. cb * de <= af * de
    BY <1>3, <1>5, <2>1
  <2>3. QED
    BY <2>2, Cancel
<1>8. af - cb \in Nat /\ ne - md \in Nat
  BY <1>5, <1>7
<1>9. Q(af - cb, bf) = Q(ne - md, de)
  BY <1>6, <1>8, QSame
<1>10. QED
  BY <1>1, <1>5, <1>9 DEF Minus

\* The product and the quotient of two fractions.
LEMMA QTimes ==
    ASSUME NEW n \in Nat, NEW d \in Pos, NEW m \in Nat, NEW e \in Pos
    PROVE  /\ Times(Q(n, d), Q(m, e)) = Q(n * m, d * e)
           /\ m # 0 => Over(Q(n, d), Q(m, e)) = Q(n * e, d * m)
<1>p. PICK a \in Nat, b \in Pos : Lowest(n, d, a, b)
  BY QIs
<1>q. PICK c \in Nat, f \in Pos : Lowest(m, e, c, f)
  BY QIs
<1>1. Q(n, d) = <<a, b>> /\ Q(m, e) = <<c, f>> /\ c * e = m * f
  BY <1>p, <1>q DEF Lowest
<1>3. /\ (a * c) * (d * e) = (n * m) * (b * f)
      /\ (a * f) * (d * m) = (n * e) * (b * c)
  BY <1>p, <1>q, Crosswise
<1>4. /\ a * c \in Nat /\ a * f \in Nat /\ n * m \in Nat /\ n * e \in Nat
      /\ d * e \in Pos /\ b * f \in Pos
  BY PosIs, ProductPos
<1>5. Times(Q(n, d), Q(m, e)) = Q(n * m, d * e)
  <2>1. Q(a * c, b * f) = Q(n * m, d * e)
    BY <1>3, <1>4, QSame
  <2>2. QED
    BY <1>1, <2>1 DEF Times
<1>6. ASSUME m # 0 PROVE Over(Q(n, d), Q(m, e)) = Q(n * e, d * m)
  <2>1. m \in Pos /\ f \in Nat /\ f > 0 /\ e \in Nat
    BY <1>6, PosIs DEF Pos
  <2>2. c # 0
    <3>1. m * f \in Pos
      BY <2>1, ProductPos
    <3>2. CASE c = 0
      <4>1. 0 * e = 0
        BY <2>1
      <4>2. QED
        BY <1>1, <3>1, <3>2, <4>1, PosIs
    <3>3. QED
      BY <3>2
  <2>3. c \in Pos
    BY <2>2 DEF Pos
  <2>4. b * c \in Pos /\ d * m \in Pos
    BY <2>1, <2>3, ProductPos
  <2>5. Q(a * f, b * c) = Q(n * e, d * m)
    BY <1>3, <1>4, <2>4, QSame
  <2>6. QED
    BY <1>1, <2>5 DEF Over
<1>7. QED
  BY <1>5, <1>6

\* A whole number is a fraction.
LEMMA QWhole == \A n \in Nat : Whole(n) = Q(n, 1)
<1> SUFFICES ASSUME NEW n \in Nat PROVE Whole(n) = Q(n, 1)
  OBVIOUS
<1>1. 1 \in Pos
  BY DEF Pos
<1>p. PICK a \in Nat, b \in Pos : Lowest(n, 1, a, b)
  BY <1>1, QIs
<1>2. PICK u \in Int, v \in Int :
         Q(n, 1) = <<a, b>> /\ a * 1 = n * b /\ u * a + v * b = 1
  BY <1>p DEF Lowest
<1>3. b \in Nat /\ b > 0 /\ a = n * b
  BY <1>2, PosIs
<1>4. a * 1 = n * b /\ 1 \in Nat
  BY <1>2
<1>5. b <= 1
  BY <1>1, <1>2, Divides
<1>6. b = 1
  BY <1>3, <1>5
<1>7. QED
  BY <1>2, <1>3, <1>6 DEF Whole

\* Q makes fractions.
LEMMA QInFrac == \A n \in Nat, d \in Pos : Q(n, d) \in Frac
BY DEF Frac

-----------------------------------------------------------------------------
(***************************************************************************)
(* The arithmetic of fractions.                                            *)
(***************************************************************************)

\* Any three fractions have a common denominator.
LEMMA Common ==
    ASSUME NEW p \in Frac, NEW q \in Frac, NEW r \in Frac
    PROVE  \E a, b, c \in Nat, d \in Pos : p = Q(a, d) /\ q = Q(b, d) /\ r = Q(c, d)
<1>1. PICK i \in Nat, j \in Pos, k \in Nat, l \in Pos, m \in Nat, n \in Pos :
         p = Q(i, j) /\ q = Q(k, l) /\ r = Q(m, n)
  BY DEF Frac
<1>2. j \in Nat /\ l \in Nat /\ n \in Nat
  BY PosIs
<1>3. PICK a \in Nat, b \in Nat, c \in Nat, d \in Pos :
         a = i * (l * n) /\ b = k * (j * n) /\ c = m * (j * l) /\ d = j * (l * n)
  BY <1>2, ProductPos
<1>4. i * d = a * j /\ k * d = b * l /\ m * d = c * n
  <2>1. i * (j * (l * n)) = (i * (l * n)) * j
    BY <1>2
  <2>2. k * (j * (l * n)) = (k * (j * n)) * l
    BY <1>2
  <2>3. m * (j * (l * n)) = (m * (j * l)) * n
    BY <1>2
  <2>4. QED
    BY <1>3, <2>1, <2>2, <2>3
<1>5. Q(i, j) = Q(a, d) /\ Q(k, l) = Q(b, d) /\ Q(m, n) = Q(c, d)
  BY <1>4, QSame
<1>6. QED
  BY <1>1, <1>5

\* Over one denominator, fractions are added and compared like numbers.
LEMMA OverOne ==
    ASSUME NEW a \in Nat, NEW b \in Nat, NEW d \in Pos
    PROVE  /\ Plus(Q(a, d), Q(b, d)) = Q(a + b, d)
           /\ b <= a => Minus(Q(a, d), Q(b, d)) = Q(a - b, d)
           /\ Leq(Q(a, d), Q(b, d)) <=> a <= b
           /\ Q(a, d) = Q(b, d) <=> a = b
           /\ Q(0, d) = Zero
<1>1. d \in Nat /\ d > 0 /\ d \in Int /\ d * d \in Pos
  BY PosIs, ProductPos
<1>2. Leq(Q(a, d), Q(b, d)) <=> a <= b
  <2>1. Leq(Q(a, d), Q(b, d)) <=> a * d <= b * d
    BY QLeq
  <2>2. QED
    BY <2>1, Cancel
<1>3. Leq(Q(b, d), Q(a, d)) <=> b <= a
  <2>1. Leq(Q(b, d), Q(a, d)) <=> b * d <= a * d
    BY QLeq
  <2>2. QED
    BY <2>1, Cancel
<1>4. Plus(Q(a, d), Q(b, d)) = Q(a + b, d)
  <2>1. Plus(Q(a, d), Q(b, d)) = Q(a * d + b * d, d * d)
    BY QPlus
  <2>2. PICK s \in Nat, t \in Pos : s = a * d + b * d /\ t = d * d
    BY <1>1
  <2>3. (a * d + b * d) * d = (a + b) * (d * d)
    BY <1>1
  <2>4. s * d = (a + b) * t
    BY <2>2, <2>3
  <2>5. Q(s, t) = Q(a + b, d)
    BY <2>4, QSame
  <2>6. QED
    BY <2>1, <2>2, <2>5
<1>5. ASSUME b <= a PROVE Minus(Q(a, d), Q(b, d)) = Q(a - b, d)
  <2>0. b * d <= a * d
    BY <1>5, Cancel
  <2>1. Minus(Q(a, d), Q(b, d)) = Q(a * d - b * d, d * d)
    BY <2>0, QMinus
  <2>2. PICK s \in Nat, t \in Pos : s = a * d - b * d /\ t = d * d
    BY <1>1, <2>0
  <2>3. (a * d - b * d) * d = (a - b) * (d * d)
    BY <1>1
  <2>4. s * d = (a - b) * t /\ a - b \in Nat
    BY <1>5, <2>2, <2>3
  <2>5. Q(s, t) = Q(a - b, d)
    BY <2>4, QSame
  <2>6. QED
    BY <2>1, <2>2, <2>5
<1>6. Q(a, d) = Q(b, d) => a = b
  <2>1. Leq(Q(a, d), Q(a, d))
    <3>1. a * d <= a * d
      BY <1>1
    <3>2. QED
      BY <3>1, QLeq
  <2>2. QED
    BY <1>2, <1>3, <2>1
<1>7. Q(0, d) = Zero
  <2>1. 0 \in Nat /\ 1 \in Pos
    BY DEF Pos
  <2>2. 0 * d = 0 * 1
    BY <1>1
  <2>3. Q(0, d) = Q(0, 1)
    BY <2>1, <2>2, QSame
  <2>4. QED
    BY <2>1, <2>3, QWhole DEF Zero
<1>8. QED
  BY <1>2, <1>4, <1>5, <1>6, <1>7

\* Sums and differences.
LEMMA Sums ==
    ASSUME NEW p \in Frac, NEW q \in Frac
    PROVE  /\ Plus(p, q) \in Frac
           /\ Plus(p, q) = Plus(q, p)
           /\ Plus(p, Zero) = p
           /\ Zero \in Frac /\ Leq(Zero, p)
           /\ Leq(p, p) /\ Leq(p, Plus(p, q))
           /\ Leq(p, q) \/ Leq(q, p)
           /\ Leq(p, q) /\ Leq(q, p) => p = q
           /\ Leq(q, p) => Minus(p, q) \in Frac /\ Plus(q, Minus(p, q)) = p
<1>1. PICK a \in Nat, b \in Nat, d \in Pos : p = Q(a, d) /\ q = Q(b, d)
  BY Common
<1>2. /\ Plus(p, q) = Q(a + b, d) /\ Plus(q, p) = Q(b + a, d) /\ a + b \in Nat
      /\ a + b = b + a
  BY <1>1, OverOne
<1>3. Plus(p, Zero) = p
  <2>1. 0 \in Nat /\ a + 0 = a
    OBVIOUS
  <2>2. Plus(Q(a, d), Q(0, d)) = Q(a + 0, d)
    BY <2>1, OverOne
  <2>3. QED
    BY <1>1, <2>1, <2>2, OverOne
<1>4. Zero \in Frac /\ Leq(Zero, p)
  <2>1. 0 \in Nat /\ 0 <= a
    OBVIOUS
  <2>2. Zero = Q(0, d) /\ Q(0, d) \in Frac
    BY <2>1, OverOne, QInFrac
  <2>3. Leq(Q(0, d), Q(a, d))
    BY <2>1, OverOne
  <2>4. QED
    BY <1>1, <2>2, <2>3
<1>5. Leq(p, p) /\ Leq(p, Plus(p, q))
  <2>1. a <= a /\ a <= a + b
    OBVIOUS
  <2>2. Leq(Q(a, d), Q(a, d)) /\ Leq(Q(a, d), Q(a + b, d))
    BY <1>2, <2>1, OverOne
  <2>3. QED
    BY <1>1, <1>2, <2>2
<1>6. /\ Leq(p, q) <=> a <= b
      /\ Leq(q, p) <=> b <= a
  BY <1>1, OverOne
<1>7. ASSUME Leq(q, p) PROVE Minus(p, q) \in Frac /\ Plus(q, Minus(p, q)) = p
  <2>1. PICK c \in Nat : c = a - b /\ b + c = a
    BY <1>6, <1>7
  <2>2. Minus(p, q) = Q(c, d)
    BY <1>1, <1>6, <1>7, <2>1, OverOne
  <2>3. Plus(q, Q(c, d)) = Q(b + c, d)
    BY <1>1, OverOne
  <2>4. QED
    BY <1>1, <2>1, <2>2, <2>3, QInFrac
<1>8. Leq(p, q) \/ Leq(q, p)
  BY <1>6
<1>9. Leq(p, q) /\ Leq(q, p) => p = q
  <2>1. a <= b /\ b <= a => a = b
    OBVIOUS
  <2>2. QED
    BY <1>1, <1>6, <2>1
<1>10. Plus(p, q) \in Frac
  BY <1>2, QInFrac
<1>11. QED
  BY <1>2, <1>3, <1>4, <1>5, <1>7, <1>8, <1>9, <1>10

\* Three fractions: sums associate, and keep the order.
LEMMA SumsOfThree ==
    ASSUME NEW p \in Frac, NEW q \in Frac, NEW r \in Frac
    PROVE  /\ Plus(Plus(p, q), r) = Plus(p, Plus(q, r))
           /\ Leq(p, q) /\ Leq(q, r) => Leq(p, r)
           /\ Leq(Plus(p, q), Plus(p, r)) <=> Leq(q, r)
           /\ Plus(p, q) = Plus(p, r) => q = r
<1>1. PICK a \in Nat, b \in Nat, c \in Nat, d \in Pos :
         p = Q(a, d) /\ q = Q(b, d) /\ r = Q(c, d)
  BY ZenonT(30), Common
<1>2. /\ a + b \in Nat /\ b + c \in Nat /\ a + c \in Nat
      /\ (a + b) + c = a + (b + c)
  OBVIOUS
<1>3. Plus(p, q) = Q(a + b, d) /\ Plus(q, r) = Q(b + c, d) /\ Plus(p, r) = Q(a + c, d)
  BY <1>1, OverOne
<1>4. Plus(Plus(p, q), r) = Q((a + b) + c, d) /\ Plus(p, Plus(q, r)) = Q(a + (b + c), d)
  BY <1>1, <1>2, <1>3, OverOne
<1>5. /\ Leq(p, q) <=> a <= b
      /\ Leq(q, r) <=> b <= c
      /\ Leq(p, r) <=> a <= c
  BY <1>1, OverOne
<1>6. Leq(Plus(p, q), Plus(p, r)) <=> a + b <= a + c
  BY <1>2, <1>3, OverOne
<1>7. Plus(p, q) = Plus(p, r) => a + b = a + c
  BY <1>2, <1>3, OverOne
<1>8. a + b = a + c => b = c
  OBVIOUS
<1>9. a <= b /\ b <= c => a <= c
  OBVIOUS
<1>10. a + b <= a + c <=> b <= c
  OBVIOUS
<1>11. QED
  BY <1>1, <1>2, <1>4, <1>5, <1>6, <1>7, <1>8, <1>9, <1>10

\* Products and quotients.
LEMMA ProductsOf ==
    ASSUME NEW p \in Frac, NEW q \in Frac
    PROVE  /\ Times(p, q) \in Frac
           /\ Times(p, q) = Times(q, p)
           /\ Times(Zero, q) = Zero
           /\ q # Zero =>
                /\ Over(p, q) \in Frac
                /\ Times(Over(p, q), q) = p
                /\ Over(Times(p, q), q) = p
                /\ p # Zero => Over(p, q) # Zero /\ Times(p, q) # Zero
<1>1. PICK a \in Nat, b \in Nat, d \in Pos : p = Q(a, d) /\ q = Q(b, d)
  BY Common
<1>2. d \in Nat /\ d > 0 /\ d * d \in Pos /\ a * b \in Nat /\ b * a = a * b /\ a * d \in Nat
  BY PosIs, ProductPos
<1>3. Times(p, q) = Q(a * b, d * d) /\ Times(q, p) = Q(b * a, d * d)
  BY <1>1, QTimes
<1>4. Times(p, q) \in Frac /\ Times(p, q) = Times(q, p)
  BY <1>2, <1>3, QInFrac
<1>z. Times(Zero, q) = Zero
  <2>1. 0 \in Nat /\ 0 * b = 0
    OBVIOUS
  <2>2. Zero = Q(0, d) /\ Zero = Q(0, d * d)
    BY <1>2, OverOne
  <2>3. Times(Q(0, d), q) = Q(0 * b, d * d)
    BY <1>1, <2>1, QTimes
  <2>4. QED
    BY <2>1, <2>2, <2>3
<1>5. ASSUME q # Zero
      PROVE  /\ Over(p, q) \in Frac
             /\ Times(Over(p, q), q) = p
             /\ Over(Times(p, q), q) = p
             /\ p # Zero => Over(p, q) # Zero /\ Times(p, q) # Zero
  <2>1. b # 0
    BY <1>1, <1>5, OverOne
  <2>2. b \in Pos /\ d * b \in Pos
    BY <2>1, ProductPos DEF Pos
  <2>3. PICK n \in Nat, m \in Pos, k \in Nat, l \in Pos :
           n = a * d /\ m = d * b /\ k = a * b /\ l = d * d
    BY <1>2, <2>2
  <2>4. Over(p, q) = Q(n, m)
    BY <1>1, <2>1, <2>3, QTimes
  <2>5. Times(Over(p, q), q) = p
    <3>1. Times(Q(n, m), Q(b, d)) = Q(n * b, m * d)
      BY QTimes
    <3>2. ((a * d) * b) * d = a * ((d * b) * d)
      BY <1>2
    <3>3. PICK x \in Nat, y \in Pos : x = n * b /\ y = m * d
      BY <2>2, PosIs, ProductPos
    <3>4. x * d = a * y
      BY <2>3, <3>2, <3>3
    <3>5. Q(x, y) = Q(a, d)
      BY <3>4, QSame
    <3>6. QED
      BY <1>1, <2>4, <3>1, <3>3, <3>5
  <2>6. Over(Times(p, q), q) = p
    <3>1. Over(Q(k, l), Q(b, d)) = Q(k * d, l * b)
      BY <2>1, QTimes
    <3>2. ((a * b) * d) * d = a * ((d * d) * b)
      BY <1>2
    <3>3. PICK x \in Nat, y \in Pos : x = k * d /\ y = l * b
      BY <1>2, <2>2, ProductPos
    <3>4. x * d = a * y
      BY <2>3, <3>2, <3>3
    <3>5. Q(x, y) = Q(a, d)
      BY <3>4, QSame
    <3>6. QED
      BY <1>1, <1>3, <2>3, <3>1, <3>3, <3>5
  <2>7. ASSUME p # Zero PROVE Over(p, q) # Zero /\ Times(p, q) # Zero
    <3>1. a # 0
      BY <1>1, <2>7, OverOne
    <3>2. a \in Pos
      BY <3>1 DEF Pos
    <3>3. n # 0 /\ k # 0
      BY <2>2, <2>3, <3>2, ProductPos, PosIs
    <3>4. 0 \in Nat /\ Q(0, m) = Zero /\ Q(0, l) = Zero
      BY OverOne
    <3>5. Q(n, m) # Q(0, m) /\ Q(k, l) # Q(0, l)
      BY <3>3, <3>4, OverOne
    <3>6. QED
      BY <1>3, <2>3, <2>4, <3>4, <3>5
  <2>8. QED
    BY <2>4, <2>5, <2>6, <2>7, QInFrac
<1>6. QED
  BY <1>4, <1>5, <1>z

\* Products distribute over sums and keep the order.
LEMMA ProductsOfThree ==
    ASSUME NEW p \in Frac, NEW q \in Frac, NEW r \in Frac
    PROVE  /\ Times(Plus(p, q), r) = Plus(Times(p, r), Times(q, r))
           /\ r # Zero => (Leq(Times(p, r), Times(q, r)) <=> Leq(p, q))
<1>1. PICK a \in Nat, b \in Nat, c \in Nat, d \in Pos :
         p = Q(a, d) /\ q = Q(b, d) /\ r = Q(c, d)
  BY ZenonT(30), Common
<1>2. c \in Int /\ d * d \in Pos /\ a * c \in Nat /\ b * c \in Nat /\ a + b \in Nat
  BY ProductPos
<1>3. Times(p, r) = Q(a * c, d * d) /\ Times(q, r) = Q(b * c, d * d)
  BY <1>1, QTimes
<1>4. Times(Plus(p, q), r) = Q((a + b) * c, d * d)
  BY <1>1, <1>2, OverOne, QTimes
<1>5. (a + b) * c = a * c + b * c
  BY <1>2, Products
<1>6. PICK x \in Nat, y \in Nat, z \in Pos : x = a * c /\ y = b * c /\ z = d * d
  BY <1>2
<1>7. Plus(Q(x, z), Q(y, z)) = Q(x + y, z)
  BY OverOne
<1>8. ASSUME r # Zero PROVE Leq(Times(p, r), Times(q, r)) <=> Leq(p, q)
  <2>1. c # 0
    BY <1>1, <1>8, OverOne
  <2>2. c \in Pos
    BY <2>1 DEF Pos
  <2>3. Leq(Q(x, z), Q(y, z)) <=> x <= y
    BY OverOne
  <2>4. x <= y <=> a <= b
    BY <1>6, <2>2, Cancel
  <2>5. Leq(p, q) <=> a <= b
    BY <1>1, OverOne
  <2>6. QED
    BY <1>3, <1>6, <2>3, <2>4, <2>5
<1>9. QED
  BY <1>3, <1>4, <1>5, <1>6, <1>7, <1>8

\* What quotients and differences add up to.
LEMMA QuotientsAdd ==
    ASSUME NEW p \in Frac, NEW q \in Frac, NEW s \in Frac, s # Zero
    PROVE  /\ Over(Plus(p, q), s) = Plus(Over(p, s), Over(q, s))
           /\ Over(Zero, s) = Zero
           /\ Times(s, Over(p, s)) = p
<1>1. PICK x \in Frac, y \in Frac : x = Over(p, s) /\ y = Over(q, s)
  BY ProductsOf
<1>2. Times(x, s) = p /\ Times(y, s) = q /\ Plus(x, y) \in Frac
  BY <1>1, ProductsOf, Sums
<1>3. Times(Plus(x, y), s) = Plus(p, q)
  BY <1>2, ProductsOfThree
<1>4. Over(Times(Plus(x, y), s), s) = Plus(x, y)
  BY <1>2, ProductsOf
<1>5. Zero \in Frac
  BY Sums
<1>6. Over(Times(Zero, s), s) = Zero /\ Times(Zero, s) = Zero
  BY <1>5, ProductsOf
<1>7. Times(s, x) = p
  BY <1>2, ProductsOf
<1>8. QED
  BY <1>1, <1>3, <1>4, <1>6, <1>7

\* A difference is what is missing.
LEMMA DifferencesAdd ==
    ASSUME NEW p \in Frac, NEW q \in Frac, NEW x \in Frac, Leq(q, p)
    PROVE  /\ Minus(p, q) \in Frac
           /\ Plus(Plus(x, q), Minus(p, q)) = Plus(x, p)
           /\ Times(p, x) = Plus(Times(q, x), Times(Minus(p, q), x))
<1>1. PICK m \in Frac : m = Minus(p, q) /\ Plus(q, m) = p
  BY Sums
<1>2. Plus(Plus(x, q), m) = Plus(x, Plus(q, m))
  BY SumsOfThree
<1>3. Times(Plus(q, m), x) = Plus(Times(q, x), Times(m, x))
  BY ProductsOfThree
<1>4. QED
  BY <1>1, <1>2, <1>3

-----------------------------------------------------------------------------
(***************************************************************************)
(* Sums of lists.                                                          *)
(***************************************************************************)

\* f starts at b and goes on by g, n times.
Course(f, b, g, n) == \A i \in 0..n : f[i] = IF i = 0 THEN b ELSE g[<<f[i - 1], i>>]

\* A function that says how to go on from one number to the next has a course.
LEMMA CourseExists ==
    ASSUME NEW T, NEW b \in T, NEW n \in Nat, NEW g \in [T \X (1..n) -> T]
    PROVE  \E f \in [0..n -> T] : Course(f, b, g, n)
<1> DEFINE Up(f, k) == Course(f, b, g, k)
           P == {k \in Nat : k <= n => \E f \in [0..n -> T] : Up(f, k)}
<1>1. 0 \in P
  <2> DEFINE f == [i \in 0..n |-> b]
  <2>1. f \in [0..n -> T] /\ f[0] = b
    OBVIOUS
  <2>2. Up(f, 0)
    BY <2>1 DEF Course
  <2> HIDE DEF f, Up
  <2>3. QED
    BY <2>1, <2>2
<1>2. ASSUME NEW k \in P PROVE k + 1 \in P
  <2> SUFFICES ASSUME k + 1 <= n PROVE \E f \in [0..n -> T] : Up(f, k + 1)
    OBVIOUS
  <2>1. k \in Nat /\ k + 1 \in 1..n
    OBVIOUS
  <2>2. PICK f \in [0..n -> T] : Up(f, k)
    BY <2>1
  <2>3. f[k] \in T /\ g[<<f[k], k + 1>>] \in T
    BY <2>1
  <2>4. PICK h \in [0..n -> T] : h = [f EXCEPT ![k + 1] = g[<<f[k], k + 1>>]]
    BY <2>3
  <2>5. h[k + 1] = g[<<f[k], k + 1>>] /\ \A i \in 0..k : h[i] = f[i]
    BY <2>1, <2>4
  <2>6. ASSUME NEW i \in 0..(k + 1) PROVE h[i] = IF i = 0 THEN b ELSE g[<<h[i - 1], i>>]
    <3>1. CASE i = k + 1
      <4>1. i - 1 = k /\ k \in 0..k /\ i # 0
        BY <2>1, <3>1
      <4>2. QED
        BY <2>5, <3>1, <4>1
    <3>2. CASE i # k + 1
      <4>1. i \in 0..k /\ (i # 0 => i - 1 \in 0..k)
        BY <2>1, <3>2
      <4>2. QED
        BY <2>2, <2>5, <4>1 DEF Course
    <3>3. QED
      BY <3>1, <3>2
  <2>7. Up(h, k + 1)
    BY <2>6 DEF Course
  <2>8. QED
    BY <2>4, <2>7
<1>3. P = Nat
  <2> HIDE DEF P
  <2>1. P \in SUBSET Nat
    BY DEF P
  <2>2. QED
    BY <1>1, <1>2, <2>1, NumberInduction
<1>4. \E f \in [0..n -> T] : Up(f, n)
  BY <1>3
<1>5. QED
  BY <1>4

\* The sums of a list, one after another.
LEMMA UpToIs ==
    ASSUME NEW s \in Seq(Frac)
    PROVE  /\ upTo(s) \in [0..Len(s) -> Frac]
           /\ upTo(s)[0] = Zero
           /\ \A i \in 1..Len(s) : upTo(s)[i] = Plus(upTo(s)[i - 1], s[i])
<1>0. PICK n \in Nat : n = Len(s) /\ s \in [1..n -> Frac]
  BY LenProperties
<1> DEFINE Step(f) == [i \in 0..n |-> IF i = 0 THEN Zero ELSE Plus(f[i - 1], s[i])]
           g == [p \in Frac \X (1..n) |-> Plus(p[1], s[p[2]])]
<1>1. g \in [Frac \X (1..n) -> Frac]
  BY <1>0, Sums
<1>2. ASSUME NEW p \in Frac, NEW i \in 1..n PROVE g[<<p, i>>] = Plus(p, s[i])
  OBVIOUS
<1>3. Zero \in Frac
  <2>1. 0 \in Nat /\ 1 \in Pos
    BY DEF Pos
  <2>2. QED
    BY <2>1, QWhole, QInFrac DEF Zero
<1> HIDE DEF g
<1>4. PICK f \in [0..n -> Frac] : Course(f, Zero, g, n)
  BY <1>1, <1>3, CourseExists
<1>5. f = Step(f)
  <2>1. ASSUME NEW i \in 0..n PROVE f[i] = IF i = 0 THEN Zero ELSE Plus(f[i - 1], s[i])
    <3>1. CASE i # 0
      <4>1. i \in 1..n /\ i - 1 \in 0..n
        BY <3>1
      <4>2. QED
        BY <1>2, <1>4, <3>1, <4>1 DEF Course
    <3>2. QED
      BY <1>4, <3>1 DEF Course
  <2>2. QED
    BY <2>1
<1>6. upTo(s) = CHOOSE total : total = Step(total)
  BY <1>0 DEF upTo
<1>7. upTo(s) = Step(upTo(s))
  <2> HIDE DEF Step
  <2>1. QED
    BY <1>5, <1>6
<1>8. PICK u : u = upTo(s)
  OBVIOUS
<1>9. /\ DOMAIN u = 0..n /\ u = [i \in 0..n |-> u[i]]
      /\ \A i \in 0..n : u[i] = IF i = 0 THEN Zero ELSE Plus(u[i - 1], s[i])
  BY <1>7, <1>8
<1> DEFINE P == {k \in Nat : k <= n => u[k] \in Frac}
<1>10. 0 \in P
  BY <1>3, <1>9
<1>11. ASSUME NEW k \in P PROVE k + 1 \in P
  <2> SUFFICES ASSUME k + 1 <= n PROVE u[k + 1] \in Frac
    OBVIOUS
  <2>1. k \in Nat /\ k + 1 \in 1..n /\ k + 1 \in 0..n /\ (k + 1) - 1 = k /\ k + 1 # 0
    OBVIOUS
  <2>2. u[k] \in Frac /\ s[k + 1] \in Frac
    BY <1>0, <2>1
  <2>3. u[k + 1] = Plus(u[k], s[k + 1])
    BY <1>9, <2>1
  <2>4. QED
    BY <2>2, <2>3, Sums
<1>12. P = Nat
  <2> HIDE DEF P
  <2>1. P \in SUBSET Nat
    BY DEF P
  <2>2. QED
    BY <1>10, <1>11, <2>1, NumberInduction
<1>13. \A i \in 0..n : u[i] \in Frac
  BY <1>12
<1>14. QED
  BY <1>0, <1>8, <1>9, <1>13

\* A list of fractions adds up to one.
LEMMA SumInFrac == \A s \in Seq(Frac) : Sum(s) \in Frac
<1> SUFFICES ASSUME NEW s \in Seq(Frac) PROVE Sum(s) \in Frac
  OBVIOUS
<1>1. Len(s) \in 0..Len(s)
  <2>1. Len(s) \in Nat
    BY LenProperties
  <2>2. QED
    BY <2>1
<1>2. QED
  BY <1>1, UpToIs DEF Sum

\* A part of a list adds up to what the list gains over it.
LEMMA PartAddsUp ==
    ASSUME NEW s \in Seq(Frac), NEW t \in Seq(Frac), NEW k \in Nat, k + Len(t) <= Len(s),
           \A j \in 1..Len(t) : t[j] = s[k + j]
    PROVE  \A i \in 0..Len(t) : upTo(s)[k + i] = Plus(upTo(s)[k], upTo(t)[i])
<1>0. PICK m \in Nat, n \in Nat : m = Len(s) /\ n = Len(t) /\ k + n <= m
  BY LenProperties
<1>1. PICK u, v : u = upTo(s) /\ v = upTo(t)
  OBVIOUS
<1>2. /\ u \in [0..m -> Frac] /\ u[0] = Zero /\ \A i \in 1..m : u[i] = Plus(u[i - 1], s[i])
      /\ v \in [0..n -> Frac] /\ v[0] = Zero /\ \A i \in 1..n : v[i] = Plus(v[i - 1], t[i])
  BY <1>0, <1>1, UpToIs
<1>3. s \in [1..m -> Frac] /\ t \in [1..n -> Frac]
  BY <1>0, LenProperties
<1> DEFINE P == {i \in Nat : i <= n => u[k + i] = Plus(u[k], v[i])}
<1>4. 0 \in P
  <2>1. k \in 0..m /\ k + 0 = k
    BY <1>0
  <2>2. Plus(u[k], Zero) = u[k]
    BY <1>2, <2>1, Sums
  <2>3. QED
    BY <1>2, <2>1, <2>2
<1>5. ASSUME NEW i \in P PROVE i + 1 \in P
  <2> SUFFICES ASSUME i + 1 <= n PROVE u[k + (i + 1)] = Plus(u[k], v[i + 1])
    OBVIOUS
  <2>1. /\ i \in Nat /\ i \in 0..n /\ i + 1 \in 1..n /\ (i + 1) - 1 = i
        /\ k \in 0..m /\ k + (i + 1) \in 1..m /\ (k + (i + 1)) - 1 = k + i
    BY <1>0
  <2>2. u[k + i] = Plus(u[k], v[i])
    BY <2>1
  <2>3. PICK e \in Frac : e = t[i + 1] /\ e = s[k + (i + 1)]
    BY <1>0, <1>3, <2>1
  <2>4. u[k + (i + 1)] = Plus(u[k + i], e) /\ v[i + 1] = Plus(v[i], e)
    BY <1>2, <2>1, <2>3
  <2>5. PICK x \in Frac, y \in Frac : x = u[k] /\ y = v[i]
    BY <1>2, <2>1
  <2>6. Plus(Plus(x, y), e) = Plus(x, Plus(y, e))
    BY SumsOfThree
  <2>7. QED
    BY <2>2, <2>4, <2>5, <2>6
<1>6. P = Nat
  <2> HIDE DEF P
  <2>1. P \in SUBSET Nat
    BY DEF P
  <2>2. QED
    BY <1>4, <1>5, <2>1, NumberInduction
<1>7. \A i \in 0..n : u[k + i] = Plus(u[k], v[i])
  BY <1>6
<1>8. QED
  BY <1>0, <1>1, <1>7

\* Lists add up alike as far as they agree.
LEMMA PrefixAddsUp ==
    ASSUME NEW s \in Seq(Frac), NEW t \in Seq(Frac), Len(t) <= Len(s),
           \A j \in 1..Len(t) : t[j] = s[j]
    PROVE  \A i \in 0..Len(t) : upTo(s)[i] = upTo(t)[i]
<1>1. Len(t) \in Nat /\ Len(s) \in Nat
  BY LenProperties
<1>2. 0 \in Nat /\ 0 + Len(t) <= Len(s) /\ \A j \in 1..Len(t) : t[j] = s[0 + j]
  <2>1. \A j \in 1..Len(t) : 0 + j = j
    BY <1>1
  <2>2. QED
    BY <1>1, <2>1
<1>3. \A i \in 0..Len(t) : upTo(s)[0 + i] = Plus(upTo(s)[0], upTo(t)[i])
  BY <1>2, PartAddsUp
<1>4. ASSUME NEW i \in 0..Len(t) PROVE upTo(s)[i] = upTo(t)[i]
  <2>1. 0 + i = i
    BY <1>1
  <2>2. PICK y \in Frac : y = upTo(t)[i]
    BY UpToIs
  <2>3. upTo(s)[i] = Plus(Zero, y)
    BY <1>3, <2>1, <2>2, UpToIs
  <2>4. Plus(Zero, y) = y
    BY Sums
  <2>5. QED
    BY <2>2, <2>3, <2>4
<1>5. QED
  BY <1>4

\* Of what is the same multiple, the sums are.
LEMMA MultiplesAddUp ==
    ASSUME NEW s \in Seq(Frac), NEW t \in Seq(Frac), Len(t) = Len(s), NEW c \in Frac,
           \A j \in 1..Len(s) : t[j] = Times(s[j], c)
    PROVE  \A i \in 0..Len(s) : upTo(t)[i] = Times(upTo(s)[i], c)
<1>0. PICK n \in Nat : n = Len(s) /\ n = Len(t)
  BY LenProperties
<1>1. PICK u, v : u = upTo(s) /\ v = upTo(t)
  OBVIOUS
<1>2. /\ u \in [0..n -> Frac] /\ u[0] = Zero /\ \A i \in 1..n : u[i] = Plus(u[i - 1], s[i])
      /\ v \in [0..n -> Frac] /\ v[0] = Zero /\ \A i \in 1..n : v[i] = Plus(v[i - 1], t[i])
  BY <1>0, <1>1, UpToIs
<1>3. s \in [1..n -> Frac] /\ t \in [1..n -> Frac]
  BY <1>0, LenProperties
<1> DEFINE P == {i \in Nat : i <= n => v[i] = Times(u[i], c)}
<1>4. 0 \in P
  BY <1>2, ProductsOf
<1>5. ASSUME NEW i \in P PROVE i + 1 \in P
  <2> SUFFICES ASSUME i + 1 <= n PROVE v[i + 1] = Times(u[i + 1], c)
    OBVIOUS
  <2>1. i \in Nat /\ i \in 0..n /\ i + 1 \in 1..n /\ (i + 1) - 1 = i
    BY <1>0
  <2>2. v[i] = Times(u[i], c)
    BY <2>1
  <2>3. PICK e \in Frac, x \in Frac : e = s[i + 1] /\ x = u[i]
    BY <1>2, <1>3, <2>1
  <2>4. u[i + 1] = Plus(x, e) /\ v[i + 1] = Plus(Times(x, c), Times(e, c))
    BY <1>0, <1>2, <2>1, <2>2, <2>3
  <2>5. Times(Plus(x, e), c) = Plus(Times(x, c), Times(e, c))
    BY ProductsOfThree
  <2>6. QED
    BY <2>4, <2>5
<1>6. P = Nat
  <2> HIDE DEF P
  <2>1. P \in SUBSET Nat
    BY DEF P
  <2>2. QED
    BY <1>4, <1>5, <2>1, NumberInduction
<1>7. \A i \in 0..n : v[i] = Times(u[i], c)
  BY <1>6
<1>8. QED
  BY <1>0, <1>1, <1>7

\* Quotients by the same divisor add up to the quotient of the sum.
LEMMA QuotientsAddUp ==
    ASSUME NEW s \in Seq(Frac), NEW t \in Seq(Frac), Len(t) = Len(s), NEW c \in Frac, c # Zero,
           \A j \in 1..Len(s) : t[j] = Over(s[j], c)
    PROVE  \A i \in 0..Len(s) : upTo(t)[i] = Over(upTo(s)[i], c)
<1>0. PICK n \in Nat : n = Len(s) /\ n = Len(t) /\ s \in [1..n -> Frac] /\ t \in [1..n -> Frac]
  BY LenProperties
<1>1. ASSUME NEW j \in 1..Len(t) PROVE s[j] = Times(t[j], c)
  <2>1. PICK e \in Frac : e = s[j] /\ t[j] = Over(e, c)
    BY <1>0
  <2>2. Times(Over(e, c), c) = e
    BY ProductsOf
  <2>3. QED
    BY <2>1, <2>2
<1>2. \A i \in 0..Len(t) : upTo(s)[i] = Times(upTo(t)[i], c)
  BY <1>1, MultiplesAddUp
<1>3. ASSUME NEW i \in 0..Len(s) PROVE upTo(t)[i] = Over(upTo(s)[i], c)
  <2>1. PICK y \in Frac : y = upTo(t)[i] /\ upTo(s)[i] = Times(y, c)
    BY <1>2, UpToIs
  <2>2. Over(Times(y, c), c) = y
    BY ProductsOf
  <2>3. QED
    BY <2>1, <2>2
<1>4. QED
  BY <1>3

\* A longer part adds up to no less.
LEMMA SumsGrow ==
    ASSUME NEW s \in Seq(Frac)
    PROVE  \A i, j \in 0..Len(s) : i <= j => Leq(upTo(s)[i], upTo(s)[j])
<1>0. PICK n \in Nat : n = Len(s) /\ s \in [1..n -> Frac]
  BY LenProperties
<1>1. PICK u : u = upTo(s)
  OBVIOUS
<1>2. u \in [0..n -> Frac] /\ u[0] = Zero /\ \A i \in 1..n : u[i] = Plus(u[i - 1], s[i])
  BY <1>0, <1>1, UpToIs
<1> SUFFICES ASSUME NEW i \in 0..n PROVE \A j \in 0..n : i <= j => Leq(u[i], u[j])
  BY <1>0, <1>1
<1> DEFINE P == {k \in Nat : i + k <= n => Leq(u[i], u[i + k])}
<1>3. 0 \in P
  <2>1. i + 0 = i /\ u[i] \in Frac
    BY <1>2
  <2>2. QED
    BY <2>1, Sums
<1>4. ASSUME NEW k \in P PROVE k + 1 \in P
  <2> SUFFICES ASSUME i + (k + 1) <= n PROVE Leq(u[i], u[i + (k + 1)])
    OBVIOUS
  <2>1. k \in Nat /\ i + k \in 0..n /\ i + (k + 1) \in 1..n /\ (i + (k + 1)) - 1 = i + k
    OBVIOUS
  <2>2. PICK x \in Frac, y \in Frac, e \in Frac : x = u[i] /\ y = u[i + k] /\ e = s[i + (k + 1)]
    BY <1>0, <1>2, <2>1
  <2>3. u[i + (k + 1)] = Plus(y, e) /\ Leq(x, y)
    BY <1>2, <2>1, <2>2
  <2>4. Plus(y, e) \in Frac /\ Leq(y, Plus(y, e))
    BY Sums
  <2>5. Leq(x, Plus(y, e))
    BY <2>3, <2>4, SumsOfThree
  <2>6. QED
    BY <2>2, <2>3, <2>5
<1>5. P = Nat
  <2> HIDE DEF P
  <2>1. P \in SUBSET Nat
    BY DEF P
  <2>2. QED
    BY <1>3, <1>4, <2>1, NumberInduction
<1>6. ASSUME NEW j \in 0..n, i <= j PROVE Leq(u[i], u[j])
  <2>1. PICK k \in Nat : j = i + k
    BY <1>6
  <2>2. k \in P
    BY <1>5
  <2>3. QED
    BY <2>1, <2>2
<1>7. QED
  BY <1>6

\* Nothing that is not 0 adds up to 0.
LEMMA SumIsPositive ==
    ASSUME NEW s \in Seq(Frac), Len(s) # 0, s[1] # Zero
    PROVE  Sum(s) # Zero
<1>0. PICK n \in Nat : n = Len(s) /\ n # 0 /\ s \in [1..n -> Frac]
  BY LenProperties
<1>1. 1 \in 1..n /\ 1 \in 0..n /\ n \in 0..n /\ 1 <= n /\ 1 - 1 = 0
  BY <1>0
<1>2. PICK e \in Frac, z \in Frac : e = s[1] /\ z = Sum(s)
  BY <1>0, <1>1, SumInFrac
<1>3. upTo(s)[1] = Plus(Zero, e)
  BY <1>0, <1>1, <1>2, UpToIs
<1>4. Plus(Zero, e) = e
  BY Sums
<1>5. Leq(e, z)
  BY <1>0, <1>1, <1>2, <1>3, <1>4, SumsGrow DEF Sum
<1>6. z = Zero => e = Zero
  BY <1>5, Sums
<1>7. QED
  BY <1>2, <1>6

-----------------------------------------------------------------------------
(***************************************************************************)
(* A row of tiles.                                                         *)
(***************************************************************************)

Item  == [id : Nat, area : Frac \ {Zero}]
Box   == [x : Frac, y : Frac, w : Frac, h : Frac]
Tile  == [id : Nat, x : Frac, y : Frac, w : Frac, h : Frac]

\* A row takes at least one item of the queue and at most all.
LEMMA RowLengthIs ==
    ASSUME NEW queue \in Seq(Item), queue # <<>>, NEW side
    PROVE  RowLength(queue, side) \in 1..Len(queue)
<1> DEFINE NoWorse(m) == Leq(worstRatio(areasOf(SubSeq(queue, 1, m)), side),
                             worstRatio(areasOf(SubSeq(queue, 1, m - 1)), side))
<1>0. PICK l \in Nat : l = Len(queue) /\ l >= 1
  BY EmptySeq, LenProperties
<1> DEFINE N == {n \in 1..l : \A m \in 2..n : NoWorse(m)}
<1>1. 1 \in N /\ N \in SUBSET (1..l)
  <2>1. 2..1 = {} /\ 1 \in 1..l
    BY <1>0
  <2>2. QED
    BY <2>1
<1> HIDE DEF NoWorse
<1>2. PICK n \in N : \A y \in N : y <= n
  <2> HIDE DEF N
  <2>1. Max(N) \in N /\ \A y \in N : y <= Max(N)
    BY <1>1, GreatestOfInterval
  <2>2. QED
    BY <2>1
<1>3. n \in 1..l /\ \A m \in 2..n : NoWorse(m)
  BY <1>2
<1>4. n < l => ~ NoWorse(n + 1)
  <2> SUFFICES ASSUME n < l, NoWorse(n + 1) PROVE FALSE
    OBVIOUS
  <2>1. n + 1 \in 1..l /\ \A m \in 2..(n + 1) : m \in 2..n \/ m = n + 1
    BY <1>3
  <2>2. n + 1 \in N
    BY <1>3, <2>1
  <2>3. QED
    BY <1>2, <1>3, <2>2
<1>5. \E k \in 1..l : (\A m \in 2..k : NoWorse(m)) /\ (k < l => ~ NoWorse(k + 1))
  BY <1>3, <1>4
<1>6. RowLength(queue, side) =
        CHOOSE k \in 1..l : (\A m \in 2..k : NoWorse(m)) /\ (k < l => ~ NoWorse(k + 1))
  BY <1>0 DEF RowLength, NoWorse
<1>7. QED
  BY <1>0, <1>5, <1>6

\* The areas of a list of items.
LEMMA AreasAre ==
    ASSUME NEW row \in Seq(Item)
    PROVE  /\ areasOf(row) \in Seq(Frac) /\ Len(areasOf(row)) = Len(row)
           /\ \A i \in 1..Len(row) : areasOf(row)[i] = row[i].area /\ row[i].area \in Frac \ {Zero}
<1>1. PICK n \in Nat : n = Len(row) /\ DOMAIN row = 1..n /\ row \in [1..n -> Item]
  BY LenProperties
<1>2. \A i \in 1..n : row[i].area \in Frac \ {Zero}
  BY <1>1 DEF Item
<1>3. areasOf(row) = [i \in 1..n |-> row[i].area]
  BY <1>1 DEF areasOf
<1>4. areasOf(row) \in Seq(Frac) /\ Len(areasOf(row)) = n
  BY <1>2, <1>3
<1>5. QED
  BY <1>1, <1>2, <1>3, <1>4

\* A list cut in two.
LEMMA PartsOf ==
    ASSUME NEW A, NEW queue \in Seq(A), NEW n \in 1..Len(queue)
    PROVE  /\ SubSeq(queue, 1, n) \in Seq(A) /\ Len(SubSeq(queue, 1, n)) = n
           /\ \A i \in 1..n : SubSeq(queue, 1, n)[i] = queue[i]
           /\ SubSeq(queue, n + 1, Len(queue)) \in Seq(A)
           /\ Len(SubSeq(queue, n + 1, Len(queue))) = Len(queue) - n
           /\ \A i \in 1..(Len(queue) - n) :
                SubSeq(queue, n + 1, Len(queue))[i] = queue[n + i]
<1>1. PICK l \in Nat : l = Len(queue) /\ queue \in [1..l -> A]
  BY LenProperties
<1>2. n \in Nat /\ n >= 1 /\ n <= l /\ 1 \in Int /\ n \in Int /\ n + 1 \in Int /\ l \in Int
  BY <1>1
<1>3. \A i \in 1..n : queue[i] \in A
  BY <1>1, <1>2
<1>4. \A i \in (n + 1)..l : queue[i] \in A
  BY <1>1, <1>2
<1>5. /\ SubSeq(queue, 1, n) \in Seq(A)
      /\ Len(SubSeq(queue, 1, n)) = IF 1 <= n THEN n - 1 + 1 ELSE 0
      /\ \A i \in 1..(n - 1 + 1) : SubSeq(queue, 1, n)[i] = queue[1 + i - 1]
  BY <1>2, <1>3, SubSeqProperties
<1>6. PICK m \in Int : m = n + 1
  BY <1>2
<1>7. /\ SubSeq(queue, m, l) \in Seq(A)
      /\ Len(SubSeq(queue, m, l)) = IF m <= l THEN l - m + 1 ELSE 0
      /\ \A i \in 1..(l - m + 1) : SubSeq(queue, m, l)[i] = queue[m + i - 1]
  BY <1>2, <1>4, <1>6, SubSeqProperties
<1>8. Len(SubSeq(queue, m, l)) = l - n
  BY <1>2, <1>6, <1>7
<1>9. ASSUME NEW i \in 1..(l - n) PROVE SubSeq(queue, m, l)[i] = queue[n + i]
  <2>1. i \in 1..(l - m + 1) /\ m + i - 1 = n + i
    BY <1>2, <1>6
  <2>2. QED
    BY <1>7, <2>1
<1>10. ASSUME NEW i \in 1..n PROVE SubSeq(queue, 1, n)[i] = queue[i]
  <2>1. i \in 1..(n - 1 + 1) /\ 1 + i - 1 = i
    BY <1>2
  <2>2. QED
    BY <1>5, <2>1
<1>11. Len(SubSeq(queue, 1, n)) = n
  BY <1>2, <1>5
<1>12. QED
  BY <1>1, <1>5, <1>6, <1>7, <1>8, <1>9, <1>10, <1>11

\* A row that is placed along v, the shorter side of what is left, at b: it
\* takes a strip from u, at a.
Strip(row, rowRest, a, u, b, v) ==
    LET along == Over(Sum(areasOf(row)), v)
        lengths == [i \in DOMAIN row |-> Over(row[i].area, along)]
        off(i) == upTo(lengths)[i - 1]
    IN  /\ along \in Frac /\ Minus(u, along) \in Frac
        /\ Plus(a, along) \in Frac /\ Leq(a, Plus(a, along))
        /\ Leq(Plus(a, along), Plus(a, u))
        /\ Plus(Plus(a, along), Minus(u, along)) = Plus(a, u)
        /\ Sum(areasOf(rowRest)) = Times(Minus(u, along), v)
        /\ \A i \in 1..Len(row) :
             /\ lengths[i] \in Frac /\ Plus(b, off(i)) \in Frac /\ Leq(b, Plus(b, off(i)))
             /\ Leq(Plus(Plus(b, off(i)), lengths[i]), Plus(b, v))
             /\ Times(lengths[i], along) = row[i].area /\ Times(along, lengths[i]) = row[i].area
             /\ \A j \in 1..Len(row) :
                  i < j => Leq(Plus(Plus(b, off(i)), lengths[i]), Plus(b, off(j)))

\* The first of the queue fill a strip of what is left, and the others need
\* the rest of it (squarify, one turn of its loop).
LEMMA StripIs ==
    ASSUME NEW queue \in Seq(Item), NEW n \in 1..Len(queue), NEW row, NEW rowRest,
           row = SubSeq(queue, 1, n), rowRest = SubSeq(queue, n + 1, Len(queue)),
           NEW a \in Frac, NEW u \in Frac, NEW b \in Frac, NEW v \in Frac,
           Sum(areasOf(queue)) = Times(u, v)
    PROVE  Strip(row, rowRest, a, u, b, v)
<1>1. PICK l \in Nat : l = Len(queue) /\ n \in 1..l /\ n \in Nat /\ n >= 1 /\ l - n \in Nat
  BY LenProperties
<1>2. /\ row \in Seq(Item) /\ Len(row) = n /\ \A i \in 1..n : row[i] = queue[i]
      /\ rowRest \in Seq(Item) /\ Len(rowRest) = l - n
      /\ \A i \in 1..(l - n) : rowRest[i] = queue[n + i]
  BY <1>1, PartsOf
<1>3. PICK qs \in Seq(Frac), rs \in Seq(Frac), ts \in Seq(Frac) :
         qs = areasOf(queue) /\ rs = areasOf(row) /\ ts = areasOf(rowRest)
  BY <1>2, AreasAre
<1>4. /\ Len(qs) = l /\ Len(rs) = n /\ Len(ts) = l - n
      /\ \A i \in 1..l : qs[i] = queue[i].area
      /\ \A i \in 1..n : rs[i] = row[i].area /\ rs[i] \in Frac \ {Zero}
      /\ \A i \in 1..(l - n) : ts[i] = rowRest[i].area
  BY <1>1, <1>2, <1>3, AreasAre
<1>5. PICK A \in Frac, B \in Frac : A = Sum(rs) /\ B = Sum(ts)
  BY SumInFrac
<1>6. Plus(A, B) = Times(u, v)
  <2>1. upTo(qs)[n] = upTo(rs)[n]
    <3>1. ASSUME NEW j \in 1..Len(rs) PROVE rs[j] = qs[j]
      <4>1. j \in 1..n /\ j \in 1..l
        BY <1>1, <1>4
      <4>2. row[j] = queue[j]
        BY <1>2, <4>1
      <4>3. rs[j] = row[j].area /\ qs[j] = queue[j].area
        BY <1>4, <4>1
      <4>4. QED
        BY <4>2, <4>3
    <3>2. Len(rs) <= Len(qs) /\ n \in 0..Len(rs)
      BY <1>1, <1>4
    <3>3. QED
      BY <3>1, <3>2, PrefixAddsUp
  <2>2. upTo(qs)[n + (l - n)] = Plus(upTo(qs)[n], upTo(ts)[l - n])
    <3>1. ASSUME NEW j \in 1..Len(ts) PROVE ts[j] = qs[n + j]
      <4>1. j \in 1..(l - n) /\ n + j \in 1..l
        BY <1>1, <1>4
      <4>2. PICK k \in 1..l : k = n + j
        BY <4>1
      <4>3. rowRest[j] = queue[k]
        BY <1>2, <4>1, <4>2
      <4>4. ts[j] = rowRest[j].area /\ qs[k] = queue[k].area
        BY <1>4, <4>1
      <4>5. QED
        BY <4>2, <4>3, <4>4
    <3>2. n + Len(ts) <= Len(qs) /\ l - n \in 0..Len(ts)
      BY <1>1, <1>4
    <3>3. QED
      BY <1>1, <3>1, <3>2, PartAddsUp
  <2>3. n + (l - n) = l
    BY <1>1
  <2>4. QED
    BY <1>3, <1>4, <1>5, <2>1, <2>2, <2>3 DEF Sum
<1>7. A # Zero
  <2>1. rs[1] # Zero /\ Len(rs) # 0
    BY <1>1, <1>4
  <2>2. QED
    BY <1>5, <2>1, SumIsPositive
<1>8. u # Zero /\ v # Zero
  <2>1. Leq(A, Plus(A, B)) /\ Zero \in Frac
    BY Sums
  <2>2. Plus(A, B) # Zero
    BY <1>7, <2>1, Sums
  <2>3. Times(Zero, v) = Zero /\ Times(Zero, u) = Zero /\ Times(u, v) = Times(v, u)
    BY ProductsOf
  <2>4. QED
    BY <1>6, <2>2, <2>3
<1>9. PICK along \in Frac : along = Over(A, v) /\ along # Zero /\ Times(along, v) = A
  BY <1>7, <1>8, ProductsOf
<1>10. Leq(along, u)
  <2>1. Leq(Times(along, v), Times(u, v))
    BY <1>6, <1>9, Sums
  <2>2. QED
    BY <1>8, <2>1, ProductsOfThree
<1>11. PICK m \in Frac : m = Minus(u, along) /\ Plus(along, m) = u
  BY <1>10, Sums
<1>12. B = Times(m, v)
  <2>1. Times(u, v) = Plus(Times(along, v), Times(m, v))
    BY <1>10, <1>11, DifferencesAdd
  <2>2. Times(m, v) \in Frac
    BY ProductsOf
  <2>3. Plus(A, B) = Plus(A, Times(m, v))
    BY <1>6, <1>9, <2>1
  <2>4. QED
    BY <2>2, <2>3, SumsOfThree
<1>13. PICK c \in Frac : c = Plus(a, along) /\ Leq(a, c) /\ Plus(c, m) = Plus(a, u) /\ Leq(c, Plus(a, u))
  <2>1. Plus(a, along) \in Frac /\ Leq(a, Plus(a, along))
    BY Sums
  <2>2. Plus(Plus(a, along), m) = Plus(a, u)
    BY <1>10, <1>11, DifferencesAdd
  <2>3. Leq(Plus(a, along), Plus(a, u))
    BY <1>10, SumsOfThree
  <2>4. QED
    BY <2>1, <2>2, <2>3
<1>14. PICK ls : ls = [i \in DOMAIN row |-> Over(row[i].area, along)]
  OBVIOUS
<1>15. ls \in Seq(Frac) /\ Len(ls) = n /\ \A i \in 1..n : ls[i] = Over(rs[i], along)
  <2>1. DOMAIN row = 1..n
    BY <1>2, LenProperties
  <2>2. \A i \in 1..n : Over(row[i].area, along) \in Frac
    BY <1>4, <1>9, ProductsOf
  <2>3. QED
    BY <1>1, <1>4, <1>14, <2>1, <2>2
<1>16. /\ upTo(ls) \in [0..n -> Frac]
       /\ \A i \in 1..n : upTo(ls)[i] = Plus(upTo(ls)[i - 1], ls[i])
  BY <1>15, UpToIs
<1>17. upTo(ls)[n] = v
  <2>1. \A i \in 0..Len(rs) : upTo(ls)[i] = Over(upTo(rs)[i], along)
    <3>1. Len(ls) = Len(rs) /\ \A j \in 1..Len(rs) : ls[j] = Over(rs[j], along)
      BY <1>4, <1>15
    <3>2. QED
      BY <1>9, <1>15, <3>1, QuotientsAddUp
  <2>2. n \in 0..Len(rs) /\ upTo(rs)[n] = A
    BY <1>1, <1>4, <1>5 DEF Sum
  <2>3. Over(A, along) = v
    <3>1. Times(v, along) = A
      BY <1>9, ProductsOf
    <3>2. QED
      BY <1>9, <3>1, ProductsOf
  <2>4. QED
    BY <2>1, <2>2, <2>3
<1>18. \A i, j \in 0..n : i <= j => Leq(upTo(ls)[i], upTo(ls)[j])
  BY <1>15, SumsGrow
<1>19. ASSUME NEW i \in 1..n
       PROVE  /\ ls[i] \in Frac /\ Plus(b, upTo(ls)[i - 1]) \in Frac /\ Leq(b, Plus(b, upTo(ls)[i - 1]))
              /\ Leq(Plus(Plus(b, upTo(ls)[i - 1]), ls[i]), Plus(b, v))
              /\ Times(ls[i], along) = row[i].area /\ Times(along, ls[i]) = row[i].area
              /\ \A j \in 1..n :
                    i < j => Leq(Plus(Plus(b, upTo(ls)[i - 1]), ls[i]), Plus(b, upTo(ls)[j - 1]))
  <2>1. i - 1 \in 0..n /\ i \in 0..n /\ n \in 0..n /\ i <= n
    BY <1>1
  <2>2. PICK e \in Frac, x \in Frac, y \in Frac : e = ls[i] /\ x = upTo(ls)[i - 1] /\ y = upTo(ls)[i]
    BY <1>15, <1>16, <2>1, LenProperties
  <2>3. y = Plus(x, e)
    BY <1>16, <2>2
  <2>4. Plus(Plus(b, x), e) = Plus(b, y)
    BY <2>3, SumsOfThree
  <2>5. Plus(b, x) \in Frac /\ Leq(b, Plus(b, x))
    BY Sums
  <2>6. Leq(y, v)
    BY <1>17, <1>18, <2>1, <2>2
  <2>7. Leq(Plus(b, y), Plus(b, v))
    BY <2>6, SumsOfThree
  <2>8. Times(e, along) = row[i].area /\ Times(along, e) = row[i].area
    <3>1. PICK f \in Frac : f = row[i].area /\ f = rs[i]
      BY <1>4
    <3>2. e = Over(f, along)
      BY <1>15, <2>2, <3>1
    <3>3. Times(e, along) = f /\ Times(along, e) = f
      BY <1>9, <3>2, QuotientsAdd, ProductsOf
    <3>4. QED
      BY <3>1, <3>3
  <2>9. ASSUME NEW j \in 1..n, i < j PROVE Leq(Plus(b, y), Plus(b, upTo(ls)[j - 1]))
    <3>1. j - 1 \in 0..n /\ i <= j - 1
      BY <1>1, <2>9
    <3>2. PICK z \in Frac : z = upTo(ls)[j - 1]
      BY <1>16, <3>1
    <3>3. Leq(y, z)
      BY <1>18, <2>1, <2>2, <3>1, <3>2
    <3>4. Leq(Plus(b, y), Plus(b, z))
      BY <3>3, SumsOfThree
    <3>5. QED
      BY <3>2, <3>4
  <2>10. QED
    BY <2>2, <2>4, <2>5, <2>7, <2>8, <2>9
<1>20. QED
  <2>1. ls = [i \in DOMAIN row |-> Over(row[i].area, Over(Sum(areasOf(row)), v))]
    BY <1>3, <1>5, <1>9, <1>14
  <2>2. along = Over(Sum(areasOf(row)), v) /\ B = Sum(areasOf(rowRest)) /\ Len(row) = n
    BY <1>2, <1>3, <1>5, <1>9
  <2>3. QED
    BY <1>11, <1>12, <1>13, <1>19, <2>1, <2>2 DEF Strip

-----------------------------------------------------------------------------
(***************************************************************************)
(* The tiles of a row, and the corner they leave.                          *)
(***************************************************************************)

\* What is left of the rectangle is a corner of it.
Corner(left, rect) ==
    /\ Leq(rect.x, left.x) /\ Plus(left.x, left.w) = Plus(rect.x, rect.w)
    /\ Leq(rect.y, left.y) /\ Plus(left.y, left.h) = Plus(rect.y, rect.h)

\* A tile shows an item, within the rectangle, and leaves the corner free.
Shows(t, item, rect, left) ==
    /\ t.id = item.id /\ Times(t.w, t.h) = item.area
    /\ Within(t, rect)
    /\ Leq(Plus(t.x, t.w), left.x) \/ Leq(Plus(t.y, t.h), left.y)

\* A row of tiles, placed in the corner r, leaves the corner `left` for the others.
Placed(ts, row, rowRest, r, left, rect) ==
    /\ left \in Box /\ Corner(left, rect) /\ Leq(r.x, left.x) /\ Leq(r.y, left.y)
    /\ Sum(areasOf(rowRest)) = Times(left.w, left.h)
    /\ ts \in Seq(Tile) /\ Len(ts) = Len(row)
    /\ \A i \in 1..Len(row) :
         /\ Shows(ts[i], row[i], rect, left)
         /\ Leq(r.x, ts[i].x) /\ Leq(r.y, ts[i].y)
         /\ \A j \in 1..Len(row) : i < j => Apart(ts[i], ts[j])

DownList(n, id, x, y, w, h) == [i \in 1..n |-> [id |-> id[i], x |-> x, y |-> y[i], w |-> w, h |-> h[i]]]

\* A list of tiles one below the other has the fields it was made of.
LEMMA DownTiles ==
    ASSUME NEW n \in Nat, NEW id, NEW x, NEW y, NEW w, NEW h,
           \A i \in 1..n : id[i] \in Nat /\ y[i] \in Frac /\ h[i] \in Frac,
           x \in Frac, w \in Frac,
           NEW ts, ts = DownList(n, id, x, y, w, h)
    PROVE  /\ ts \in Seq(Tile) /\ Len(ts) = n
           /\ \A i \in 1..n : /\ ts[i].id = id[i] /\ ts[i].x = x /\ ts[i].y = y[i]
                              /\ ts[i].w = w /\ ts[i].h = h[i]
<1>1. PICK T : T = Tile
  OBVIOUS
<1>2. \A i \in 1..n : ts[i] \in T
  BY <1>1 DEF Tile, DownList
<1>3. ts \in [1..n -> T]
  BY <1>2 DEF DownList
<1>4. ts \in Seq(T) /\ Len(ts) = n
  BY <1>3
<1>5. \A i \in 1..n : ts[i] = [id |-> id[i], x |-> x, y |-> y[i], w |-> w, h |-> h[i]]
  BY DEF DownList
<1>6. ASSUME NEW i \in 1..n
      PROVE  /\ ts[i].id = id[i] /\ ts[i].x = x /\ ts[i].y = y[i]
                              /\ ts[i].w = w /\ ts[i].h = h[i]
  <2>1. PICK t, a, b, c : t = ts[i] /\ a = id[i] /\ b = y[i] /\ c = h[i]
    OBVIOUS
  <2>2. t = [id |-> a, x |-> x, y |-> b, w |-> w, h |-> c]
    BY <1>5, <2>1
  <2>3. t.id = a /\ t.x = x /\ t.y = b /\ t.w = w /\ t.h = c
    BY <2>2
  <2>4. QED
    BY <2>1, <2>3
<1>7. QED
  BY <1>1, <1>4, <1>6

AcrossList(n, id, x, y, w, h) == [i \in 1..n |-> [id |-> id[i], x |-> x[i], y |-> y, w |-> w[i], h |-> h]]

\* The same of tiles side by side.
LEMMA AcrossTiles ==
    ASSUME NEW n \in Nat, NEW id, NEW x, NEW y, NEW w, NEW h,
           \A i \in 1..n : id[i] \in Nat /\ x[i] \in Frac /\ w[i] \in Frac,
           y \in Frac, h \in Frac,
           NEW ts, ts = AcrossList(n, id, x, y, w, h)
    PROVE  /\ ts \in Seq(Tile) /\ Len(ts) = n
           /\ \A i \in 1..n : /\ ts[i].id = id[i] /\ ts[i].x = x[i] /\ ts[i].y = y
                              /\ ts[i].w = w[i] /\ ts[i].h = h
<1>1. PICK T : T = Tile
  OBVIOUS
<1>2. \A i \in 1..n : ts[i] \in T
  BY <1>1 DEF Tile, AcrossList
<1>3. ts \in [1..n -> T]
  BY <1>2 DEF AcrossList
<1>4. ts \in Seq(T) /\ Len(ts) = n
  BY <1>3
<1>5. \A i \in 1..n : ts[i] = [id |-> id[i], x |-> x[i], y |-> y, w |-> w[i], h |-> h]
  BY DEF AcrossList
<1>6. ASSUME NEW i \in 1..n
      PROVE  /\ ts[i].id = id[i] /\ ts[i].x = x[i] /\ ts[i].y = y
                              /\ ts[i].w = w[i] /\ ts[i].h = h
  <2>1. PICK t, a, b, c : t = ts[i] /\ a = id[i] /\ b = x[i] /\ c = w[i]
    OBVIOUS
  <2>2. t = [id |-> a, x |-> b, y |-> y, w |-> c, h |-> h]
    BY <1>5, <2>1
  <2>3. t.id = a /\ t.x = b /\ t.y = y /\ t.w = c /\ t.h = h
    BY <2>2
  <2>4. QED
    BY <2>1, <2>3
<1>7. QED
  BY <1>1, <1>4, <1>6

\* A row down the left edge of r.
DownRow(rect, r, row, rowRest, along, ts, left) ==
    /\ Corner(r, rect) /\ Strip(row, rowRest, r.x, r.w, r.y, r.h)
    /\ along = Over(Sum(areasOf(row)), r.h)
    /\ ts = TilesOf(row, r, FALSE, along)
    /\ left = [r EXCEPT !.x = Plus(@, along), !.w = Minus(@, along)]

\* It is a row of tiles in that corner, and leaves a corner.
LEMMA DownPlaced ==
    ASSUME NEW rect \in Box, NEW r \in Box, NEW row \in Seq(Item), NEW rowRest,
           NEW along, NEW ts, NEW left, DownRow(rect, r, row, rowRest, along, ts, left)
    PROVE  Placed(ts, row, rowRest, r, left, rect)
<1>0. PICK n \in Nat : n = Len(row) /\ DOMAIN row = 1..n /\ row \in [1..n -> Item]
  BY LenProperties
<1>1. PICK ls : ls = [i \in DOMAIN row |-> Over(row[i].area, along)]
  OBVIOUS
<1>2. PICK at : at = [i \in 1..n |-> Plus(r.y, upTo(ls)[i - 1])]
  OBVIOUS
<1>3. /\ along \in Frac /\ Minus(r.w, along) \in Frac
      /\ Plus(r.x, along) \in Frac /\ Leq(r.x, Plus(r.x, along))
      /\ Leq(Plus(r.x, along), Plus(r.x, r.w))
      /\ Plus(Plus(r.x, along), Minus(r.w, along)) = Plus(r.x, r.w)
      /\ Sum(areasOf(rowRest)) = Times(Minus(r.w, along), r.h)
      /\ \A i \in 1..n :
           /\ ls[i] \in Frac /\ at[i] \in Frac /\ Leq(r.y, at[i])
           /\ Leq(Plus(at[i], ls[i]), Plus(r.y, r.h))
           /\ Times(along, ls[i]) = row[i].area
           /\ \A j \in 1..n : i < j => Leq(Plus(at[i], ls[i]), at[j])
  BY <1>0, <1>1, <1>2 DEF Strip, DownRow
<1>4. r.x \in Frac /\ r.y \in Frac /\ r.w \in Frac /\ r.h \in Frac
  BY DEF Box
<1>5. /\ left = [x |-> Plus(r.x, along), y |-> r.y, w |-> Minus(r.w, along), h |-> r.h]
      /\ left.x = Plus(r.x, along) /\ left.y = r.y /\ left.w = Minus(r.w, along) /\ left.h = r.h
      /\ left \in Box
  BY <1>3, <1>4 DEF Box, DownRow
<1>6. /\ Leq(rect.x, r.x) /\ Plus(r.x, r.w) = Plus(rect.x, rect.w)
      /\ Leq(rect.y, r.y) /\ Plus(r.y, r.h) = Plus(rect.y, rect.h)
      /\ rect.x \in Frac /\ rect.y \in Frac
  BY DEF Corner, Box, DownRow
<1>7. Leq(r.x, r.x) /\ Leq(r.y, r.y) /\ Leq(Plus(r.x, along), Plus(r.x, along))
  BY <1>3, <1>4, Sums
<1>8. Leq(rect.x, Plus(r.x, along))
  BY <1>3, <1>4, <1>6, SumsOfThree
<1>9. Corner(left, rect)
  BY <1>3, <1>5, <1>6, <1>8 DEF Corner
<1>10. ts = [i \in 1..n |-> [id |-> row[i].id, x |-> r.x, y |-> at[i], w |-> along, h |-> ls[i]]]
  BY <1>0, <1>1, <1>2 DEF TilesOf, DownRow
<1>11. PICK id : id = [i \in 1..n |-> row[i].id]
  OBVIOUS
<1>12. \A i \in 1..n : id[i] = row[i].id /\ id[i] \in Nat
  BY <1>0, <1>11 DEF Item
<1>13. /\ ts \in Seq(Tile) /\ Len(ts) = n
       /\ \A i \in 1..n : /\ ts[i].id = id[i] /\ ts[i].x = r.x /\ ts[i].y = at[i]
                          /\ ts[i].w = along /\ ts[i].h = ls[i]
  <2>1. PICK z \in Frac : z = r.x
    BY <1>4
  <2>2. ts = DownList(n, id, z, at, along, ls)
    BY <1>10, <1>11, <2>1 DEF DownList
  <2>3. \A i \in 1..n : id[i] \in Nat /\ at[i] \in Frac /\ ls[i] \in Frac
    BY <1>3, <1>12
  <2>4. along \in Frac
    BY <1>3
  <2>5. /\ ts \in Seq(Tile) /\ Len(ts) = n
         /\ \A i \in 1..n : /\ ts[i].id = id[i] /\ ts[i].x = z /\ ts[i].y = at[i]
                            /\ ts[i].w = along /\ ts[i].h = ls[i]
    BY <2>2, <2>3, <2>4, DownTiles
  <2>6. QED
    BY <2>1, <2>5
<1>14. ASSUME NEW i \in 1..n
       PROVE  /\ ts[i].id = row[i].id /\ ts[i].x = r.x /\ ts[i].y = at[i]
              /\ ts[i].w = along /\ ts[i].h = ls[i]
  BY <1>12, <1>13
<1>15. ASSUME NEW i \in 1..n
       PROVE  /\ Shows(ts[i], row[i], rect, left)
              /\ Leq(r.x, ts[i].x) /\ Leq(r.y, ts[i].y)
              /\ \A j \in 1..n : i < j => Apart(ts[i], ts[j])
  <2>1. Leq(rect.y, at[i])
    <3>1. PICK z \in Frac : z = at[i] /\ Leq(r.y, z)
      BY <1>3
    <3>2. QED
      BY <1>4, <1>6, <3>1, SumsOfThree
  <2>2. Within(ts[i], rect)
    BY <1>3, <1>6, <1>14, <2>1 DEF Within
  <2>3. Shows(ts[i], row[i], rect, left)
    BY <1>3, <1>5, <1>7, <1>14, <2>2 DEF Shows
  <2>4. ASSUME NEW j \in 1..n, i < j PROVE Apart(ts[i], ts[j])
    <3>1. Leq(Plus(ts[i].y, ts[i].h), ts[j].y)
      BY <1>3, <1>14, <2>4
    <3>2. QED
      BY <3>1 DEF Apart
  <2>5. QED
    BY <1>3, <1>7, <1>14, <2>3, <2>4
<1>16. QED
  BY <1>0, <1>3, <1>5, <1>7, <1>9, <1>13, <1>15 DEF Placed

\* A row across the top edge of r.
AcrossRow(rect, r, row, rowRest, along, ts, left) ==
    /\ Corner(r, rect) /\ Strip(row, rowRest, r.y, r.h, r.x, r.w)
    /\ along = Over(Sum(areasOf(row)), r.w)
    /\ ts = TilesOf(row, r, TRUE, along)
    /\ left = [r EXCEPT !.y = Plus(@, along), !.h = Minus(@, along)]

\* It is a row of tiles in that corner, and leaves a corner.
LEMMA AcrossPlaced ==
    ASSUME NEW rect \in Box, NEW r \in Box, NEW row \in Seq(Item), NEW rowRest,
           NEW along, NEW ts, NEW left, AcrossRow(rect, r, row, rowRest, along, ts, left)
    PROVE  Placed(ts, row, rowRest, r, left, rect)
<1>0. PICK n \in Nat : n = Len(row) /\ DOMAIN row = 1..n /\ row \in [1..n -> Item]
  BY LenProperties
<1>1. PICK ls : ls = [i \in DOMAIN row |-> Over(row[i].area, along)]
  OBVIOUS
<1>2. PICK at : at = [i \in 1..n |-> Plus(r.x, upTo(ls)[i - 1])]
  OBVIOUS
<1>3. /\ along \in Frac /\ Minus(r.h, along) \in Frac
      /\ Plus(r.y, along) \in Frac /\ Leq(r.y, Plus(r.y, along))
      /\ Leq(Plus(r.y, along), Plus(r.y, r.h))
      /\ Plus(Plus(r.y, along), Minus(r.h, along)) = Plus(r.y, r.h)
      /\ Sum(areasOf(rowRest)) = Times(Minus(r.h, along), r.w)
      /\ \A i \in 1..n :
           /\ ls[i] \in Frac /\ at[i] \in Frac /\ Leq(r.x, at[i])
           /\ Leq(Plus(at[i], ls[i]), Plus(r.x, r.w))
           /\ Times(ls[i], along) = row[i].area
           /\ \A j \in 1..n : i < j => Leq(Plus(at[i], ls[i]), at[j])
  BY <1>0, <1>1, <1>2 DEF Strip, AcrossRow
<1>4. r.x \in Frac /\ r.y \in Frac /\ r.w \in Frac /\ r.h \in Frac
  BY DEF Box
<1>5. /\ left = [x |-> r.x, y |-> Plus(r.y, along), w |-> r.w, h |-> Minus(r.h, along)]
      /\ left.x = r.x /\ left.y = Plus(r.y, along) /\ left.w = r.w /\ left.h = Minus(r.h, along)
      /\ left \in Box
  BY <1>3, <1>4 DEF Box, AcrossRow
<1>6. /\ Leq(rect.x, r.x) /\ Plus(r.x, r.w) = Plus(rect.x, rect.w)
      /\ Leq(rect.y, r.y) /\ Plus(r.y, r.h) = Plus(rect.y, rect.h)
      /\ rect.x \in Frac /\ rect.y \in Frac
  BY DEF Corner, Box, AcrossRow
<1>7. Leq(r.x, r.x) /\ Leq(r.y, r.y) /\ Leq(Plus(r.y, along), Plus(r.y, along))
  BY <1>3, <1>4, Sums
<1>8. Leq(rect.y, Plus(r.y, along))
  BY <1>3, <1>4, <1>6, SumsOfThree
<1>9. Corner(left, rect)
  BY <1>3, <1>5, <1>6, <1>8 DEF Corner
<1>10. ts = [i \in 1..n |-> [id |-> row[i].id, x |-> at[i], y |-> r.y, w |-> ls[i], h |-> along]]
  BY <1>0, <1>1, <1>2 DEF TilesOf, AcrossRow
<1>11. PICK id : id = [i \in 1..n |-> row[i].id]
  OBVIOUS
<1>12. \A i \in 1..n : id[i] = row[i].id /\ id[i] \in Nat
  BY <1>0, <1>11 DEF Item
<1>13. /\ ts \in Seq(Tile) /\ Len(ts) = n
       /\ \A i \in 1..n : /\ ts[i].id = id[i] /\ ts[i].x = at[i] /\ ts[i].y = r.y
                          /\ ts[i].w = ls[i] /\ ts[i].h = along
  <2>1. PICK z \in Frac : z = r.y
    BY <1>4
  <2>2. ts = AcrossList(n, id, at, z, ls, along)
    BY <1>10, <1>11, <2>1 DEF AcrossList
  <2>3. \A i \in 1..n : id[i] \in Nat /\ at[i] \in Frac /\ ls[i] \in Frac
    BY <1>3, <1>12
  <2>4. along \in Frac
    BY <1>3
  <2>5. /\ ts \in Seq(Tile) /\ Len(ts) = n
         /\ \A i \in 1..n : /\ ts[i].id = id[i] /\ ts[i].x = at[i] /\ ts[i].y = z
                            /\ ts[i].w = ls[i] /\ ts[i].h = along
    BY <2>2, <2>3, <2>4, AcrossTiles
  <2>6. QED
    BY <2>1, <2>5
<1>14. ASSUME NEW i \in 1..n
       PROVE  /\ ts[i].id = row[i].id /\ ts[i].x = at[i] /\ ts[i].y = r.y
              /\ ts[i].w = ls[i] /\ ts[i].h = along
  BY <1>12, <1>13
<1>15. ASSUME NEW i \in 1..n
       PROVE  /\ Shows(ts[i], row[i], rect, left)
              /\ Leq(r.x, ts[i].x) /\ Leq(r.y, ts[i].y)
              /\ \A j \in 1..n : i < j => Apart(ts[i], ts[j])
  <2>1. Leq(rect.x, at[i])
    <3>1. PICK z \in Frac : z = at[i] /\ Leq(r.x, z)
      BY <1>3
    <3>2. QED
      BY <1>4, <1>6, <3>1, SumsOfThree
  <2>2. Within(ts[i], rect)
    BY <1>3, <1>6, <1>14, <2>1 DEF Within
  <2>3. Shows(ts[i], row[i], rect, left)
    BY <1>3, <1>5, <1>7, <1>14, <2>2 DEF Shows
  <2>4. ASSUME NEW j \in 1..n, i < j PROVE Apart(ts[i], ts[j])
    <3>1. Leq(Plus(ts[i].x, ts[i].w), ts[j].x)
      BY <1>3, <1>14, <2>4
    <3>2. QED
      BY <3>1 DEF Apart
  <2>5. QED
    BY <1>3, <1>7, <1>14, <2>3, <2>4
<1>16. Times(left.w, left.h) = Times(left.h, left.w)
  BY <1>3, <1>4, <1>5, ProductsOf
<1>17. QED
  BY <1>0, <1>3, <1>5, <1>7, <1>9, <1>13, <1>15, <1>16 DEF Placed

-----------------------------------------------------------------------------
(***************************************************************************)
(* Rows one after another.                                                 *)
(***************************************************************************)

Stage == [queue : Seq(Item), tiles : Seq(Tile), left : Box]

\* Rows have been placed for the first of the items, and the corner that is left
\* is what the others need.
Layout(s, items, rect) ==
    /\ Len(items) = Len(s.tiles) + Len(s.queue)
    /\ \A j \in 1..Len(s.queue) : s.queue[j] = items[Len(s.tiles) + j]
    /\ Corner(s.left, rect)
    /\ Sum(areasOf(s.queue)) = Times(s.left.w, s.left.h)
    /\ \A i \in 1..Len(s.tiles) :
         /\ Shows(s.tiles[i], items[i], rect, s.left)
         /\ \A j \in 1..Len(s.tiles) : i < j => Apart(s.tiles[i], s.tiles[j])

\* A turn of the loop places a row of the first of the queue.
Turn(s, t, n, ts, row, rowRest, left) ==
    /\ row = SubSeq(s.queue, 1, n) /\ rowRest = SubSeq(s.queue, n + 1, Len(s.queue))
    /\ t = [queue |-> rowRest, tiles |-> s.tiles \o ts, left |-> left]

\* Whichever side is the shorter, a turn places a row in the corner that is left.
LEMMA TurnIs ==
    ASSUME NEW s \in Stage, NEW rect \in Box, Corner(s.left, rect), s.queue # <<>>,
           Sum(areasOf(s.queue)) = Times(s.left.w, s.left.h)
    PROVE  \E n \in 1..Len(s.queue) : \E ts, row, rowRest, left :
              /\ Turn(s, PlaceRow(s), n, ts, row, rowRest, left)
              /\ Placed(ts, row, rowRest, s.left, left, rect)
<1>1. PICK queue \in Seq(Item), r \in Box : queue = s.queue /\ r = s.left
  BY DEF Stage
<1>2. PICK x \in Frac, y \in Frac, w \in Frac, h \in Frac : x = r.x /\ y = r.y /\ w = r.w /\ h = r.h
  BY DEF Box
<1>3. Sum(areasOf(queue)) = Times(w, h) /\ Sum(areasOf(queue)) = Times(h, w)
  BY <1>1, <1>2, ProductsOf
<1>4. PICK side : side = Least(h, w)
  OBVIOUS
<1>5. PICK n \in 1..Len(queue) : n = RowLength(queue, side)
  BY <1>1, RowLengthIs
<1>6. PICK row, rowRest : row = SubSeq(queue, 1, n) /\ rowRest = SubSeq(queue, n + 1, Len(queue))
  OBVIOUS
<1>7. row \in Seq(Item)
  BY <1>6, PartsOf
<1>8. PICK along : along = Over(Sum(areasOf(row)), side)
  OBVIOUS
<1>9. CASE ~ Leq(h, w)
  <2>1. side = w
    BY <1>4, <1>9 DEF Least
  <2>2. Strip(row, rowRest, y, h, x, w)
    BY <1>3, <1>6, StripIs
  <2>3. PICK ts, left : /\ ts = TilesOf(row, r, TRUE, along)
                        /\ left = [r EXCEPT !.y = Plus(@, along), !.h = Minus(@, along)]
    OBVIOUS
  <2>4. AcrossRow(rect, r, row, rowRest, along, ts, left)
    BY <1>1, <1>2, <1>8, <2>1, <2>2, <2>3 DEF AcrossRow
  <2>5. Placed(ts, row, rowRest, r, left, rect)
    BY <1>7, <2>4, AcrossPlaced
  <2>6. PlaceRow(s) = [queue |-> rowRest, tiles |-> s.tiles \o ts, left |-> left]
    BY <1>1, <1>2, <1>4, <1>5, <1>6, <1>8, <1>9, <2>3 DEF PlaceRow
  <2>7. QED
    BY <1>1, <1>6, <2>5, <2>6 DEF Turn
<1>10. CASE Leq(h, w)
  <2>1. side = h
    BY <1>4, <1>10 DEF Least
  <2>2. Strip(row, rowRest, x, w, y, h)
    BY <1>3, <1>6, StripIs
  <2>3. PICK ts, left : /\ ts = TilesOf(row, r, FALSE, along)
                        /\ left = [r EXCEPT !.x = Plus(@, along), !.w = Minus(@, along)]
    OBVIOUS
  <2>4. DownRow(rect, r, row, rowRest, along, ts, left)
    BY <1>1, <1>2, <1>8, <2>1, <2>2, <2>3 DEF DownRow
  <2>5. Placed(ts, row, rowRest, r, left, rect)
    BY <1>7, <2>4, DownPlaced
  <2>6. PlaceRow(s) = [queue |-> rowRest, tiles |-> s.tiles \o ts, left |-> left]
    BY <1>1, <1>2, <1>4, <1>5, <1>6, <1>8, <1>10, <2>3 DEF PlaceRow
  <2>7. QED
    BY <1>1, <1>6, <2>5, <2>6 DEF Turn
<1>11. QED
  BY <1>9, <1>10

\* An old tile stays clear of what is placed in a smaller corner.
LEMMA StaysClear ==
    ASSUME NEW t \in Tile, NEW item, NEW rect, NEW r \in Box, NEW left \in Box,
           Shows(t, item, rect, r), Leq(r.x, left.x), Leq(r.y, left.y)
    PROVE  /\ Shows(t, item, rect, left)
           /\ \A u \in Tile : Leq(r.x, u.x) /\ Leq(r.y, u.y) => Apart(t, u)
<1>1. PICK p \in Frac, q \in Frac : p = Plus(t.x, t.w) /\ q = Plus(t.y, t.h)
  <2>1. PICK a \in Frac, b \in Frac, c \in Frac, d \in Frac : a = t.x /\ b = t.y /\ c = t.w /\ d = t.h
    BY DEF Tile
  <2>2. Plus(a, c) \in Frac /\ Plus(b, d) \in Frac
    BY Sums
  <2>3. QED
    BY <2>1, <2>2
<1>2. PICK x \in Frac, y \in Frac, z \in Frac, w \in Frac : x = r.x /\ y = r.y /\ z = left.x /\ w = left.y
  BY DEF Box
<1>3. Leq(p, x) \/ Leq(q, y)
  BY <1>1, <1>2 DEF Shows
<1>4. Leq(p, z) \/ Leq(q, w)
  BY <1>2, <1>3, SumsOfThree
<1>5. Shows(t, item, rect, left)
  BY <1>1, <1>2, <1>4 DEF Shows
<1>6. ASSUME NEW u \in Tile, Leq(r.x, u.x), Leq(r.y, u.y) PROVE Apart(t, u)
  <2>1. PICK a \in Frac, b \in Frac : a = u.x /\ b = u.y
    BY DEF Tile
  <2>2. Leq(p, a) \/ Leq(q, b)
    BY <1>2, <1>3, <1>6, <2>1, SumsOfThree
  <2>3. QED
    BY <1>1, <2>1, <2>2 DEF Apart
<1>7. QED
  BY <1>5, <1>6

\* A turn keeps every tile apart from the others and shortens the queue.
LEMMA TurnKeepsLayout ==
    ASSUME NEW items \in Seq(Item), NEW rect \in Box, NEW s \in Stage,
           Layout(s, items, rect), s.queue # <<>>
    PROVE  /\ PlaceRow(s) \in Stage /\ Layout(PlaceRow(s), items, rect)
           /\ Len(PlaceRow(s).queue) < Len(s.queue)
<1>1. Corner(s.left, rect) /\ Sum(areasOf(s.queue)) = Times(s.left.w, s.left.h)
  BY DEF Layout
<1> DEFINE t == PlaceRow(s)
<1>a. PICK n \in 1..Len(s.queue) : \E ts, row, rowRest, left :
         Turn(s, t, n, ts, row, rowRest, left) /\ Placed(ts, row, rowRest, s.left, left, rect)
  BY <1>1, TurnIs
<1> HIDE DEF t
<1>2. PICK ts, row, rowRest, left :
         Turn(s, t, n, ts, row, rowRest, left) /\ Placed(ts, row, rowRest, s.left, left, rect)
  BY <1>a
<1>3. PICK queue \in Seq(Item), old \in Seq(Tile), r \in Box :
         queue = s.queue /\ old = s.tiles /\ r = s.left
  BY DEF Stage
<1>4. PICK l \in Nat, m \in Nat : l = Len(queue) /\ m = Len(old)
  BY LenProperties
<1>5. n \in 1..l /\ n \in Nat /\ l - n \in Nat /\ n >= 1
  BY <1>3, <1>4
<1>6. /\ row \in Seq(Item) /\ Len(row) = n /\ \A i \in 1..n : row[i] = queue[i]
      /\ rowRest \in Seq(Item) /\ Len(rowRest) = l - n
      /\ \A i \in 1..(l - n) : rowRest[i] = queue[n + i]
  <2>1. row = SubSeq(queue, 1, n) /\ rowRest = SubSeq(queue, n + 1, Len(queue))
    BY <1>2, <1>3 DEF Turn
  <2>2. QED
    BY <1>3, <1>4, <2>1, PartsOf
<1>7. /\ left \in Box /\ Corner(left, rect) /\ Leq(r.x, left.x) /\ Leq(r.y, left.y)
      /\ Sum(areasOf(rowRest)) = Times(left.w, left.h)
      /\ ts \in Seq(Tile) /\ Len(ts) = n
      /\ \A i \in 1..n : /\ Shows(ts[i], row[i], rect, left)
                         /\ Leq(r.x, ts[i].x) /\ Leq(r.y, ts[i].y)
                         /\ \A j \in 1..n : i < j => Apart(ts[i], ts[j])
  BY <1>2, <1>3, <1>6 DEF Placed
<1>8. PICK new \in Seq(Tile) : new = old \o ts
  BY <1>7, ConcatProperties
<1>9. /\ Len(new) = m + n
      /\ \A i \in 1..(m + n) : new[i] = IF i <= m THEN old[i] ELSE ts[i - m]
  BY <1>4, <1>7, <1>8, ConcatProperties
<1>10. t = [queue |-> rowRest, tiles |-> new, left |-> left]
  BY <1>2, <1>3, <1>8 DEF Turn
<1>11. t \in Stage /\ t.queue = rowRest /\ t.tiles = new /\ t.left = left
  BY <1>6, <1>7, <1>10 DEF Stage
<1>12. /\ Len(items) = m + l
       /\ \A j \in 1..l : queue[j] = items[m + j]
       /\ \A i \in 1..m : /\ Shows(old[i], items[i], rect, r)
                          /\ \A j \in 1..m : i < j => Apart(old[i], old[j])
  BY <1>3, <1>4 DEF Layout
<1>13. Len(items) = Len(new) + Len(rowRest)
  BY <1>5, <1>6, <1>9, <1>12
<1>14. ASSUME NEW j \in 1..Len(rowRest) PROVE rowRest[j] = items[Len(new) + j]
  <2>1. j \in 1..(l - n) /\ n + j \in 1..l /\ m + (n + j) = Len(new) + j
    BY <1>5, <1>6, <1>9
  <2>2. rowRest[j] = queue[n + j] /\ queue[n + j] = items[m + (n + j)]
    BY <1>6, <1>12, <2>1
  <2>3. QED
    BY <2>1, <2>2
<1>15. /\ \A i \in 1..m : old[i] \in Tile
       /\ \A i \in 1..n : ts[i] \in Tile
  BY <1>4, <1>7, LenProperties
<1>16. ASSUME NEW i \in 1..m
       PROVE  /\ new[i] = old[i] /\ Shows(old[i], items[i], rect, left)
              /\ \A j \in 1..n : Apart(old[i], ts[j])
  <2>1. i \in 1..(m + n) /\ i <= m
    BY <1>5
  <2>2. PICK e \in Tile : e = old[i]
    BY <1>15
  <2>a. PICK item : item = items[i]
    OBVIOUS
  <2>3. Shows(e, item, rect, r)
    BY <1>12, <2>2, <2>a
  <2>4. /\ Shows(e, item, rect, left)
        /\ \A u \in Tile : Leq(r.x, u.x) /\ Leq(r.y, u.y) => Apart(e, u)
    BY <1>7, <2>3, StaysClear
  <2>5. QED
    BY <1>7, <1>9, <1>15, <2>1, <2>2, <2>a, <2>4
<1>17. ASSUME NEW i \in (m + 1)..(m + n)
       PROVE  /\ i - m \in 1..n /\ new[i] = ts[i - m]
              /\ Shows(new[i], items[i], rect, left)
  <2>1. i - m \in 1..n /\ i \in 1..(m + n) /\ ~ i <= m
    BY <1>5
  <2>2. new[i] = ts[i - m]
    BY <1>9, <2>1
  <2>3. PICK j \in 1..n : j = i - m
    BY <2>1
  <2>4. j \in 1..l /\ m + j = i
    BY <1>5, <2>3
  <2>5. row[j] = queue[j] /\ queue[j] = items[i]
    BY <1>6, <1>12, <2>4
  <2>6. Shows(ts[j], items[i], rect, left)
    BY <1>7, <2>5
  <2>7. QED
    BY <2>1, <2>2, <2>3, <2>6
<1>18. ASSUME NEW i \in 1..Len(new)
       PROVE  /\ Shows(new[i], items[i], rect, left)
              /\ \A j \in 1..Len(new) : i < j => Apart(new[i], new[j])
  <2>1. CASE i \in 1..m
    <3>1. ASSUME NEW j \in 1..Len(new), i < j PROVE Apart(new[i], new[j])
      <4>1. CASE j \in 1..m
        BY <1>12, <1>16, <2>1, <3>1, <4>1
      <4>2. CASE j \in (m + 1)..(m + n)
        BY <1>16, <1>17, <2>1, <4>2
      <4>3. QED
        BY <1>5, <1>9, <4>1, <4>2
    <3>2. QED
      BY <1>16, <2>1, <3>1
  <2>2. CASE i \in (m + 1)..(m + n)
    <3>1. ASSUME NEW j \in 1..Len(new), i < j PROVE Apart(new[i], new[j])
      <4>1. j \in (m + 1)..(m + n) /\ i - m < j - m
        BY <1>5, <1>9, <2>2, <3>1
      <4>2. QED
        BY <1>7, <1>17, <2>2, <4>1
    <3>2. QED
      BY <1>17, <2>2, <3>1
  <2>3. QED
    BY <1>5, <1>9, <2>1, <2>2
<1>19. Layout(t, items, rect)
  BY <1>7, <1>11, <1>13, <1>14, <1>18 DEF Layout
<1>20. Len(t.queue) < Len(s.queue)
  BY <1>3, <1>4, <1>5, <1>6, <1>11
<1>21. QED
  BY <1>11, <1>19, <1>20 DEF t

Start(items, rect) == [queue |-> items, tiles |-> <<>>, left |-> rect]
Turned(s) ==
    IF s.queue = <<>> \/ Leq(s.left.w, Hairline) \/ Leq(s.left.h, Hairline) THEN s ELSE PlaceRow(s)
Layouts(items, rect) == {s \in Stage : Layout(s, items, rect)}

\* Before the first turn everything is queued and nothing is taken.
LEMMA StartIsLayout ==
    ASSUME NEW items \in Seq(Item), NEW rect \in Box, Sum(areasOf(items)) = Times(rect.w, rect.h)
    PROVE  Start(items, rect) \in Layouts(items, rect)
<1> DEFINE s == Start(items, rect)
<1>1. s.queue = items /\ s.tiles = <<>> /\ s.left = rect /\ s \in Stage
  BY DEF Start, Stage
<1>2. Len(s.tiles) = 0 /\ Len(items) \in Nat
  BY <1>1, LenProperties
<1>3. Corner(rect, rect)
  <2>1. rect.x \in Frac /\ rect.y \in Frac
    BY DEF Box
  <2>2. Leq(rect.x, rect.x) /\ Leq(rect.y, rect.y)
    BY <2>1, Sums
  <2>3. QED
    BY <2>2 DEF Corner
<1> HIDE DEF s
<1>4. Layout(s, items, rect)
  BY <1>1, <1>2, <1>3 DEF Layout
<1>5. QED
  BY <1>1, <1>4 DEF Layouts, s

\* No item is smaller than c, and a hairline along a side of the rectangle is.
Roomy(c, items, rect) ==
    /\ c \in Frac
    /\ \A i \in 1..Len(items) : Leq(c, items[i].area)
    /\ ~ Leq(c, Times(rect.w, Hairline)) /\ ~ Leq(c, Times(rect.h, Hairline))

\* A rectangle at least as large as c has no side that is a hairline, when the
\* other is no longer than v.
LEMMA NoHairline ==
    ASSUME NEW c \in Frac, NEW u \in Frac, NEW w \in Frac, NEW v \in Frac,
           Leq(c, Times(u, w)), w # Zero, Leq(w, v), ~ Leq(c, Times(v, Hairline))
    PROVE  ~ Leq(u, Hairline)
<1> SUFFICES ASSUME Leq(u, Hairline) PROVE FALSE
  OBVIOUS
<1>1. PICK h \in Frac : h = Hairline /\ h # Zero
  <2>1. 1 \in Nat /\ 100 \in Pos /\ 0 \in Nat
    BY DEF Pos
  <2>2. Q(1, 100) \in Frac /\ Q(0, 100) = Zero /\ (Q(1, 100) = Q(0, 100) <=> 1 = 0)
    BY <2>1, QInFrac, OverOne
  <2>3. QED
    BY <2>2 DEF Hairline
<1>2. Leq(Times(u, w), Times(h, w))
  BY <1>1, ProductsOfThree
<1>3. Times(h, w) = Times(w, h)
  BY ProductsOf
<1>4. Leq(Times(w, h), Times(v, h))
  BY <1>1, ProductsOfThree
<1>5. PICK x \in Frac, y \in Frac, z \in Frac : x = Times(u, w) /\ y = Times(w, h) /\ z = Times(v, h)
  BY ProductsOf
<1>6. Leq(c, x) /\ Leq(x, y) /\ Leq(y, z)
  BY <1>2, <1>3, <1>4, <1>5
<1>7. Leq(c, z)
  BY <1>6, SumsOfThree
<1>8. QED
  BY <1>1, <1>5, <1>7

\* What is left beyond a corner is no longer than the whole.
LEMMA LeftIsShorter ==
    ASSUME NEW a \in Frac, NEW u \in Frac, NEW b \in Frac, NEW v \in Frac,
           Leq(a, b), Plus(b, u) = Plus(a, v)
    PROVE  Leq(u, v)
<1>1. Leq(Plus(u, a), Plus(u, b))
  BY SumsOfThree
<1>2. Plus(u, a) = Plus(a, u) /\ Plus(u, b) = Plus(b, u)
  BY Sums
<1>3. Leq(Plus(a, u), Plus(a, v))
  BY <1>1, <1>2
<1>4. QED
  BY <1>3, SumsOfThree

\* As long as something is queued there is room for it.
LEMMA RoomIsLeft ==
    ASSUME NEW items \in Seq(Item), NEW rect \in Box, NEW s \in Stage,
           Layout(s, items, rect), s.queue # <<>>, NEW c, Roomy(c, items, rect)
    PROVE  ~ Leq(s.left.w, Hairline) /\ ~ Leq(s.left.h, Hairline)
<1>1. PICK queue \in Seq(Item), old \in Seq(Tile), r \in Box :
         queue = s.queue /\ old = s.tiles /\ r = s.left
  BY DEF Stage
<1>2. PICK l \in Nat, m \in Nat : l = Len(queue) /\ m = Len(old) /\ l # 0
  BY <1>1, EmptySeq, LenProperties
<1>3. PICK x \in Frac, y \in Frac, w \in Frac, h \in Frac : x = r.x /\ y = r.y /\ w = r.w /\ h = r.h
  BY DEF Box
<1>4. PICK X \in Frac, Y \in Frac, W \in Frac, H \in Frac :
         X = rect.x /\ Y = rect.y /\ W = rect.w /\ H = rect.h
  BY DEF Box
<1>5. Leq(w, W) /\ Leq(h, H)
  <2>1. Leq(X, x) /\ Plus(x, w) = Plus(X, W) /\ Leq(Y, y) /\ Plus(y, h) = Plus(Y, H)
    BY <1>1, <1>3, <1>4 DEF Layout, Corner
  <2>2. QED
    BY <2>1, LeftIsShorter
<1>6. PICK q \in Seq(Frac) : /\ q = areasOf(queue) /\ Len(q) = l
                             /\ q[1] = queue[1].area /\ q[1] \in Frac \ {Zero}
  <2>1. 1 \in 1..l
    BY <1>2
  <2>2. QED
    BY <1>2, <2>1, AreasAre
<1>7. Leq(c, q[1])
  <2>1. 1 \in 1..l /\ m + 1 \in 1..(m + l)
    BY <1>2
  <2>2. Len(items) = m + l /\ queue[1] = items[m + 1]
    BY <1>1, <1>2, <2>1 DEF Layout
  <2>3. QED
    BY <1>6, <2>1, <2>2 DEF Roomy
<1>8. PICK a \in Frac : a = q[1] /\ a # Zero
  BY <1>6
<1>9. PICK S \in Frac : S = Sum(q) /\ Leq(a, S)
  <2>1. 1 \in 0..Len(q) /\ Len(q) \in 0..Len(q) /\ 1 <= Len(q) /\ 1 \in 1..Len(q) /\ 1 - 1 = 0
    BY <1>2, <1>6
  <2>2. Leq(upTo(q)[1], upTo(q)[Len(q)])
    BY <2>1, SumsGrow
  <2>3. upTo(q)[1] = Plus(Zero, a)
    BY <1>8, <2>1, UpToIs
  <2>4. Zero \in Frac /\ Plus(a, Zero) = a
    BY Sums
  <2>5. Plus(Zero, a) = Plus(a, Zero)
    BY <2>4, Sums
  <2>6. QED
    BY <2>2, <2>3, <2>4, <2>5, SumInFrac DEF Sum
<1>10. S = Times(w, h) /\ S = Times(h, w) /\ c \in Frac
  <2>1. S = Times(w, h) /\ c \in Frac
    BY <1>1, <1>3, <1>6, <1>9 DEF Layout, Roomy
  <2>2. QED
    BY <2>1, ProductsOf
<1>11. Leq(c, S)
  BY <1>7, <1>8, <1>9, <1>10, SumsOfThree
<1>12. w # Zero /\ h # Zero
  <2>1. S # Zero
    <3>1. Leq(Zero, a) /\ Zero \in Frac
      BY Sums
    <3>2. S = Zero => a = Zero
      BY <1>9, <3>1, Sums
    <3>3. QED
      BY <1>8, <3>2
  <2>2. Times(Zero, h) = Zero /\ Times(Zero, w) = Zero
    BY ProductsOf
  <2>3. QED
    BY <1>10, <2>1, <2>2
<1>13. ~ Leq(c, Times(W, Hairline)) /\ ~ Leq(c, Times(H, Hairline))
  BY <1>4 DEF Roomy
<1>14. ~ Leq(w, Hairline)
  BY <1>5, <1>10, <1>11, <1>12, <1>13, NoHairline
<1>15. ~ Leq(h, Hairline)
  BY <1>5, <1>10, <1>11, <1>12, <1>13, NoHairline
<1>16. QED
  BY <1>1, <1>3, <1>14, <1>15

\* When nothing is queued every item has its tile, and after as many turns as
\* there are items nothing is queued.
LEMMA SquarifyIs ==
    ASSUME NEW items \in Seq(Item), NEW rect \in Box, Sum(areasOf(items)) = Times(rect.w, rect.h),
           NEW c, Roomy(c, items, rect)
    PROVE  \E s \in Layouts(items, rect) : s.queue = <<>> /\ squarify(items, rect) = s.tiles
<1>1. PICK n \in Nat : n = Len(items)
  BY LenProperties
<1>2. PICK T : T = Layouts(items, rect)
  OBVIOUS
<1>3. PICK b \in T : b = Start(items, rect)
  BY <1>2, StartIsLayout
<1>4. ASSUME NEW s \in T
      PROVE  /\ Turned(s) \in T
             /\ s.queue # <<>> => Len(Turned(s).queue) < Len(s.queue)
             /\ s.queue = <<>> => Turned(s) = s
  BY <1>2, TurnKeepsLayout, RoomIsLeft DEF Layouts, Turned
<1>5. ASSUME NEW s \in T
      PROVE  Len(s.queue) \in Nat /\ (Len(s.queue) = 0 => s.queue = <<>>)
                                  /\ (s.queue = <<>> => Len(s.queue) = 0)
  <2>1. s.queue \in Seq(Item)
    BY <1>2 DEF Layouts, Stage
  <2>2. QED
    BY <2>1, EmptySeq, LenProperties
<1> DEFINE Steps(f) == [k \in 0..n |-> IF k = 0 THEN b ELSE Turned(f[k - 1])]
           g == [p \in T \X (1..n) |-> Turned(p[1])]
<1>6. g \in [T \X (1..n) -> T]
  BY <1>4
<1>7. ASSUME NEW s \in T, NEW k \in 1..n PROVE g[<<s, k>>] = Turned(s)
  OBVIOUS
<1> HIDE DEF g
<1>8. PICK f \in [0..n -> T] : Course(f, b, g, n)
  BY <1>6, CourseExists
<1>9. f = Steps(f)
  <2>1. ASSUME NEW k \in 0..n PROVE f[k] = IF k = 0 THEN b ELSE Turned(f[k - 1])
    <3>1. CASE k # 0
      <4>1. k \in 1..n /\ k - 1 \in 0..n
        BY <3>1
      <4>2. QED
        BY <1>7, <1>8, <3>1, <4>1 DEF Course
    <3>2. QED
      BY <1>8, <3>1 DEF Course
  <2>2. QED
    BY <2>1
<1>10. PICK u : u = CHOOSE after : after = Steps(after)
  OBVIOUS
<1>11. squarify(items, rect) = u[n].tiles
  BY <1>1, <1>3, <1>10 DEF squarify, Start, Turned
<1>12. u = Steps(u)
  <2> HIDE DEF Steps
  <2>1. QED
    BY <1>9, <1>10
<1>13. \A k \in 0..n : u[k] = IF k = 0 THEN b ELSE Turned(u[k - 1])
  BY <1>12
<1> DEFINE P == {k \in Nat : k <= n => u[k] \in T /\ Len(u[k].queue) <= n - k}
<1>14. 0 \in P
  <2>1. u[0] = b /\ b.queue = items
    BY <1>3, <1>13 DEF Start
  <2>2. QED
    BY <1>1, <2>1
<1>15. ASSUME NEW k \in P PROVE k + 1 \in P
  <2> SUFFICES ASSUME k + 1 <= n PROVE u[k + 1] \in T /\ Len(u[k + 1].queue) <= n - (k + 1)
    OBVIOUS
  <2>1. k \in Nat /\ k + 1 \in 0..n /\ (k + 1) - 1 = k /\ k + 1 # 0
    OBVIOUS
  <2>2. PICK s \in T : s = u[k] /\ Len(s.queue) <= n - k
    BY <2>1
  <2>3. u[k + 1] = Turned(s)
    BY <1>13, <2>1, <2>2
  <2>4. CASE s.queue = <<>>
    <3>1. u[k + 1] = s /\ Len(s.queue) = 0
      BY <1>4, <1>5, <2>3, <2>4
    <3>2. QED
      BY <2>1, <3>1
  <2>5. CASE s.queue # <<>>
    <3>1. PICK t \in T : t = Turned(s) /\ Len(t.queue) < Len(s.queue)
      BY <1>4, <2>5
    <3>2. PICK x \in Nat, y \in Nat : x = Len(t.queue) /\ y = Len(s.queue)
      BY <1>5
    <3>3. x <= n - (k + 1)
      BY <2>1, <2>2, <3>1, <3>2
    <3>4. QED
      BY <2>3, <3>1, <3>2, <3>3
  <2>6. QED
    BY <2>4, <2>5
<1>16. P = Nat
  <2> HIDE DEF P
  <2>1. P \in SUBSET Nat
    BY DEF P
  <2>2. QED
    BY <1>14, <1>15, <2>1, NumberInduction
<1>17. u[n] \in T /\ Len(u[n].queue) = 0
  <2>1. n \in P
    BY <1>16
  <2>2. u[n] \in T /\ Len(u[n].queue) <= 0
    BY <2>1
  <2>3. QED
    BY <1>5, <2>2
<1>18. QED
  BY <1>2, <1>5, <1>11, <1>17

\* Without items there is nothing to lay out.
LEMMA SquarifyNone == \A rect : squarify(<<>>, rect) = <<>>
<1> SUFFICES ASSUME NEW rect PROVE squarify(<<>>, rect) = <<>>
  OBVIOUS
<1>1. PICK b : b = Start(<<>>, rect)
  OBVIOUS
<1> DEFINE Steps(f) == [k \in 0..0 |-> IF k = 0 THEN b ELSE Turned(f[k - 1])]
<1>2. PICK f : f = [k \in 0..0 |-> b]
  OBVIOUS
<1>3. f = Steps(f)
  BY <1>2
<1>4. PICK u : u = CHOOSE after : after = Steps(after)
  OBVIOUS
<1>5. squarify(<<>>, rect) = u[0].tiles
  <2>1. Len(<<>>) = 0
    OBVIOUS
  <2>2. QED
    BY <1>1, <1>4, <2>1 DEF squarify, Start, Turned
<1>6. u = Steps(u)
  <2> HIDE DEF Steps
  <2>1. QED
    BY <1>3, <1>4
<1>7. u[0] = b
  BY <1>6
<1>8. QED
  BY <1>1, <1>5, <1>7 DEF Start

\* What the tiles of a list of items promise.
Covers(ts, items, rect) ==
    /\ ts \in Seq(Tile) /\ Len(ts) = Len(items)
    /\ \A i \in 1..Len(ts) :
         /\ ts[i].id = items[i].id /\ Times(ts[i].w, ts[i].h) = items[i].area
         /\ Within(ts[i], rect)
         /\ \A j \in 1..Len(ts) : i # j => Apart(ts[i], ts[j])

\* Items whose areas add up to the rectangle are laid out in it, one tile each.
LEMMA SquarifyCovers ==
    ASSUME NEW items \in Seq(Item), NEW rect \in Box, Sum(areasOf(items)) = Times(rect.w, rect.h),
           NEW c, Roomy(c, items, rect)
    PROVE  Covers(squarify(items, rect), items, rect)
<1>1. PICK s \in Layouts(items, rect) : s.queue = <<>> /\ squarify(items, rect) = s.tiles
  BY SquarifyIs
<1>2. PICK ts \in Seq(Tile) : ts = s.tiles
  BY DEF Layouts, Stage
<1>3. PICK n \in Nat : n = Len(ts)
  BY LenProperties
<1>4. Len(items) = n
  <2>1. Len(s.queue) = 0 /\ Len(items) = Len(s.tiles) + Len(s.queue)
    BY <1>1 DEF Layouts, Layout
  <2>2. QED
    BY <1>2, <1>3, <2>1
<1>5. \A i \in 1..n : /\ Shows(ts[i], items[i], rect, s.left)
                      /\ \A j \in 1..n : i < j => Apart(ts[i], ts[j])
  BY <1>2, <1>3 DEF Layouts, Layout
<1>6. \A i \in 1..n : /\ ts[i].id = items[i].id /\ Times(ts[i].w, ts[i].h) = items[i].area
                      /\ Within(ts[i], rect)
  BY <1>5 DEF Shows
<1>7. ASSUME NEW i \in 1..n, NEW j \in 1..n, i # j PROVE Apart(ts[i], ts[j])
  <2>1. CASE i < j
    BY <1>5, <2>1
  <2>2. CASE j < i
    <3>1. Apart(ts[j], ts[i])
      BY <1>5, <2>2
    <3>2. QED
      BY <3>1 DEF Apart
  <2>3. QED
    BY <1>7, <2>1, <2>2
<1>8. QED
  BY <1>1, <1>2, <1>3, <1>4, <1>6, <1>7 DEF Covers

-----------------------------------------------------------------------------
(***************************************************************************)
(* The entries by size.                                                    *)
(***************************************************************************)

Entry == [id : Nat, size : Nat]

\* Of two different entries one comes before the other, and the order is strict.
LEMMA BeforeOrders ==
    ASSUME NEW s \in Entry, NEW t \in Entry, NEW u \in Entry
    PROVE  /\ Before(s, t) /\ Before(t, u) => Before(s, u)
           /\ s # t => Before(s, t) \/ Before(t, s)
           /\ ~ Before(s, s)
<1>1. PICK a \in Nat, b \in Nat, c \in Nat, d \in Nat, e \in Nat, f \in Nat :
         /\ a = s.id /\ b = s.size /\ c = t.id /\ d = t.size /\ e = u.id /\ f = u.size
  BY DEF Entry
<1>2. a = c /\ b = d => s = t
  <2>1. s = [id |-> a, size |-> b]
    BY <1>1 DEF Entry
  <2>2. t = [id |-> c, size |-> d]
    BY <1>1 DEF Entry
  <2>3. QED
    BY <2>1, <2>2
<1>3. /\ Before(s, t) <=> b > d \/ (b = d /\ a < c)
      /\ Before(t, u) <=> d > f \/ (d = f /\ c < e)
      /\ Before(s, u) <=> b > f \/ (b = f /\ a < e)
      /\ Before(t, s) <=> d > b \/ (d = b /\ c < a)
      /\ ~ Before(s, s)
  BY <1>1 DEF Before
<1>4. QED
  BY <1>2, <1>3

Increasing(f, k) == \A i, j \in 1..k : i < j => Before(f[i], f[j])
FirstOf(c, k) == {c[i] : i \in 1..k}

\* A new entry has its place in an ordered list.
LEMMA Inserted ==
    ASSUME NEW k \in Nat, NEW f \in [1..k -> Entry], Increasing(f, k),
           NEW e \in Entry, \A i \in 1..k : f[i] # e
    PROVE  \E h \in [1..(k + 1) -> Entry] :
              Increasing(h, k + 1) /\ FirstOf(h, k + 1) = FirstOf(f, k) \cup {e}
<1>1. \E p \in 0..k : \A i \in 1..k : Before(f[i], e) <=> i <= p
  <2> DEFINE X == {i \in 1..k : Before(f[i], e)}
  <2>1. CASE X = {}
    BY <2>1
  <2>2. CASE X # {}
    <3>1. PICK p \in X : \A i \in X : i <= p
      <4>1. X \in SUBSET (1..k)
        OBVIOUS
      <4> HIDE DEF X
      <4>2. Max(X) \in X /\ \A i \in X : i <= Max(X)
        BY <2>2, <4>1, GreatestOfInterval
      <4>3. QED
        BY <4>2
    <3>2. p \in 1..k /\ Before(f[p], e)
      OBVIOUS
    <3>3. ASSUME NEW i \in 1..k, i <= p PROVE Before(f[i], e)
      <4>1. CASE i = p
        BY <3>2, <4>1
      <4>2. CASE i < p
        <5>1. Before(f[i], f[p]) /\ f[i] \in Entry /\ f[p] \in Entry
          BY <3>2, <4>2 DEF Increasing
        <5>2. QED
          BY <3>2, <5>1, BeforeOrders
      <4>3. QED
        BY <3>2, <3>3, <4>1, <4>2
    <3>4. ASSUME NEW i \in 1..k, Before(f[i], e) PROVE i <= p
      <4>1. i \in X
        BY <3>4
      <4>2. QED
        BY <3>1, <4>1
    <3>5. p \in 0..k
      BY <3>2
    <3> HIDE DEF X
    <3>6. QED
      BY <3>3, <3>4, <3>5
  <2>3. QED
    BY <2>1, <2>2
<1>2. PICK p \in 0..k : \A i \in 1..k : Before(f[i], e) <=> i <= p
  BY <1>1
<1>3. \A i \in 1..k : f[i] \in Entry /\ (i > p => Before(e, f[i]))
  BY <1>2, BeforeOrders
<1>4. PICK h : h = [i \in 1..(k + 1) |-> IF i <= p THEN f[i] ELSE IF i = p + 1 THEN e ELSE f[i - 1]]
  OBVIOUS
<1>5. \A i \in 1..(k + 1) :
         /\ i <= p => i \in 1..k /\ h[i] = f[i]
         /\ i = p + 1 => h[i] = e
         /\ i > p + 1 => i - 1 \in 1..k /\ i - 1 > p /\ h[i] = f[i - 1]
  BY <1>4
<1>6. h \in [1..(k + 1) -> Entry]
  <2>1. \A i \in 1..(k + 1) : h[i] \in Entry
    BY <1>3, <1>5
  <2>2. QED
    BY <1>4, <2>1
<1>7. ASSUME NEW i \in 1..(k + 1), NEW j \in 1..(k + 1), i < j PROVE Before(h[i], h[j])
  <2>1. CASE j <= p
    <3>1. i <= p /\ i \in 1..k /\ j \in 1..k /\ h[i] = f[i] /\ h[j] = f[j]
      BY <1>5, <1>7, <2>1
    <3>2. QED
      BY <1>7, <3>1 DEF Increasing
  <2>2. CASE j = p + 1
    <3>1. i <= p /\ i \in 1..k /\ h[i] = f[i] /\ h[j] = e
      BY <1>5, <1>7, <2>2
    <3>2. QED
      BY <1>2, <3>1
  <2>3. CASE j > p + 1
    <3>1. j - 1 \in 1..k /\ j - 1 > p /\ h[j] = f[j - 1]
      BY <1>5, <2>3
    <3>2. CASE i <= p
      <4>1. i \in 1..k /\ i < j - 1 /\ h[i] = f[i]
        BY <1>5, <3>1, <3>2
      <4>2. QED
        BY <3>1, <4>1 DEF Increasing
    <3>3. CASE i = p + 1
      BY <1>3, <1>5, <3>1, <3>3
    <3>4. CASE i > p + 1
      <4>1. i - 1 \in 1..k /\ i - 1 < j - 1 /\ h[i] = f[i - 1]
        BY <1>5, <1>7, <3>4
      <4>2. QED
        BY <3>1, <4>1 DEF Increasing
    <3>5. QED
      BY <3>2, <3>3, <3>4
  <2>4. QED
    BY <2>1, <2>2, <2>3
<1>8. FirstOf(h, k + 1) = FirstOf(f, k) \cup {e}
  <2>1. ASSUME NEW i \in 1..(k + 1) PROVE h[i] \in FirstOf(f, k) \cup {e}
    BY <1>5 DEF FirstOf
  <2>2. ASSUME NEW i \in 1..k PROVE f[i] \in FirstOf(h, k + 1)
    <3>1. CASE i <= p
      <4>1. i \in 1..(k + 1) /\ h[i] = f[i]
        BY <1>5, <3>1
      <4>2. QED
        BY <4>1 DEF FirstOf
    <3>2. CASE i > p
      <4>1. PICK j \in 1..(k + 1) : j = i + 1
        OBVIOUS
      <4>2. h[j] = f[i]
        BY <1>5, <3>2, <4>1
      <4>3. QED
        BY <4>2 DEF FirstOf
    <3>3. QED
      BY <3>1, <3>2
  <2>3. e \in FirstOf(h, k + 1)
    <3>1. p + 1 \in 1..(k + 1) /\ h[p + 1] = e
      BY <1>5
    <3>2. QED
      BY <3>1 DEF FirstOf
  <2>4. QED
    BY <2>1, <2>2, <2>3 DEF FirstOf
<1>9. QED
  BY <1>6, <1>7, <1>8 DEF Increasing

\* Any entries, numbered as they came, can be put in order.
LEMMA OrderExists ==
    ASSUME NEW n \in Nat, NEW c \in [1..n -> Entry], \A i \in 1..n : c[i].id = i
    PROVE  \E f \in [1..n -> Entry] : Increasing(f, n) /\ FirstOf(f, n) = FirstOf(c, n)
<1> DEFINE Ordered(k) == \E f \in [1..k -> Entry] : Increasing(f, k) /\ FirstOf(f, k) = FirstOf(c, k)
           P == {k \in Nat : k <= n => Ordered(k)}
<1>1. 0 \in P
  <2>1. PICK f : f = [i \in 1..0 |-> c[i]]
    OBVIOUS
  <2>2. f \in [1..0 -> Entry] /\ Increasing(f, 0) /\ FirstOf(f, 0) = FirstOf(c, 0)
    BY <2>1 DEF Increasing, FirstOf
  <2>3. QED
    BY <2>2
<1>2. ASSUME NEW k \in P PROVE k + 1 \in P
  <2> SUFFICES ASSUME k + 1 <= n PROVE Ordered(k + 1)
    OBVIOUS
  <2>1. k \in Nat /\ k + 1 \in 1..n
    OBVIOUS
  <2>2. PICK f \in [1..k -> Entry] : Increasing(f, k) /\ FirstOf(f, k) = FirstOf(c, k)
    BY <2>1
  <2>3. PICK e \in Entry : e = c[k + 1] /\ e.id = k + 1
    BY <2>1
  <2>4. ASSUME NEW i \in 1..k PROVE f[i] # e
    <3>1. f[i] \in FirstOf(c, k)
      BY <2>2 DEF FirstOf
    <3>2. PICK j \in 1..k : f[i] = c[j]
      BY <3>1 DEF FirstOf
    <3>3. c[j].id = j /\ j # k + 1
      BY <2>1
    <3>4. QED
      BY <2>3, <3>2, <3>3
  <2>5. PICK h \in [1..(k + 1) -> Entry] :
           Increasing(h, k + 1) /\ FirstOf(h, k + 1) = FirstOf(f, k) \cup {e}
    BY <2>1, <2>2, <2>4, Inserted
  <2>6. FirstOf(c, k + 1) = FirstOf(c, k) \cup {e}
    <3>1. \A i \in 1..(k + 1) : i \in 1..k \/ i = k + 1
      BY <2>1
    <3>2. \A i \in 1..k : i \in 1..(k + 1)
      BY <2>1
    <3>3. QED
      BY <2>1, <2>3, <3>1, <3>2 DEF FirstOf
  <2>7. QED
    BY <2>2, <2>5, <2>6
<1>3. P = Nat
  <2> HIDE DEF P
  <2>1. P \in SUBSET Nat
    BY DEF P
  <2>2. QED
    BY <1>1, <1>2, <2>1, NumberInduction
<1>4. Ordered(n)
  BY <1>3
<1>5. QED
  BY <1>4

\* A directory counts with a number of bytes, whatever is known of it.
LEMMA SizeIs ==
    ASSUME NEW e \in Listed
    PROVE  effectiveSize(e) \in Nat
<1>1. Size \subseteq Nat
  BY TreemapAssumption
<1>2. CASE e \in [dir : {FALSE}, size : Size]
  BY <1>1, <1>2 DEF effectiveSize
<1>3. CASE e \in [dir : {TRUE}, total : Size]
  <2>1. e.dir = TRUE /\ e.total \in Nat
    BY <1>1, <1>3
  <2>2. QED
    BY <2>1 DEF effectiveSize
<1>4. CASE e = [dir |-> TRUE]
  <2>1. e.dir /\ DOMAIN e = {"dir"}
    BY <1>4
  <2>2. "total" \notin DOMAIN e
    BY <2>1
  <2>3. QED
    BY <2>1, <2>2 DEF effectiveSize
<1>5. QED
  BY <1>2, <1>3, <1>4 DEF Listed

\* The entries are listed by size, each of them once.
Ranked(s) ==
    /\ s \in Seq(Entry) /\ Len(s) = Len(entries)
    /\ \A i \in 1..Len(s) :
         /\ s[i].id \in DOMAIN entries /\ s[i].size = effectiveSize(entries[s[i].id])
         /\ \A j \in 1..Len(s) : i # j => s[i] # s[j]
    /\ \A i \in DOMAIN entries : \E e \in Range(s) : e.id = i

\* The list of sizes has every entry once (useMemo, sizedEntries).
LEMMA SizedIs == TilesInit => Ranked(sized)
<1> SUFFICES ASSUME TilesInit PROVE Ranked(sized)
  OBVIOUS
<1>1. PICK n \in Nat : entries \in [1..n -> Listed]
  BY TreemapAssumption DEF TilesInit, BoundedSeq, SeqOf
<1>2. DOMAIN entries = 1..n /\ Len(entries) = n /\ \A i \in 1..n : effectiveSize(entries[i]) \in Nat
  BY <1>1, SizeIs
<1>3. PICK c : c = [i \in 1..n |-> [id |-> i, size |-> effectiveSize(entries[i])]]
  OBVIOUS
<1>4. /\ c \in [1..n -> Entry]
      /\ \A i \in 1..n : c[i].id = i /\ c[i].size = effectiveSize(entries[i])
  BY <1>2, <1>3 DEF Entry
<1>5. PICK Items : Items = {[id |-> i, size |-> effectiveSize(entries[i])] : i \in DOMAIN entries}
  OBVIOUS
<1>6. Items = FirstOf(c, n)
  BY <1>2, <1>3, <1>5 DEF FirstOf
<1>7. PICK f \in [1..n -> Entry] : Increasing(f, n) /\ FirstOf(f, n) = Items
  BY <1>4, <1>6, OrderExists
<1>8. f \in [DOMAIN entries -> Items] /\ Range(f) = Items /\ \A i, j \in DOMAIN f : i < j => Before(f[i], f[j])
  BY <1>2, <1>7 DEF Range, FirstOf, Increasing
<1>9. PICK s : s = sized
  OBVIOUS
<1>10. s \in [DOMAIN entries -> Items] /\ Range(s) = Items /\ \A i, j \in DOMAIN s : i < j => Before(s[i], s[j])
  BY <1>5, <1>8, <1>9 DEF sized
<1>11. Items \subseteq Entry
  BY <1>4, <1>6 DEF FirstOf
<1>12. s \in [1..n -> Entry] /\ DOMAIN s = 1..n
  BY <1>2, <1>10, <1>11
<1>13. s \in Seq(Entry) /\ Len(s) = n
  BY <1>12
<1>14. ASSUME NEW i \in 1..n
       PROVE  s[i].id \in DOMAIN entries /\ s[i].size = effectiveSize(entries[s[i].id])
  <2>1. s[i] \in FirstOf(c, n)
    BY <1>2, <1>6, <1>10
  <2>2. PICK k \in 1..n : s[i] = c[k]
    BY <2>1 DEF FirstOf
  <2>3. QED
    BY <1>2, <1>4, <2>2
<1>15. ASSUME NEW i \in 1..n, NEW j \in 1..n, i # j PROVE s[i] # s[j]
  <2>1. Before(s[i], s[j]) \/ Before(s[j], s[i])
    <3>1. i < j \/ j < i
      BY <1>15
    <3>2. QED
      BY <1>10, <1>12, <3>1
  <2>2. s[i] \in Entry /\ s[j] \in Entry
    BY <1>12
  <2>3. QED
    BY <2>1, <2>2, BeforeOrders
<1>16. ASSUME NEW i \in 1..n PROVE \E e \in Range(s) : e.id = i
  <2>1. c[i] \in Range(s) /\ c[i].id = i
    BY <1>4, <1>6, <1>10 DEF FirstOf
  <2>2. QED
    BY <2>1
<1>17. QED
  BY <1>2, <1>9, <1>13, <1>14, <1>15, <1>16 DEF Ranked

-----------------------------------------------------------------------------
(***************************************************************************)
(* What is drawn, and what is not.                                         *)
(***************************************************************************)

\* An element that is appended is one more element.
LEMMA RangeOfAppended ==
    ASSUME NEW A, NEW s \in Seq(A), NEW e \in A
    PROVE  Range(Append(s, e)) = Range(s) \cup {e}
<1>1. PICK n \in Nat, t \in Seq(A) : n = Len(s) /\ t = Append(s, e)
  BY LenProperties, AppendProperties
<1>2. Len(t) = n + 1 /\ t[n + 1] = e /\ \A i \in 1..n : t[i] = s[i]
  BY <1>1, AppendProperties
<1>3. Range(s) = {s[i] : i \in 1..n} /\ Range(t) = {t[i] : i \in 1..(n + 1)}
  <2>1. Range(s) = {s[i] : i \in 1..Len(s)}
    BY RangeEquality
  <2>2. Range(t) = {t[i] : i \in 1..Len(t)}
    BY RangeEquality
  <2>3. QED
    BY <1>1, <1>2, <2>1, <2>2
<1>4. \A i \in 1..(n + 1) : i \in 1..n \/ i = n + 1
  BY <1>1
<1>5. n + 1 \in 1..(n + 1) /\ \A i \in 1..n : i \in 1..(n + 1)
  BY <1>1
<1>6. QED
  BY <1>1, <1>2, <1>3, <1>4, <1>5

\* What is left out of a list and what is left of it are the whole list.
LEMMA WithoutParts ==
    ASSUME NEW A, NEW S, NEW R, A \subseteq S \cup R, S \cap R = {}
    PROVE  \A s \in Seq(A) :
              /\ Len(Without(s, S)) + Len(Without(s, R)) = Len(s)
              /\ Range(Without(s, S)) = Range(s) \ S
<1> DEFINE Parts(s) == /\ Len(Without(s, S)) + Len(Without(s, R)) = Len(s)
                       /\ Range(Without(s, S)) = Range(s) \ S
           P == {s \in Seq(A) : Parts(s)}
<1>s. \A s \in Seq(A), e \in A :
         Without(Append(s, e), S) = IF e \in S THEN Without(s, S) ELSE Append(Without(s, S), e)
  BY WithoutSteps
<1>r. \A s \in Seq(A), e \in A :
         Without(Append(s, e), R) = IF e \in R THEN Without(s, R) ELSE Append(Without(s, R), e)
  BY WithoutSteps
<1>1. <<>> \in P
  <2>1. Without(<<>>, S) = <<>> /\ Without(<<>>, R) = <<>>
    BY WithoutSteps
  <2>2. Range(<<>>) = {} /\ <<>> \in Seq(A) /\ Len(<<>>) = 0
    BY EmptySeq DEF Range
  <2>3. QED
    BY <2>1, <2>2
<1>2. ASSUME NEW s \in P, NEW e \in A PROVE Append(s, e) \in P
  <2>1. s \in Seq(A) /\ Append(s, e) \in Seq(A) /\ Len(Append(s, e)) = Len(s) + 1
    BY AppendProperties
  <2>2. PICK v \in Seq(A), w \in Seq(A) : v = Without(s, S) /\ w = Without(s, R)
    BY <2>1, WithoutSteps
  <2>3. /\ Without(Append(s, e), S) = IF e \in S THEN v ELSE Append(v, e)
        /\ Without(Append(s, e), R) = IF e \in R THEN w ELSE Append(w, e)
    <3>1. Without(Append(s, e), S) = IF e \in S THEN Without(s, S) ELSE Append(Without(s, S), e)
      BY <1>s, <2>1
    <3>2. Without(Append(s, e), R) = IF e \in R THEN Without(s, R) ELSE Append(Without(s, R), e)
      BY <1>r, <2>1
    <3>3. QED
      BY <2>2, <3>1, <3>2
  <2>4. Len(v) + Len(w) = Len(s) /\ Range(v) = Range(s) \ S
    BY <2>2
  <2>5. /\ Len(v) \in Nat /\ Len(w) \in Nat /\ Len(s) \in Nat
        /\ Len(Append(v, e)) = Len(v) + 1 /\ Len(Append(w, e)) = Len(w) + 1
    BY <2>1, <2>2, LenProperties, AppendProperties
  <2>6. Range(Append(s, e)) = Range(s) \cup {e} /\ Range(Append(v, e)) = Range(v) \cup {e}
    BY <2>1, <2>2, RangeOfAppended
  <2>7. (e \in S /\ e \notin R) \/ (e \notin S /\ e \in R)
    OBVIOUS
  <2>8. Parts(Append(s, e))
    <3>1. CASE e \in S /\ e \notin R
      BY <2>1, <2>3, <2>4, <2>5, <2>6, <3>1
    <3>2. CASE e \notin S /\ e \in R
      <4>1. Without(Append(s, e), S) = Append(v, e) /\ Without(Append(s, e), R) = w
        BY <2>3, <3>2
      <4>2. Len(Append(v, e)) + Len(w) = Len(Append(s, e))
        BY <2>1, <2>4, <2>5
      <4>3. Range(Append(v, e)) = Range(Append(s, e)) \ S
        BY <2>4, <2>6, <3>2
      <4>4. QED
        BY <4>1, <4>2, <4>3
    <3>3. QED
      BY <2>7, <3>1, <3>2
  <2>9. QED
    BY <2>1, <2>8
<1>3. P = Seq(A)
  <2> HIDE DEF P
  <2>1. P \in SUBSET Seq(A)
    BY DEF P
  <2>2. QED
    BY <1>1, <1>2, <2>1, ListInduction
<1>4. QED
  BY <1>3

-----------------------------------------------------------------------------
(***************************************************************************)
(* Totals, and shares of them.                                             *)
(***************************************************************************)

\* Whole numbers among the fractions.
LEMMA WholeIs ==
    ASSUME NEW n \in Nat, NEW m \in Nat, NEW p \in Frac
    PROVE  /\ Whole(n) \in Frac /\ (Whole(n) = Zero <=> n = 0)
           /\ Whole(n * m) = Times(Whole(n), Whole(m))
           /\ Times(Whole(1), p) = p
<1>1. 1 \in Pos /\ 1 \in Nat
  BY DEF Pos
<1>2. Whole(n) = Q(n, 1) /\ Whole(m) = Q(m, 1) /\ Whole(1) = Q(1, 1)
  BY <1>1, QWhole
<1>3. Whole(n) \in Frac
  BY <1>1, <1>2, QInFrac
<1>4. Whole(n) = Zero <=> n = 0
  BY DEF Whole, Zero
<1>5. Whole(n * m) = Times(Whole(n), Whole(m))
  <2>1. PICK k \in Nat : k = n * m
    OBVIOUS
  <2>2. Times(Q(n, 1), Q(m, 1)) = Q(n * m, 1 * 1)
    BY <1>1, QTimes
  <2>3. Whole(k) = Q(k, 1)
    BY QWhole
  <2>4. QED
    BY <1>2, <2>1, <2>2, <2>3
<1>6. Times(Whole(1), p) = p
  <2>1. PICK a \in Nat, d \in Pos : p = Q(a, d)
    BY Common
  <2>2. Times(Q(1, 1), Q(a, d)) = Q(1 * a, 1 * d)
    BY <1>1, QTimes
  <2>3. 1 * a = a /\ 1 * d = d
    BY PosIs
  <2>4. QED
    BY <1>2, <2>1, <2>2, <2>3
<1>7. QED
  BY <1>3, <1>4, <1>5, <1>6

sizesOf(s) == [i \in DOMAIN s |-> Whole(s[i].size)]

\* The sizes of entries.
LEMMA SizesAre ==
    ASSUME NEW s \in Seq(Entry)
    PROVE  /\ sizesOf(s) \in Seq(Frac) /\ Len(sizesOf(s)) = Len(s)
           /\ \A i \in 1..Len(s) : sizesOf(s)[i] = Whole(s[i].size)
           /\ Total(s) = Sum(sizesOf(s)) /\ Total(s) \in Frac
<1>1. PICK n \in Nat : n = Len(s) /\ DOMAIN s = 1..n /\ s \in [1..n -> Entry]
  BY LenProperties
<1>2. \A i \in 1..n : Whole(s[i].size) \in Frac
  <2>1. \A i \in 1..n : s[i].size \in Nat
    BY <1>1 DEF Entry
  <2>2. \A m \in Nat : Whole(m) \in Frac
    <3>1. Zero \in Frac
      <4>1. 1 \in Pos /\ 0 \in Nat
        BY DEF Pos
      <4>2. QED
        BY <4>1, QWhole, QInFrac DEF Zero
    <3>2. QED
      BY <3>1, WholeIs
  <2>3. QED
    BY <2>1, <2>2
<1>3. sizesOf(s) = [i \in 1..n |-> Whole(s[i].size)]
  BY <1>1 DEF sizesOf
<1>4. sizesOf(s) \in Seq(Frac) /\ Len(sizesOf(s)) = n
  BY <1>2, <1>3
<1>5. Total(s) = Sum(sizesOf(s))
  BY DEF Total, sizesOf
<1>6. QED
  BY <1>1, <1>3, <1>4, <1>5, SumInFrac

\* One more entry adds its size to the total.
LEMMA TotalSteps ==
    ASSUME NEW s \in Seq(Entry), NEW e \in Entry
    PROVE  Total(Append(s, e)) = Plus(Total(s), Whole(e.size))
<1>1. PICK n \in Nat, t \in Seq(Entry) : n = Len(s) /\ t = Append(s, e)
  BY LenProperties, AppendProperties
<1>2. Len(t) = n + 1 /\ t[n + 1] = e /\ \A i \in 1..n : t[i] = s[i]
  BY <1>1, AppendProperties
<1>3. PICK x \in Seq(Frac), y \in Seq(Frac) : x = sizesOf(s) /\ y = sizesOf(t)
  BY SizesAre
<1>4. /\ Len(x) = n /\ Len(y) = n + 1
      /\ \A i \in 1..n : x[i] = Whole(s[i].size)
      /\ \A i \in 1..(n + 1) : y[i] = Whole(t[i].size)
      /\ Total(s) = Sum(x) /\ Total(t) = Sum(y)
  <2>1. Len(x) = n /\ Total(s) = Sum(x) /\ \A i \in 1..n : x[i] = Whole(s[i].size)
    BY <1>1, <1>3, SizesAre
  <2>2. Len(y) = Len(t) /\ Total(t) = Sum(y) /\ \A i \in 1..Len(t) : y[i] = Whole(t[i].size)
    BY <1>1, <1>3, SizesAre
  <2>3. QED
    BY <1>2, <2>1, <2>2
<1>5. upTo(y)[n] = upTo(x)[n]
  <2>1. \A j \in 1..Len(x) : x[j] = y[j]
    BY <1>1, <1>2, <1>4
  <2>2. Len(x) <= Len(y) /\ n \in 0..Len(x)
    BY <1>1, <1>4
  <2>3. QED
    BY <2>1, <2>2, PrefixAddsUp
<1>6. upTo(y)[n + 1] = Plus(upTo(y)[n], y[n + 1])
  <2>1. n + 1 \in 1..Len(y) /\ (n + 1) - 1 = n
    BY <1>1, <1>4
  <2>2. QED
    BY <2>1, UpToIs
<1>7. y[n + 1] = Whole(e.size)
  BY <1>1, <1>2, <1>4
<1>8. QED
  BY <1>1, <1>4, <1>5, <1>6, <1>7 DEF Sum

\* Leaving entries out makes the total no larger.
LEMMA TotalOfPart ==
    ASSUME NEW S
    PROVE  \A s \in Seq(Entry) : Leq(Total(Without(s, S)), Total(s))
<1> DEFINE P == {s \in Seq(Entry) : Leq(Total(Without(s, S)), Total(s))}
<1>s. \A s \in Seq(Entry), e \in Entry :
         Without(Append(s, e), S) = IF e \in S THEN Without(s, S) ELSE Append(Without(s, S), e)
  <2>1. PICK A : A = Entry
    OBVIOUS
  <2>2. \A s \in Seq(A), e \in A :
           Without(Append(s, e), S) = IF e \in S THEN Without(s, S) ELSE Append(Without(s, S), e)
    BY WithoutSteps
  <2>3. QED
    BY <2>1, <2>2
<1>1. <<>> \in P
  <2>1. Without(<<>>, S) = <<>> /\ <<>> \in Seq(Entry)
    BY WithoutSteps, EmptySeq
  <2>2. Total(<<>>) \in Frac
    BY <2>1, SizesAre
  <2>3. Leq(Total(<<>>), Total(<<>>))
    BY <2>2, Sums
  <2>4. QED
    BY <2>1, <2>3
<1>2. ASSUME NEW s \in P, NEW e \in Entry PROVE Append(s, e) \in P
  <2>1. s \in Seq(Entry) /\ Append(s, e) \in Seq(Entry)
    BY AppendProperties
  <2>2. PICK v \in Seq(Entry) : v = Without(s, S)
    BY <2>1, WithoutSteps
  <2>3. PICK x \in Frac, y \in Frac, z \in Frac : x = Total(v) /\ y = Total(s) /\ z = Whole(e.size)
    <3>1. Total(v) \in Frac /\ Total(s) \in Frac /\ e.size \in Nat
      BY <2>1, <2>2, SizesAre DEF Entry
    <3>2. Whole(e.size) \in Frac
      BY <3>1, WholeIs
    <3>3. QED
      BY <3>1, <3>2
  <2>4. Leq(x, y)
    BY <2>2, <2>3
  <2>5. Total(Append(s, e)) = Plus(y, z) /\ Total(Append(v, e)) = Plus(x, z)
    BY <2>1, <2>2, <2>3, TotalSteps
  <2>6. Leq(x, Plus(y, z)) /\ Leq(Plus(x, z), Plus(y, z))
    <3>1. Plus(y, z) \in Frac /\ Leq(y, Plus(y, z))
      BY Sums
    <3>2. Plus(x, z) = Plus(z, x) /\ Plus(y, z) = Plus(z, y)
      BY Sums
    <3>3. Leq(x, Plus(y, z))
      BY <2>4, <3>1, SumsOfThree
    <3>4. Leq(Plus(z, x), Plus(z, y))
      BY <2>4, SumsOfThree
    <3>5. QED
      BY <3>2, <3>3, <3>4
  <2>7. Without(Append(s, e), S) = IF e \in S THEN v ELSE Append(v, e)
    BY <1>s, <2>1, <2>2
  <2>8. QED
    BY <2>1, <2>3, <2>5, <2>6, <2>7
<1>3. P = Seq(Entry)
  <2> HIDE DEF P
  <2>1. P \in SUBSET Seq(Entry)
    BY DEF P
  <2>2. QED
    BY <1>1, <1>2, <2>1, ListInduction
<1>4. QED
  BY <1>3

\* A total to which the first entry adds something is not zero.
LEMMA TotalIsPositive ==
    ASSUME NEW s \in Seq(Entry), Len(s) # 0, s[1].size > 0
    PROVE  Total(s) # Zero
<1>1. PICK x \in Seq(Frac) : /\ Len(x) = Len(s) /\ Total(s) = Sum(x)
                             /\ \A i \in 1..Len(s) : x[i] = Whole(s[i].size)
  BY SizesAre
<1>2. 1 \in 1..Len(s) /\ s[1] \in Entry
  BY LenProperties
<1>3. PICK m \in Nat : m = s[1].size /\ m # 0
  BY <1>2 DEF Entry
<1>4. x[1] # Zero
  <2>1. Zero \in Frac
    BY SumInFrac, SizesAre, Sums
  <2>2. Whole(m) # Zero
    BY <1>3, <2>1, WholeIs
  <2>3. QED
    BY <1>1, <1>2, <1>3, <2>2
<1>5. QED
  BY <1>1, <1>4, SumIsPositive

\* The pane is a rectangle of its area.
LEMMA PaneIs ==
    ASSUME width \in Width
    PROVE  /\ Pane \in Box /\ Area \in Frac /\ Area = Times(Pane.w, Pane.h)
<1>1. width \in Nat /\ MinHeight \in Nat /\ MaxHeight \in Nat
  BY TreemapAssumption
<1>2. PICK half \in Nat : half = (width + 1) \div 2
  BY <1>1
<1>3. PICK h \in Nat : h = paneHeight(width)
  BY <1>1, <1>2 DEF paneHeight
<1>4. Zero \in Frac
  BY SizesAre, EmptySeq, Sums
<1>5. Whole(width) \in Frac /\ Whole(h) \in Frac /\ Whole(width * h) = Times(Whole(width), Whole(h))
  BY <1>1, <1>4, WholeIs
<1>6. Times(Whole(width), Whole(h)) \in Frac
  BY <1>5, ProductsOf
<1>7. Area = Whole(width * h)
  BY <1>3 DEF Area
<1>8. Pane = [x |-> Zero, y |-> Zero, w |-> Whole(width), h |-> Whole(h)]
  BY <1>3 DEF Pane
<1>9. QED
  BY <1>4, <1>5, <1>6, <1>7, <1>8 DEF Box

\* A side of the pane, a hundredth of a pixel wide, is smaller than a tile.
LEMMA PaneHasRoom ==
    ASSUME width \in Width
    PROVE  \A side \in {Pane.w, Pane.h} : ~ Leq(Whole(MIN_TILE_AREA), Times(side, Hairline))
<1>1. width \in Nat /\ MinHeight \in Nat /\ MaxHeight \in Nat /\ MIN_TILE_AREA \in Nat
  BY TreemapAssumption
<1>2. width < 100 * MIN_TILE_AREA /\ MaxHeight < 100 * MIN_TILE_AREA
  BY TreemapAssumption
<1>3. PICK half \in Nat : half = (width + 1) \div 2
  BY <1>1
<1>4. PICK h \in Nat : h = paneHeight(width) /\ h <= MaxHeight
  BY <1>1, <1>3 DEF paneHeight
<1>5. Pane.w = Whole(width) /\ Pane.h = Whole(h)
  BY <1>4 DEF Pane
<1>6. ASSUME NEW n \in Nat, n < 100 * MIN_TILE_AREA
      PROVE  ~ Leq(Whole(MIN_TILE_AREA), Times(Whole(n), Hairline))
  <2>1. 1 \in Nat /\ 1 \in Pos /\ 100 \in Pos
    BY DEF Pos
  <2>2. Whole(n) = Q(n, 1) /\ Whole(MIN_TILE_AREA) = Q(MIN_TILE_AREA, 1)
    BY <1>1, QWhole
  <2>3. Times(Q(n, 1), Q(1, 100)) = Q(n * 1, 1 * 100)
    BY <2>1, QTimes
  <2>4. n * 1 = n /\ 1 * 100 = 100
    OBVIOUS
  <2>5. Leq(Q(MIN_TILE_AREA, 1), Q(n, 100)) <=> MIN_TILE_AREA * 100 <= n * 1
    BY <1>1, <2>1, QLeq
  <2>6. ~ (MIN_TILE_AREA * 100 <= n * 1)
    BY <1>1, <1>6
  <2>7. QED
    BY <2>2, <2>3, <2>4, <2>5, <2>6 DEF Hairline
<1>7. width < 100 * MIN_TILE_AREA /\ h < 100 * MIN_TILE_AREA
  BY <1>1, <1>2, <1>4
<1>8. QED
  BY <1>1, <1>5, <1>6, <1>7

\* A share of less is larger.
LEMMA ShareGrows ==
    ASSUME NEW p \in Frac, NEW s \in Frac, NEW t \in Frac, NEW c \in Frac,
           p # Zero, s # Zero, t # Zero, c # Zero, Leq(s, t)
    PROVE  /\ Times(Over(p, s), c) \in Frac \ {Zero}
           /\ Times(Over(p, t), c) \in Frac
           /\ Leq(Times(Over(p, t), c), Times(Over(p, s), c))
<1>1. PICK x \in Frac, y \in Frac : /\ x = Over(p, s) /\ x # Zero /\ Times(x, s) = p
                                    /\ y = Over(p, t) /\ Times(y, t) = p
  BY ProductsOf
<1>2. Times(s, x) = p /\ Times(t, x) = Times(x, t)
  BY <1>1, ProductsOf
<1>3. Leq(Times(s, x), Times(t, x))
  BY <1>1, ProductsOfThree
<1>4. Leq(Times(y, t), Times(x, t))
  BY <1>1, <1>2, <1>3
<1>5. Leq(y, x)
  BY <1>4, ProductsOfThree
<1>6. Leq(Times(y, c), Times(x, c))
  BY <1>5, ProductsOfThree
<1>7. Times(x, c) \in Frac \ {Zero} /\ Times(y, c) \in Frac
  <2>1. Times(x, c) # Zero
    BY <1>1, ProductsOf
  <2>2. QED
    BY <2>1, ProductsOf
<1>8. QED
  BY <1>1, <1>6, <1>7

\* The areas of what is drawn fill the pane.
LEMMA ScaledFills ==
    ASSUME NEW s \in Seq(Entry), Len(s) # 0, \A i \in 1..Len(s) : s[i].size > 0,
           width \in Width, Area # Zero
    PROVE  /\ Scaled(s) \in Seq(Item) /\ Len(Scaled(s)) = Len(s)
           /\ \A i \in 1..Len(s) : /\ Scaled(s)[i].id = s[i].id
                                   /\ Scaled(s)[i].area = Share(s[i], Total(s))
           /\ Sum(areasOf(Scaled(s))) = Area
<1>1. PICK n \in Nat : n = Len(s) /\ n # 0 /\ DOMAIN s = 1..n /\ s \in [1..n -> Entry]
  BY LenProperties
<1>2. PICK A \in Frac : A = Area /\ A # Zero
  BY PaneIs
<1>3. 1 \in 1..n
  BY <1>1
<1>4. PICK d \in Frac : d = Total(s) /\ d # Zero
  <2>1. s[1].size > 0
    BY <1>1, <1>3
  <2>2. QED
    BY <1>1, <2>1, SizesAre, TotalIsPositive
<1>5. PICK x \in Seq(Frac) : /\ Len(x) = n /\ d = Sum(x)
                             /\ \A i \in 1..n : x[i] = Whole(s[i].size)
  BY <1>1, <1>4, SizesAre
<1>6. \A i \in 1..n : s[i].id \in Nat /\ s[i].size \in Nat /\ s[i].size # 0
  <2>1. \A e \in Entry : e.id \in Nat /\ e.size \in Nat
    BY DEF Entry
  <2>2. \A i \in 1..n : s[i] \in Entry /\ s[i].size > 0
    BY <1>1
  <2>3. \A m \in Nat : m > 0 => m # 0
    OBVIOUS
  <2>4. QED
    BY <2>1, <2>2, <2>3
<1>7. \A i \in 1..n : x[i] \in Frac /\ x[i] # Zero
  <2>1. \A m \in Nat : Whole(m) \in Frac /\ (Whole(m) = Zero <=> m = 0)
    BY <1>2, WholeIs
  <2>2. QED
    BY <1>5, <1>6, <2>1
<1>8. \A i \in 1..n : Share(s[i], d) = Times(Over(x[i], d), A)
  BY <1>2, <1>5 DEF Share
<1>9. \A i \in 1..n : Over(x[i], d) \in Frac /\ Times(Over(x[i], d), A) \in Frac \ {Zero}
  <2>1. Leq(d, d)
    BY Sums
  <2>2. QED
    BY <1>2, <1>4, <1>7, <2>1, ShareGrows, ProductsOf
<1>10. PICK t : t = Scaled(s)
  OBVIOUS
<1>11. t = [i \in 1..n |-> [id |-> s[i].id, area |-> Share(s[i], d)]]
  BY <1>1, <1>4, <1>10 DEF Scaled
<1>12. \A i \in 1..n : [id |-> s[i].id, area |-> Share(s[i], d)] \in Item
  BY <1>6, <1>8, <1>9 DEF Item
<1>13. t \in Seq(Item) /\ Len(t) = n
  <2>1. t \in [1..n -> Item]
    BY <1>11, <1>12
  <2>2. QED
    BY <1>1, <2>1
<1>14. \A i \in 1..n : t[i].id = s[i].id /\ t[i].area = Share(s[i], d)
  BY <1>11
<1>15. PICK y : y = [i \in 1..n |-> Over(x[i], d)]
  OBVIOUS
<1>16. y \in Seq(Frac) /\ Len(y) = n /\ \A i \in 1..n : y[i] = Over(x[i], d)
  BY <1>1, <1>9, <1>15
<1>17. PICK z \in Seq(Frac) : z = areasOf(t) /\ Len(z) = n /\ \A i \in 1..n : z[i] = t[i].area
  BY <1>13, AreasAre
<1>18. \A i \in 1..n : z[i] = Times(y[i], A)
  BY <1>8, <1>14, <1>16, <1>17
<1>19. n \in 0..n
  BY <1>1
<1>20. upTo(y)[n] = Over(d, d)
  <2>1. \A i \in 0..Len(x) : upTo(y)[i] = Over(upTo(x)[i], d)
    <3>1. \A j \in 1..Len(x) : y[j] = Over(x[j], d)
      BY <1>5, <1>16
    <3>2. Len(y) = Len(x)
      BY <1>5, <1>16
    <3>3. QED
      BY <1>4, <1>16, <3>1, <3>2, QuotientsAddUp
  <2>2. QED
    BY <1>5, <1>19, <2>1 DEF Sum
<1>21. upTo(z)[n] = Times(upTo(y)[n], A)
  <2>1. \A i \in 0..Len(y) : upTo(z)[i] = Times(upTo(y)[i], A)
    <3>1. \A j \in 1..Len(y) : z[j] = Times(y[j], A)
      BY <1>16, <1>18
    <3>2. Len(z) = Len(y)
      BY <1>16, <1>17
    <3>3. QED
      BY <1>16, <3>1, <3>2, MultiplesAddUp
  <2>2. QED
    BY <1>16, <1>19, <2>1
<1>22. Times(Over(d, d), A) = A
  <2>1. Whole(1) \in Frac /\ Times(Whole(1), d) = d /\ Times(Whole(1), A) = A
    BY WholeIs
  <2>2. Over(Times(Whole(1), d), d) = Whole(1)
    BY <1>4, <2>1, ProductsOf
  <2>3. QED
    BY <2>1, <2>2
<1>23. Sum(z) = A
  BY <1>17, <1>20, <1>21, <1>22 DEF Sum
<1>24. QED
  BY <1>1, <1>2, <1>4, <1>10, <1>13, <1>14, <1>17, <1>23

-----------------------------------------------------------------------------
(***************************************************************************)
(* The picture is complete.                                                *)
(***************************************************************************)

\* What is drawn and what is listed below it are the whole list; what is drawn is
\* large enough, even as a share of everything.
LEMMA DrawnIs ==
    ASSUME TilesInit
    PROVE  /\ drawn \in Seq(Entry) /\ rest \in Seq(Entry)
           /\ Len(drawn) + Len(rest) = Len(sized)
           /\ Range(drawn) \cup Range(rest) = Range(sized)
           /\ drawn # <<>> =>
                /\ Area # Zero /\ Total(sized) # Zero /\ Leq(Total(drawn), Total(sized))
                /\ \A t \in Range(drawn) :
                     /\ t \in Range(sized) /\ t.size > 0
                     /\ Leq(Whole(MIN_TILE_AREA), Share(t, Total(sized)))
<1>1. PICK s \in Seq(Entry) : s = sized
  BY SizedIs DEF Ranked
<1>2. PICK T : T = Range(s)
  OBVIOUS
<1>3. s \in Seq(T) /\ T \subseteq Entry /\ Range(<<>>) = {}
  BY <1>2, SeqOfRange, RangeOfSeq DEF Range
<1>4. PICK Small \in SUBSET T : \A t \in T : t \notin Small <=>
         t.size > 0 /\ Leq(Whole(MIN_TILE_AREA), Share(t, Total(s)))
  <2>1. PICK X : X = {t \in T : ~ (t.size > 0 /\ Leq(Whole(MIN_TILE_AREA), Share(t, Total(s))))}
    OBVIOUS
  <2>2. QED
    BY <2>1
<1>5. drawn = IF Area = Zero \/ Total(s) = Zero THEN <<>> ELSE Without(s, Small)
  <2>1. Small = {t \in T : ~ (t.size > 0 /\ Leq(Whole(MIN_TILE_AREA), Share(t, Total(s))))}
    BY <1>4
  <2>2. QED
    BY <1>1, <1>2, <2>1 DEF drawn
<1>6. rest = Without(s, Range(drawn))
  BY <1>1 DEF rest
<1>7. CASE Area = Zero \/ Total(s) = Zero
  <2>1. drawn = <<>>
    BY <1>5, <1>7
  <2>2. rest = s
    <3>1. \A i \in DOMAIN s : s[i] \notin {}
      OBVIOUS
    <3>2. Without(s, {}) = s
      BY <3>1, WithoutNone
    <3>3. QED
      BY <1>3, <1>6, <2>1, <3>2
  <2>3. Len(s) \in Nat /\ Len(drawn) = 0 /\ drawn \in Seq(Entry)
    BY <2>1, EmptySeq, LenProperties
  <2>4. QED
    BY <1>1, <1>3, <2>1, <2>2, <2>3
<1>8. CASE ~ (Area = Zero \/ Total(s) = Zero)
  <2>1. drawn = Without(s, Small)
    BY <1>5, <1>8
  <2>2. PICK R : R = T \ Small
    OBVIOUS
  <2>3. Range(drawn) = R
    <3>1. T \subseteq Small \cup R /\ Small \cap R = {}
      BY <2>2
    <3>2. Range(Without(s, Small)) = Range(s) \ Small
      BY ZenonT(30), <1>3, <3>1, WithoutParts
    <3>3. QED
      BY <1>2, <2>1, <2>2, <3>2
  <2>4. rest = Without(s, R)
    BY <1>6, <2>3
  <2>5. /\ Len(Without(s, R)) + Len(Without(s, Small)) = Len(s)
        /\ Range(Without(s, R)) = Range(s) \ R
    <3>1. T \subseteq R \cup Small /\ R \cap Small = {}
      BY <2>2
    <3>2. QED
      BY ZenonT(30), <1>3, <3>1, WithoutParts
  <2>6. drawn \in Seq(Entry) /\ rest \in Seq(Entry)
    BY <2>1, <2>4, WithoutSteps
  <2>7. Len(drawn) \in Nat /\ Len(rest) \in Nat
    BY <2>6, LenProperties
  <2>8. Len(drawn) + Len(rest) = Len(s)
    BY <2>1, <2>4, <2>5, <2>7
  <2>9. Range(drawn) \cup Range(rest) = Range(s)
    BY <1>2, <2>2, <2>3, <2>4, <2>5
  <2>10. Leq(Total(drawn), Total(s))
    BY <2>1, TotalOfPart
  <2>11. \A t \in Range(drawn) :
            /\ t \in T /\ t.size > 0
            /\ Leq(Whole(MIN_TILE_AREA), Share(t, Total(s)))
    BY <1>4, <2>2, <2>3
  <2>12. QED
    BY <1>1, <1>2, <1>8, <2>6, <2>8, <2>9, <2>10, <2>11
<1>9. QED
  BY <1>7, <1>8

\* One tile for each entry that is drawn.
LEMMA TilesAre ==
    ASSUME TilesInit
    PROVE  /\ Tiles \in Seq(Tile) /\ Len(Tiles) = Len(drawn)
           /\ \A i \in 1..Len(Tiles) :
                /\ Tiles[i].id = drawn[i].id
                /\ Times(Tiles[i].w, Tiles[i].h) = Share(drawn[i], Total(drawn))
                /\ Within(Tiles[i], Pane)
                /\ Leq(Whole(MIN_TILE_AREA), Share(drawn[i], Total(drawn)))
                /\ \A j \in 1..Len(Tiles) : i # j => Apart(Tiles[i], Tiles[j])
<1>1. PICK s \in Seq(Entry) : s = drawn
  BY DrawnIs
<1>2. PICK n \in Nat : n = Len(s)
  BY LenProperties
<1>3. width \in Width
  BY DEF TilesInit
<1>4. CASE s = <<>>
  <2>1. Scaled(s) = <<>>
    <3>1. DOMAIN s = {}
      BY <1>4
    <3>2. QED
      BY <3>1 DEF Scaled
  <2>2. Tiles = <<>>
    BY <1>1, <2>1, SquarifyNone DEF Tiles
  <2>3. Len(<<>>) = 0 /\ <<>> \in Seq(Tile) /\ 1..0 = {}
    BY EmptySeq
  <2>4. QED
    BY <1>1, <1>4, <2>2, <2>3
<1>5. CASE s # <<>>
  <2>1. n # 0
    BY <1>2, <1>5, EmptySeq
  <2>2. PICK all \in Seq(Entry) : all = sized
    BY SizedIs DEF Ranked
  <2>3. /\ Area # Zero /\ Total(all) # Zero /\ Leq(Total(s), Total(all))
        /\ \A t \in Range(s) : /\ t \in Range(all) /\ t.size > 0
                               /\ Leq(Whole(MIN_TILE_AREA), Share(t, Total(all)))
    BY <1>1, <1>5, <2>2, DrawnIs
  <2>4. \A i \in 1..n : s[i] \in Range(s) /\ s[i] \in Entry
    BY <1>2, LenProperties DEF Range
  <2>5. PICK items \in Seq(Item) : items = Scaled(s)
    BY <1>2, <1>3, <2>1, <2>3, <2>4, ScaledFills
  <2>6. /\ Len(items) = n /\ Sum(areasOf(items)) = Area
        /\ \A i \in 1..n : items[i].id = s[i].id /\ items[i].area = Share(s[i], Total(s))
    BY <1>2, <1>3, <2>1, <2>3, <2>4, <2>5, ScaledFills
  <2>7. PICK r \in Box : r = Pane /\ Area \in Frac /\ Area = Times(r.w, r.h)
    BY <1>3, PaneIs
  <2>8. Total(s) # Zero /\ Total(s) \in Frac /\ Total(all) \in Frac
    <3>1. s[1].size > 0
      BY <1>2, <2>1, <2>3, <2>4
    <3>2. QED
      BY <1>2, <2>1, <3>1, SizesAre, TotalIsPositive
  <2>9. ASSUME NEW i \in 1..n PROVE Leq(Whole(MIN_TILE_AREA), Share(s[i], Total(s)))
    <3>1. PICK e \in Entry : /\ e = s[i] /\ e.size > 0
                             /\ Leq(Whole(MIN_TILE_AREA), Share(e, Total(all)))
      BY <2>3, <2>4
    <3>2. PICK m \in Nat : m = e.size /\ m # 0
      BY <3>1 DEF Entry
    <3>3. PICK p \in Frac : p = Whole(m) /\ p # Zero
      BY <2>7, <3>2, WholeIs
    <3>4. PICK d \in Frac, t \in Frac, c \in Frac : d = Total(s) /\ t = Total(all) /\ c = Area
      BY <2>7, <2>8
    <3>5. PICK x \in Frac, y \in Frac : x = Times(Over(p, d), c) /\ y = Times(Over(p, t), c) /\ Leq(y, x)
      BY <2>3, <2>8, <3>3, <3>4, ShareGrows
    <3>6. Share(e, d) = x /\ Share(e, t) = y
      BY <3>2, <3>3, <3>4, <3>5 DEF Share
    <3>7. PICK a \in Frac : a = Whole(MIN_TILE_AREA)
      BY <2>7, WholeIs, TreemapAssumption
    <3>8. Leq(a, x)
      BY <3>1, <3>4, <3>5, <3>6, <3>7, SumsOfThree
    <3>9. QED
      BY <3>1, <3>4, <3>6, <3>7, <3>8
  <2>10. PICK c \in Frac : c = Whole(MIN_TILE_AREA)
    BY <2>7, WholeIs, TreemapAssumption
  <2>11. Roomy(c, items, r)
    <3>1. \A i \in 1..Len(items) : Leq(c, items[i].area)
      BY <2>6, <2>9, <2>10
    <3>2. ~ Leq(c, Times(r.w, Hairline)) /\ ~ Leq(c, Times(r.h, Hairline))
      BY <1>3, <2>7, <2>10, PaneHasRoom
    <3>3. QED
      BY <3>1, <3>2 DEF Roomy
  <2>12. Covers(squarify(items, r), items, r)
    BY <2>6, <2>7, <2>11, SquarifyCovers
  <2>13. Tiles = squarify(items, r)
    BY <1>1, <2>5, <2>7 DEF Tiles
  <2>14. PICK ts \in Seq(Tile) : ts = Tiles /\ Len(ts) = n /\ Covers(ts, items, r)
    BY <2>6, <2>12, <2>13 DEF Covers
  <2>15. \A i \in 1..n :
            /\ ts[i].id = s[i].id /\ Times(ts[i].w, ts[i].h) = Share(s[i], Total(s))
            /\ Within(ts[i], r) /\ \A j \in 1..n : i # j => Apart(ts[i], ts[j])
    BY <2>6, <2>14 DEF Covers
  <2>16. QED
    BY <1>1, <1>2, <2>7, <2>9, <2>14, <2>15
<1>6. QED
  BY <1>4, <1>5

\* Every entry of a directory, however many and however large, has a tile or is
\* listed below the tiles, once; the tiles lie side by side in the pane, each as
\* large as its share and none below the least area (TreemapView, squarify).
THEOREM TilesAreComplete == TilesInit => TilesCover
<1> SUFFICES ASSUME TilesInit PROVE TilesCover
  OBVIOUS
<1>1. PICK d \in Seq(Entry), r \in Seq(Entry) : d = drawn /\ r = rest
  BY DrawnIs
<1>2. PICK ts \in Seq(Tile) : ts = Tiles
  BY TilesAre
<1>3. PICK n \in Nat, m \in Nat : n = Len(ts) /\ m = Len(r)
  BY LenProperties
<1>4. PICK all \in Seq(Entry) : all = sized /\ Ranked(all)
  BY SizedIs DEF Ranked
<1>5. /\ n = Len(d)
      /\ \A i \in 1..n :
           /\ ts[i].id = d[i].id /\ Times(ts[i].w, ts[i].h) = Share(d[i], Total(d))
           /\ Within(ts[i], Pane) /\ Leq(Whole(MIN_TILE_AREA), Share(d[i], Total(d)))
           /\ \A j \in 1..n : i # j => Apart(ts[i], ts[j])
  BY <1>1, <1>2, <1>3, TilesAre
<1>6. n + m = Len(all) /\ Range(d) \cup Range(r) = Range(all)
  BY <1>1, <1>3, <1>4, <1>5, DrawnIs
<1>7. /\ DOMAIN ts = 1..n /\ DOMAIN r = 1..m
      /\ \A i \in 1..n : ts[i] \in Tile /\ d[i] \in Range(d)
      /\ \A i \in 1..m : r[i] \in Entry
      /\ Range(d) = {d[i] : i \in 1..n} /\ Range(r) = {r[i] : i \in 1..m}
  <2>1. DOMAIN ts = 1..n /\ DOMAIN r = 1..m /\ DOMAIN d = 1..n
    BY <1>3, <1>5, LenProperties
  <2>2. \A i \in 1..n : ts[i] \in Tile
    BY <1>3, LenProperties
  <2>3. \A i \in 1..m : r[i] \in Entry
    BY <1>3, LenProperties
  <2>4. QED
    BY <2>1, <2>2, <2>3 DEF Range
<1>8. PICK a, b : a = [i \in DOMAIN ts |-> ts[i].id] /\ b = [i \in DOMAIN r |-> r[i].id]
  OBVIOUS
<1>9. /\ a \in Seq(Nat) /\ Len(a) = n /\ \A i \in 1..n : a[i] = d[i].id
      /\ b \in Seq(Nat) /\ Len(b) = m /\ \A i \in 1..m : b[i] = r[i].id
  <2>1. \A t \in Tile : t.id \in Nat
    BY DEF Tile
  <2>2. \A e \in Entry : e.id \in Nat
    BY DEF Entry
  <2>3. a = [i \in 1..n |-> ts[i].id] /\ b = [i \in 1..m |-> r[i].id]
    BY <1>7, <1>8
  <2>4. \A i \in 1..n : ts[i].id \in Nat
    BY <1>7, <2>1
  <2>5. \A i \in 1..m : r[i].id \in Nat
    BY <1>7, <2>2
  <2>6. a \in Seq(Nat) /\ Len(a) = n
    BY <1>3, <2>3, <2>4
  <2>7. b \in Seq(Nat) /\ Len(b) = m
    BY <1>3, <2>3, <2>5
  <2>8. QED
    BY <1>5, <2>3, <2>6, <2>7
<1>10. PICK shown : /\ shown = a \o b /\ Len(shown) = n + m
                    /\ \A i \in 1..(n + m) : shown[i] = IF i <= n THEN a[i] ELSE b[i - n]
  <2>1. PICK x \in Seq(Nat), y \in Seq(Nat) : x = a /\ y = b
    BY <1>9
  <2>2. /\ Len(x \o y) = Len(x) + Len(y)
        /\ \A i \in 1..(Len(x) + Len(y)) : (x \o y)[i] = IF i <= Len(x) THEN x[i] ELSE y[i - Len(x)]
    BY ConcatProperties
  <2>3. PICK z : z = x \o y
    OBVIOUS
  <2>4. Len(z) = n + m /\ \A i \in 1..(n + m) : z[i] = IF i <= n THEN x[i] ELSE y[i - n]
    BY <1>9, <2>1, <2>2, <2>3
  <2>5. QED
    BY <2>1, <2>3, <2>4
<1>11. Len(shown) = Len(entries)
  BY <1>4, <1>6, <1>10 DEF Ranked
<1>12. ASSUME NEW i \in DOMAIN entries PROVE Contains(shown, i)
  <2>1. PICK e \in Range(all) : e.id = i
    BY <1>4 DEF Ranked
  <2>2. CASE e \in Range(d)
    <3>1. PICK k \in 1..n : d[k] = e
      BY <1>7, <2>2
    <3>2. k \in 1..(n + m) /\ k <= n
      BY <1>3
    <3>3. shown[k] = i
      BY <1>9, <1>10, <2>1, <3>1, <3>2
    <3>4. QED
      BY <1>10, <3>2, <3>3 DEF Contains
  <2>3. CASE e \in Range(r)
    <3>1. PICK k \in 1..m : r[k] = e
      BY <1>7, <2>3
    <3>2. PICK l \in 1..(n + m) : l = n + k
      BY <1>3
    <3>3. ~ l <= n /\ l - n = k
      BY <1>3, <3>2
    <3>4. shown[l] = i
      BY <1>9, <1>10, <2>1, <3>1, <3>3
    <3>5. QED
      BY <1>10, <3>4 DEF Contains
  <2>4. QED
    BY <1>6, <2>1, <2>2, <2>3
<1>13. ASSUME NEW i \in 1..n
       PROVE  Share(d[i], Total(d)) =
                 Times(Over(Whole(effectiveSize(entries[ts[i].id])), Total(d)), Area)
  <2>1. d[i] \in Range(all)
    BY <1>6, <1>7
  <2>2. PICK k \in 1..Len(all) : d[i] = all[k]
    BY <2>1, RangeEquality
  <2>3. d[i].size = effectiveSize(entries[d[i].id])
    BY <1>4, <2>2 DEF Ranked
  <2>4. ts[i].id = d[i].id
    BY <1>5
  <2>5. QED
    BY <2>3, <2>4 DEF Share
<1>14. ASSUME NEW i \in 1..n
       PROVE  /\ Within(ts[i], Pane)
              /\ Times(ts[i].w, ts[i].h) =
                    Times(Over(Whole(effectiveSize(entries[ts[i].id])), Total(d)), Area)
              /\ Leq(Whole(MIN_TILE_AREA), Times(ts[i].w, ts[i].h))
              /\ \A j \in 1..n : i # j => Apart(ts[i], ts[j])
  BY <1>5, <1>13
<1>15. QED
  BY <1>1, <1>2, <1>7, <1>8, <1>10, <1>11, <1>12, <1>14 DEF TilesCover, ShowsAll

-----------------------------------------------------------------------------
(***************************************************************************)
(* The shell of the page: what the tab waits for is under way.             *)
(***************************************************************************)

\* A request is of one kind, and taking one out or marking one leaves the
\* others.
LEMMA OrphanedAre ==
    ASSUME NEW cs \in SUBSET Request, NEW kinds
    PROVE  /\ Orphaned(cs, kinds) \in SUBSET Request
           /\ \A c \in cs : c.kind \notin kinds => c \in Orphaned(cs, kinds)
           /\ \A c \in Orphaned(cs, kinds) : c \in cs \/ (c.kind \in kinds /\ ~c.live)
           /\ \A c \in Orphaned(cs, kinds) : c.kind \in kinds => ~c.live
           /\ \A c \in Orphaned(cs, kinds) : c.live => c \in cs
<1>1. \A c \in Request : /\ [c EXCEPT !.live = FALSE] \in Request
                         /\ [c EXCEPT !.live = FALSE].kind = c.kind
                         /\ [c EXCEPT !.live = FALSE].live = FALSE
  BY DEF Request
<1>2. QED
  BY <1>1 DEF Orphaned

\* A request just sent is waited for.
LEMMA CallIs ==
    ASSUME NEW kind \in Kinds, NEW guard \in BOOLEAN
    PROVE  /\ Call(kind, guard) \in Request /\ Call(kind, guard).kind = kind
           /\ Call(kind, guard).live = TRUE
BY DEF Call, Request

\* The page as Load leaves it.
Loaded ==
    /\ setup \in [mode : {"local", "oidc"}, auto : BOOLEAN, storage : BOOLEAN]
    /\ valid \in BOOLEAN /\ stamp \in 0..Cooldown
    /\ page = "app" /\ me = "checking" /\ signedOut = FALSE
    /\ mode = "loading" /\ login = Fresh /\ runningScan = FALSE
    /\ calls = {Call("me", FALSE)}

\* A page just loaded waits for who is signed in.
LEMMA LoadedIs == Loaded => ShellInv
<1> SUFFICES ASSUME Loaded PROVE ShellInv
  OBVIOUS
<1>0. calls = {Call("me", FALSE)} /\ login = Fresh /\ page = "app" /\ me = "checking"
  BY DEF Loaded
<1>1. /\ Call("me", FALSE) \in Request /\ Call("me", FALSE).kind = "me"
      /\ Call("me", FALSE).live = TRUE
  BY CallIs DEF Kinds
<1>2. /\ \A c \in calls : c \in Request /\ c.kind = "me" /\ c.live
      /\ Call("me", FALSE) \in calls
  BY <1>0, <1>1
<1>3. Pending("me") /\ ~Pending("mode") /\ ~Pending("login")
  BY <1>2, <1>1 DEF Pending
<1>4. Fresh \in [error : {"", "refused", "network"}, loading : BOOLEAN] /\ ~Fresh.loading
  BY DEF Fresh
<1>5. ShellTypeOK
  BY <1>2, <1>4 DEF ShellTypeOK, Loaded
<1>6. NothingAwaitedInVain
  BY <1>0, <1>3, <1>4 DEF NothingAwaitedInVain
<1>7. OfLoginPage
  BY <1>0, <1>2, <1>3 DEF OfLoginPage, Loaded
<1>8. QED
  BY <1>5, <1>6, <1>7 DEF ShellInv

\* The tab starts with a page just loaded.
LEMMA ShellStarts == Init => ShellInv
<1>1. Init => Loaded
  BY ShellAssumption DEF Init, Loaded
<1>2. QED
  BY <1>1, LoadedIs

\* setMe of App: a login page that appears asks for the mode, one that goes is
\* not answered any more.  Whoever is in or out is no longer being checked.
LEMMA SetMeKeeps ==
    ASSUME ShellInv, page = "app", NEW who \in {"in", "out"}, NEW away \in BOOLEAN,
           NEW c \in calls, c.kind \in {"me", "logout", "poll"},
           SetMe(who, away, calls \ {c}), KeepLogin,
           UNCHANGED <<setup, page>>, valid' \in BOOLEAN, runningScan' \in BOOLEAN,
           stamp' \in 0..Cooldown
    PROVE  ShellInv'
<1>0. ShellTypeOK /\ NothingAwaitedInVain /\ OfLoginPage
  BY DEF ShellInv
<1>1. calls \in SUBSET Request /\ me' = who /\ signedOut' = away
  BY <1>0 DEF SetMe, ShellTypeOK
<1>2. Fresh \in [error : {"", "refused", "network"}, loading : BOOLEAN] /\ ~Fresh.loading
  BY DEF Fresh
<1>3. login' \in [error : {"", "refused", "network"}, loading : BOOLEAN]
  BY <1>0, <1>2 DEF KeepLogin, ShellTypeOK
<1>4. page' = "app"
  OBVIOUS
<1> DEFINE cs == calls \ {c}
<1>5. /\ cs \in SUBSET Request
      /\ \A d \in calls : d.kind \in {"mode", "login"} => d \in cs
  BY <1>1
<1>6. CASE who = "out"
  <2>1. PICK old : old = Orphaned(cs, {"poll"})
    OBVIOUS
  <2>2. /\ old \in SUBSET Request
        /\ \A d \in old : d.live => d \in calls
        /\ \A d \in calls : d.kind \in {"mode", "login"} => d \in old
        /\ \A d \in old : d.kind = "me" => d \in calls
    <3>1. /\ Orphaned(cs, {"poll"}) \in SUBSET Request
          /\ \A d \in cs : d.kind \notin {"poll"} => d \in Orphaned(cs, {"poll"})
          /\ \A d \in Orphaned(cs, {"poll"}) : d \in cs \/ (d.kind \in {"poll"} /\ ~d.live)
      BY <1>5, OrphanedAre
    <3>2. QED
      BY <1>5, <2>1, <3>1
  <2>3. /\ mode' = IF me = "out" THEN mode ELSE "loading"
        /\ calls' = old \cup (IF me = "out" /\ away = signedOut THEN {} ELSE {Call("mode", away)})
    BY <1>6, <2>1 DEF SetMe
  <2>4. /\ Call("mode", away) \in Request /\ Call("mode", away).kind = "mode"
        /\ Call("mode", away).live = TRUE
    BY CallIs DEF Kinds
  <2>5. ShellTypeOK'
    BY <1>0, <1>1, <1>3, <1>6, <2>2, <2>3, <2>4 DEF ShellTypeOK
  <2>6. Pending("mode") /\ me = "out" => Pending("mode")'
    BY <2>2, <2>3 DEF Pending
  <2>7. me # "out" => Pending("mode")'
    BY <2>3, <2>4 DEF Pending
  <2>8. me = "out" /\ Pending("login") => Pending("login")'
    BY <2>2, <2>3 DEF Pending
  <2>9. login'.loading => me = "out" /\ login.loading
    BY <1>0, <1>1, <1>2, <1>6 DEF KeepLogin, OfLoginPage
  <2>10. NothingAwaitedInVain'
    BY <1>0, <1>1, <1>6, <2>3, <2>6, <2>7, <2>8, <2>9 DEF NothingAwaitedInVain
  <2>11. OfLoginPage'
    BY <1>0, <1>1, <1>4, <1>6, <2>2, <2>3, <2>4 DEF OfLoginPage
  <2>12. QED
    BY <2>5, <2>10, <2>11 DEF ShellInv
<1>7. CASE who = "in"
  <2>1. PICK old : old = Orphaned(cs, {"mode", "login"})
    OBVIOUS
  <2>2. /\ old \in SUBSET Request
        /\ \A d \in old : d.kind \in {"mode", "login"} => ~d.live
        /\ \A d \in old : d.kind = "me" => d \in calls
    <3>1. /\ Orphaned(cs, {"mode", "login"}) \in SUBSET Request
          /\ \A d \in Orphaned(cs, {"mode", "login"}) :
                d \in cs \/ (d.kind \in {"mode", "login"} /\ ~d.live)
          /\ \A d \in Orphaned(cs, {"mode", "login"}) : d.kind \in {"mode", "login"} => ~d.live
      BY <1>5, OrphanedAre
    <3>2. QED
      BY <1>5, <2>1, <3>1
  <2>3. /\ mode' = "loading"
        /\ calls' = old \cup (IF me = "in" THEN {} ELSE {Call("poll", FALSE)})
    BY <1>7, <2>1 DEF SetMe
  <2>4. Call("poll", FALSE) \in Request /\ Call("poll", FALSE).kind = "poll"
    BY CallIs DEF Kinds
  <2>5. ShellTypeOK'
    BY <1>0, <1>1, <1>3, <1>7, <2>2, <2>3, <2>4 DEF ShellTypeOK
  <2>6. ~Pending("mode")' /\ ~Pending("login")'
    BY <2>2, <2>3, <2>4 DEF Pending
  <2>7. login' = Fresh
    BY <1>0, <1>1, <1>7 DEF KeepLogin, OfLoginPage
  <2>8. NothingAwaitedInVain'
    BY <1>1, <1>2, <1>7, <2>7 DEF NothingAwaitedInVain
  <2>9. OfLoginPage'
    BY <1>0, <1>4, <2>2, <2>3, <2>4, <2>6, <2>7 DEF OfLoginPage
  <2>10. QED
    BY <2>5, <2>8, <2>9 DEF ShellInv
<1>8. QED
  BY <1>6, <1>7

\* A request leaves what is waited for as it was when another of its kind,
\* alive if it is, takes its place.
LEMMA ServeKeeps ==
    ASSUME ShellInv, NEW c \in calls, Serve(c)
    PROVE  ShellInv'
<1>0. ShellTypeOK /\ NothingAwaitedInVain /\ OfLoginPage
  BY DEF ShellInv
<1>1. PICK reply \in {"none", "ok", "401", "refused", "running", "idle"} :
         calls' = (calls \ {c}) \cup {[c EXCEPT !.reply = reply]}
  BY DEF Serve
<1>2. UNCHANGED <<setup, page, me, signedOut, mode, login, runningScan, stamp>> /\ valid' \in BOOLEAN
  BY <1>0 DEF Serve, ShellTypeOK
<1>3. PICK d : d = [c EXCEPT !.reply = reply]
  OBVIOUS
<1>4. calls \in SUBSET Request /\ d \in Request /\ d.kind = c.kind /\ d.live = c.live
  BY <1>0, <1>3 DEF ShellTypeOK, Request
<1>5. calls' = (calls \ {c}) \cup {d}
  BY <1>1, <1>3
<1>6. \A kind : Pending(kind)' <=> Pending(kind)
  BY <1>4, <1>5 DEF Pending
<1>7. ShellTypeOK'
  BY ZenonT(30), <1>0, <1>2, <1>4, <1>5 DEF ShellTypeOK
<1>8. NothingAwaitedInVain'
  BY <1>0, <1>2, <1>6 DEF NothingAwaitedInVain
<1>9. OfLoginPage'
  <2>1. \A e \in calls' : e.kind = "me" => e.live
    BY <1>0, <1>4, <1>5 DEF OfLoginPage
  <2>2. QED
    BY <1>0, <1>2, <1>6, <2>1 DEF OfLoginPage
<1>10. QED
  BY <1>7, <1>8, <1>9 DEF ShellInv

\* A tab that leaves waits for nothing.
LEMMA LeaveKeeps ==
    ASSUME ShellInv, Leave, UNCHANGED setup, stamp' \in 0..Cooldown
    PROVE  ShellInv'
<1>0. ShellTypeOK
  BY DEF ShellInv
<1>1. /\ page' = "idp" /\ me' = "checking" /\ signedOut' = FALSE /\ mode' = "loading"
      /\ login' = Fresh /\ runningScan' = FALSE /\ calls' = {}
  BY DEF Leave
<1>2. valid' \in BOOLEAN
  BY <1>0 DEF Leave, Abandon, ShellTypeOK
<1>3. Fresh \in [error : {"", "refused", "network"}, loading : BOOLEAN] /\ ~Fresh.loading
  BY DEF Fresh
<1>4. ShellTypeOK'
  BY <1>0, <1>1, <1>2, <1>3 DEF ShellTypeOK
<1>5. NothingAwaitedInVain'
  BY <1>1, <1>3 DEF NothingAwaitedInVain
<1>6. OfLoginPage'
  BY <1>1 DEF OfLoginPage, Pending
<1>7. QED
  BY <1>4, <1>5, <1>6 DEF ShellInv

\* A request that is answered or given up is no longer waited for.
LEMMA DoneKeeps ==
    ASSUME ShellInv, NEW c \in calls, calls' = calls \ {c}, c.kind # "me",
           UNCHANGED <<setup, page, me, signedOut, stamp>>,
           valid' \in BOOLEAN, runningScan' \in BOOLEAN,
           mode' \in {"loading", "local", "oidc"},
           login' \in [error : {"", "refused", "network"}, loading : BOOLEAN],
           IF c.kind = "mode" /\ c.live THEN mode' # "loading" ELSE mode' = mode,
           IF c.kind = "login" /\ c.live THEN ~login'.loading ELSE login' = login
    PROVE  ShellInv'
<1>0. ShellTypeOK /\ NothingAwaitedInVain /\ OfLoginPage
  BY DEF ShellInv
<1>1. calls \in SUBSET Request
  BY <1>0 DEF ShellTypeOK
<1>2. Pending("me") => Pending("me")'
  BY DEF Pending
<1>3. Pending("mode") /\ mode' = "loading" => Pending("mode")'
  BY DEF Pending
<1>4. Pending("login") /\ login'.loading => Pending("login")'
  BY DEF Pending
<1>5. \A kind : Pending(kind)' => Pending(kind)
  BY DEF Pending
<1>6. ShellTypeOK'
  BY <1>0, <1>1 DEF ShellTypeOK
<1>7. mode' = "loading" => mode = "loading"
  OBVIOUS
<1>8. login'.loading => login.loading
  OBVIOUS
<1>9. NothingAwaitedInVain'
  BY <1>0, <1>2, <1>3, <1>4, <1>7, <1>8 DEF NothingAwaitedInVain
<1>10. OfLoginPage'
  <2>1. me # "out" => mode' = mode /\ login' = login
    BY <1>0 DEF OfLoginPage, Pending
  <2>2. QED
    BY <1>0, <1>5, <2>1 DEF OfLoginPage
<1>11. QED
  BY <1>6, <1>9, <1>10 DEF ShellInv

\* Another request does not disturb the others; only a login page waits for a
\* login.
LEMMA SendKeeps ==
    ASSUME ShellInv, NEW c \in Request, Send(c), c.live,
           \/ c.kind \in {"logout", "poll"} /\ UNCHANGED login
           \/ c.kind = "login" /\ me = "out" /\ login' = [error |-> "", loading |-> TRUE]
    PROVE  ShellInv'
<1>0. ShellTypeOK /\ NothingAwaitedInVain /\ OfLoginPage
  BY DEF ShellInv
<1>1. /\ calls' = calls \cup {c}
      /\ UNCHANGED <<setup, valid, page, me, signedOut, mode, runningScan, stamp>>
  BY DEF Send
<1>2. \A kind : Pending(kind) => Pending(kind)'
  BY <1>1 DEF Pending
<1>3. \A kind : kind # c.kind /\ Pending(kind)' => Pending(kind)
  BY <1>1 DEF Pending
<1>4. login'.loading => login.loading \/ Pending("login")'
  BY <1>1 DEF Pending
<1>5. ShellTypeOK'
  <2>1. login' \in [error : {"", "refused", "network"}, loading : BOOLEAN]
    <3>1. /\ login \in [error : {"", "refused", "network"}, loading : BOOLEAN]
          /\ [error |-> "", loading |-> TRUE] \in [error : {"", "refused", "network"}, loading : BOOLEAN]
      BY <1>0 DEF ShellTypeOK
    <3>2. login' = login \/ login' = [error |-> "", loading |-> TRUE]
      OBVIOUS
    <3>3. QED
      BY <3>1, <3>2
  <2>2. QED
    BY <1>0, <1>1, <2>1 DEF ShellTypeOK
<1>6. NothingAwaitedInVain'
  BY <1>0, <1>1, <1>2, <1>4 DEF NothingAwaitedInVain
<1>7. OfLoginPage'
  <2>1. \A d \in calls' : d.kind = "me" => d.live
    BY <1>0, <1>1 DEF OfLoginPage
  <2>2. me # "out" => login' = login /\ ~Pending("mode")' /\ ~Pending("login")'
    BY <1>0, <1>3 DEF OfLoginPage
  <2>3. QED
    BY <1>0, <1>1, <2>1, <2>2 DEF OfLoginPage
<1>8. QED
  BY <1>5, <1>6, <1>7 DEF ShellInv

\* The login page takes its answer, and App asks again who is signed in.
LEMMA LoginKeeps ==
    ASSUME ShellInv, NEW c \in calls, LandLogin(c)
    PROVE  ShellInv'
<1>0. ShellTypeOK /\ NothingAwaitedInVain /\ OfLoginPage
  BY DEF ShellInv
<1>1. /\ c.kind = "login" /\ page = "app"
      /\ login' = IF ~c.live THEN login
                  ELSE [error |-> IF c.reply = "ok" THEN "" ELSE "refused", loading |-> FALSE]
      /\ calls' = (calls \ {c}) \cup (IF c.reply = "ok" THEN {Call("me", FALSE)} ELSE {})
      /\ valid' = (valid \/ c.reply = "ok")
      /\ UNCHANGED <<setup, page, me, signedOut, mode, runningScan, stamp>>
  BY DEF LandLogin, Answered
<1>2. /\ Call("me", FALSE) \in Request /\ Call("me", FALSE).kind = "me"
      /\ Call("me", FALSE).live = TRUE
  BY CallIs DEF Kinds
<1>3. calls \in SUBSET Request
  BY <1>0 DEF ShellTypeOK
<1>4. Pending("me") => Pending("me")'
  BY <1>1 DEF Pending
<1>5. Pending("mode")' <=> Pending("mode")
  BY <1>1, <1>2 DEF Pending
<1>6. Pending("login")' => Pending("login")
  BY <1>1, <1>2 DEF Pending
<1>7. ~c.live /\ Pending("login") => Pending("login")'
  BY <1>1 DEF Pending
<1>8. c.live => ~login'.loading
  BY <1>1
<1>9. ShellTypeOK'
  <2>1. login' \in [error : {"", "refused", "network"}, loading : BOOLEAN]
    <3>1. \A e \in {"", "refused"} :
             [error |-> e, loading |-> FALSE] \in [error : {"", "refused", "network"}, loading : BOOLEAN]
      OBVIOUS
    <3>2. login \in [error : {"", "refused", "network"}, loading : BOOLEAN]
      BY <1>0 DEF ShellTypeOK
    <3>3. QED
      BY <1>1, <3>1, <3>2
  <2>2. valid' \in BOOLEAN
    BY <1>1
  <2>3. calls' \subseteq Request
    BY <1>1, <1>2, <1>3
  <2>4. QED
    BY <1>0, <1>1, <2>1, <2>2, <2>3 DEF ShellTypeOK
<1>10. NothingAwaitedInVain'
  BY <1>0, <1>1, <1>4, <1>5, <1>7, <1>8 DEF NothingAwaitedInVain
<1>11. OfLoginPage'
  <2>1. me # "out" => ~c.live
    BY <1>0, <1>1 DEF OfLoginPage, Pending
  <2>2. me # "out" => login' = login
    BY <1>1, <2>1
  <2>3. \A d \in calls' : d.kind = "me" => d.live
    BY <1>0, <1>1, <1>2 DEF OfLoginPage
  <2>4. QED
    BY <1>0, <1>1, <1>5, <1>6, <2>2, <2>3 DEF OfLoginPage
<1>12. QED
  BY <1>9, <1>10, <1>11 DEF ShellInv

\* An answer to who is signed in, or to a sign-out.
LEMMA WhoKeeps ==
    ASSUME ShellInv, NEW c \in calls, LandMe(c) \/ LandLogout(c)
    PROVE  ShellInv'
<1>0. ShellTypeOK
  BY DEF ShellInv
<1>1. /\ page = "app" /\ c.kind \in {"me", "logout", "poll"} /\ KeepLogin
      /\ UNCHANGED <<setup, valid, page, runningScan, stamp>>
  BY DEF LandMe, LandLogout, Answered
<1>2. PICK who \in {"in", "out"}, away \in BOOLEAN : SetMe(who, away, calls \ {c})
  BY <1>0 DEF LandMe, LandLogout, ShellTypeOK
<1>3. valid' \in BOOLEAN /\ runningScan' \in BOOLEAN /\ stamp' \in 0..Cooldown
  BY <1>0, <1>1 DEF ShellTypeOK
<1>4. QED
  BY <1>1, <1>2, <1>3, SetMeKeeps

\* An answer to the poll: a 401 signs out.
LEMMA PollKeeps ==
    ASSUME ShellInv, NEW c \in calls, LandPoll(c)
    PROVE  ShellInv'
<1>0. ShellTypeOK
  BY DEF ShellInv
<1>1. /\ page = "app" /\ c.kind = "poll" /\ UNCHANGED <<setup, valid, page, stamp>>
  BY DEF LandPoll, Answered
<1>2. valid' \in BOOLEAN /\ signedOut \in BOOLEAN /\ stamp' \in 0..Cooldown
  BY <1>0, <1>1 DEF ShellTypeOK
<1>3. CASE c.reply = "401"
  <2>1. SetMe("out", signedOut, calls \ {c}) /\ KeepLogin /\ UNCHANGED runningScan
    BY <1>3 DEF LandPoll
  <2>2. runningScan' \in BOOLEAN
    BY <1>0, <2>1 DEF ShellTypeOK
  <2>3. QED
    BY <1>1, <1>2, <2>1, <2>2, SetMeKeeps
<1>4. CASE c.reply # "401"
  <2>1. /\ runningScan' = IF c.live THEN c.reply = "running" ELSE runningScan
        /\ calls' = calls \ {c} /\ UNCHANGED <<me, signedOut, mode, login>>
    BY <1>4 DEF LandPoll
  <2>2. runningScan' \in BOOLEAN
    BY <1>0, <2>1 DEF ShellTypeOK
  <2>3. /\ mode' \in {"loading", "local", "oidc"}
        /\ login' \in [error : {"", "refused", "network"}, loading : BOOLEAN]
    BY <1>0, <2>1 DEF ShellTypeOK
  <2>4. QED
    BY <1>1, <1>2, <2>1, <2>2, <2>3, DoneKeeps
<1>5. QED
  BY <1>3, <1>4

\* The mode arrives, and the login page offers it.
LEMMA OfferKeeps ==
    ASSUME ShellInv, NEW c \in calls, Offer(c)
    PROVE  ShellInv'
<1>0. ShellTypeOK
  BY DEF ShellInv
<1>1. /\ c.kind = "mode" /\ calls' = calls \ {c} /\ mode' = IF c.live THEN setup.mode ELSE mode
      /\ UNCHANGED <<setup, valid, page, me, signedOut, login, runningScan, stamp>>
  BY DEF Offer, Answered
<1>2. setup.mode \in {"local", "oidc"} /\ mode \in {"loading", "local", "oidc"}
  BY <1>0 DEF ShellTypeOK
<1>3. mode' \in {"loading", "local", "oidc"} /\ (c.live => mode' # "loading")
  BY <1>1, <1>2
<1>4. /\ valid' \in BOOLEAN /\ runningScan' \in BOOLEAN
      /\ login' \in [error : {"", "refused", "network"}, loading : BOOLEAN]
  BY <1>0, <1>1 DEF ShellTypeOK
<1>5. IF c.kind = "mode" /\ c.live THEN mode' # "loading" ELSE mode' = mode
  BY <1>1, <1>3
<1>6. IF c.kind = "login" /\ c.live THEN ~login'.loading ELSE login' = login
  BY <1>1
<1>7. QED
  BY <1>1, <1>3, <1>4, <1>5, <1>6, DoneKeeps

\* No answer: whoever waits for it gets another one.
LEMMA FailKeeps ==
    ASSUME ShellInv, NEW c \in calls, Fail(c)
    PROVE  ShellInv'
<1>0. ShellTypeOK
  BY DEF ShellInv
<1>1. page = "app" /\ UNCHANGED <<setup, page, runningScan, stamp>>
  BY DEF Fail
<1>2. /\ valid' \in BOOLEAN /\ signedOut \in BOOLEAN /\ stamp' \in 0..Cooldown
      /\ runningScan' \in BOOLEAN
  <2>1. valid' \in {valid} \cup {TRUE}
    BY DEF Fail
  <2>2. QED
    BY <1>0, <1>1, <2>1 DEF ShellTypeOK
<1>3. CASE c.kind = "me"
  <2>1. SetMe("out", signedOut, calls \ {c}) /\ KeepLogin
    BY <1>3 DEF Fail
  <2>2. QED
    BY <1>1, <1>2, <1>3, <2>1, SetMeKeeps
<1>4. CASE c.kind # "me"
  <2>1. /\ calls' = calls \ {c}
        /\ mode' = IF c.kind = "mode" /\ c.live THEN "local" ELSE mode
        /\ login' = IF c.kind = "login" /\ c.live THEN [error |-> "network", loading |-> FALSE] ELSE login
        /\ UNCHANGED <<me, signedOut>>
    BY <1>4 DEF Fail
  <2>2. mode' \in {"loading", "local", "oidc"}
    BY <1>0, <2>1 DEF ShellTypeOK
  <2>3. login' \in [error : {"", "refused", "network"}, loading : BOOLEAN]
    <3>1. [error |-> "network", loading |-> FALSE]
             \in [error : {"", "refused", "network"}, loading : BOOLEAN]
      OBVIOUS
    <3>2. login \in [error : {"", "refused", "network"}, loading : BOOLEAN]
      BY <1>0 DEF ShellTypeOK
    <3>3. QED
      BY <2>1, <3>1, <3>2
  <2>4. IF c.kind = "mode" /\ c.live THEN mode' # "loading" ELSE mode' = mode
    BY <2>1
  <2>5. IF c.kind = "login" /\ c.live THEN ~login'.loading ELSE login' = login
    BY <2>1
  <2>6. QED
    BY <1>1, <1>2, <1>4, <2>1, <2>2, <2>3, <2>4, <2>5, DoneKeeps
<1>5. QED
  BY <1>3, <1>4

\* Every step keeps it.
LEMMA ShellKeeps == ShellInv /\ [Next]_vars => ShellInv'
<1>1. Loaded => ShellInv
  BY LoadedIs
<1>2. Loaded' => ShellInv'
  BY <1>1, PTL
<1> SUFFICES ASSUME ShellInv, [Next]_vars PROVE ShellInv'
  OBVIOUS
<1>0. ShellTypeOK
  BY DEF ShellInv
<1>3. CASE Settle
  <2>1. PICK c \in calls : \/ Serve(c) \/ LandMe(c) \/ Hop(c) \/ Offer(c) \/ LandLogin(c)
                           \/ LandLogout(c) \/ LandPoll(c) \/ Fail(c)
    BY <1>3 DEF Settle
  <2>2. CASE Hop(c)
    <3>1. Leave /\ UNCHANGED setup /\ stamp' \in 0..Cooldown
      BY <2>2, ShellAssumption DEF Hop
    <3>2. QED
      BY <3>1, LeaveKeeps
  <2>3. QED
    BY <2>1, <2>2, ServeKeeps, WhoKeeps, OfferKeeps, LoginKeeps, PollKeeps, FailKeeps
<1>4. CASE Logout \/ PollTimer \/ Submit
  <2>1. PICK kind \in {"logout", "poll", "login"} :
           /\ Send(Call(kind, FALSE))
           /\ \/ kind \in {"logout", "poll"} /\ UNCHANGED login
              \/ kind = "login" /\ me = "out" /\ login' = [error |-> "", loading |-> TRUE]
    BY <1>4 DEF Logout, PollTimer, Submit
  <2>2. /\ Call(kind, FALSE) \in Request /\ Call(kind, FALSE).kind = kind
        /\ Call(kind, FALSE).live = TRUE
    BY CallIs DEF Kinds
  <2>3. PICK c \in Request : c = Call(kind, FALSE)
    BY <2>2
  <2>4. QED
    BY <2>1, <2>2, <2>3, SendKeeps
<1>5. CASE FollowLink
  <2>1. Leave /\ UNCHANGED <<setup, stamp>>
    BY <1>5 DEF FollowLink
  <2>2. stamp' \in 0..Cooldown
    BY <1>0, <2>1 DEF ShellTypeOK
  <2>3. QED
    BY <2>1, <2>2, LeaveKeeps
<1>6. CASE Reload \/ IdpReturns
  <2>1. Load /\ UNCHANGED <<setup, stamp>>
    BY <1>6 DEF Reload, IdpReturns
  <2>2. valid' \in BOOLEAN
    BY <1>0, <1>6 DEF Reload, IdpReturns, Abandon, ShellTypeOK
  <2>3. Loaded'
    BY <1>0, <2>1, <2>2 DEF Loaded, Load, ShellTypeOK
  <2>4. QED
    BY <1>2, <2>3
<1>7. CASE SessionEnds \/ Tick \/ UNCHANGED vars
  <2>1. UNCHANGED <<setup, page, me, signedOut, mode, login, runningScan, calls>>
    BY <1>7 DEF SessionEnds, Tick, vars
  <2>2. valid' \in BOOLEAN /\ stamp' \in 0..Cooldown
    <3>1. valid \in BOOLEAN /\ stamp \in 0..Cooldown /\ Cooldown \in Nat
      BY <1>0, ShellAssumption DEF ShellTypeOK
    <3>2. valid' = valid \/ valid' = FALSE
      BY <1>7 DEF SessionEnds, Tick, vars
    <3>3. stamp' = stamp \/ (stamp < Cooldown /\ stamp' = stamp + 1)
      BY <1>7 DEF SessionEnds, Tick, vars
    <3>4. stamp' \in 0..Cooldown
      BY <3>1, <3>3
    <3>5. valid' \in BOOLEAN
      BY <3>1, <3>2
    <3>6. QED
      BY <3>4, <3>5
  <2>3. QED
    BY ZenonT(30), <2>1, <2>2 DEF ShellInv, ShellTypeOK, NothingAwaitedInVain, OfLoginPage, Pending
<1>8. QED
  BY <1>3, <1>4, <1>5, <1>6, <1>7 DEF Next

\* The invariant of the shell, with the types of its state (App, LoginPage).
THEOREM InductiveShell == Spec => []ShellInv
<1>1. Init => ShellInv
  BY ShellStarts
<1>2. ShellInv /\ [Next]_vars => ShellInv'
  BY ShellKeeps
<1>3. QED
  BY <1>1, <1>2, PTL DEF Spec

\* No tab is left before a blank screen, "Loading..." or a disabled button with
\* nothing under way that will end it, however requests overlap, fail or are
\* answered late (App, authState; LoginPage, mode and loading).
THEOREM NobodyWaitsInVain == Spec => []NothingAwaitedInVain
<1>1. ShellInv => NothingAwaitedInVain
  BY DEF ShellInv
<1>2. QED
  BY <1>1, InductiveShell, PTL
=============================================================================
