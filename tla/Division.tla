------------------------------- MODULE Division -------------------------------
(***************************************************************************)
(* Division with remainder by a divisor that is not a number, for the      *)
(* proofs about pages of the EEPROM and blocks of an image.                *)
(***************************************************************************)
EXTENDS Integers, TLAPS

LEMMA DivMod ==
    ASSUME NEW a \in Nat, NEW m \in Nat \ {0}
    PROVE  /\ a = m * (a \div m) + (a % m)
           /\ a \div m \in Nat /\ a % m \in 0 .. m - 1
  OBVIOUS

\* A product of naturals is at least each factor it has a non-zero partner for.
LEMMA ProductBound ==
    ASSUME NEW m \in Nat, NEW q \in Nat, q >= 1
    PROVE  m * q >= m
  OBVIOUS

LEMMA ModUnique ==
    ASSUME NEW a \in Nat, NEW m \in Nat \ {0}, NEW q \in Int, NEW r \in 0 .. m - 1,
           a = m * q + r
    PROVE  a % m = r /\ a \div m = q
  <1> DEFINE p == a \div m
             s == a % m
  <1>1. a = m * p + s /\ p \in Nat /\ s \in 0 .. m - 1
    BY DivMod
  <1> HIDE DEF p, s
  <1>2. m * (p - q) = r - s
    BY <1>1
  <1>3. ~ (p - q >= 1)
    <2> SUFFICES ASSUME p - q >= 1 PROVE FALSE
      OBVIOUS
    <2>1. m * (p - q) >= m
      BY <1>1, ProductBound
    <2> QED BY <1>1, <1>2, <2>1
  <1>4. ~ (q - p >= 1)
    <2> SUFFICES ASSUME q - p >= 1 PROVE FALSE
      OBVIOUS
    <2>1. m * (q - p) >= m
      BY <1>1, ProductBound
    <2>2. m * (q - p) = s - r
      BY <1>1
    <2> QED BY <1>1, <2>1, <2>2
  <1>5. p = q
    BY <1>1, <1>3, <1>4
  <1>6. s = r
    BY <1>1, <1>5
  <1> QED BY <1>5, <1>6 DEF p, s

LEMMA ModSmall ==
    ASSUME NEW m \in Nat \ {0}, NEW r \in 0 .. m - 1
    PROVE  r % m = r /\ r \div m = 0
  <1>1. r = m * 0 + r /\ r \in Nat /\ 0 \in Int
    OBVIOUS
  <1> QED BY <1>1, ModUnique

LEMMA ModAdd ==
    ASSUME NEW a \in Nat, NEW b \in Nat, NEW m \in Nat \ {0}
    PROVE  ((a % m) + b) % m = (a + b) % m
  <1> DEFINE q == a \div m
             r == a % m
             p == (r + b) \div m
             s == (r + b) % m
  <1>1. a = m * q + r /\ q \in Nat /\ r \in 0 .. m - 1
    BY DivMod
  <1>2. r + b \in Nat
    BY <1>1
  <1>3. r + b = m * p + s /\ p \in Nat /\ s \in 0 .. m - 1
    <2> HIDE DEF r
    <2> QED BY <1>2, DivMod
  <1> HIDE DEF q, r, p, s
  <1>4. a + b = m * (q + p) + s
    BY <1>1, <1>3
  <1>5. (a + b) % m = s
    <2>1. a + b \in Nat /\ q + p \in Int
      BY <1>1, <1>3
    <2> QED BY <1>3, <1>4, <2>1, ModUnique
  <1> QED BY <1>5 DEF s, r

LEMMA ModMod ==
    ASSUME NEW a \in Nat, NEW m \in Nat \ {0}, NEW n \in Nat \ {0}, n % m = 0
    PROVE  (a % n) % m = a % m
  <1> DEFINE c == n \div m
             q == a \div n
             x == a % n
             p == x \div m
             r == x % m
  <1>1. n = m * c /\ c \in Nat
    BY DivMod
  <1>2. a = n * q + x /\ q \in Nat /\ x \in 0 .. n - 1
    BY DivMod
  <1>3. x = m * p + r /\ p \in Nat /\ r \in 0 .. m - 1
    <2>1. x \in Nat
      BY <1>2
    <2> HIDE DEF x
    <2> QED BY <2>1, DivMod
  <1> HIDE DEF c, q, x, p, r
  <1>4. a = m * (c * q + p) + r
    BY <1>1, <1>2, <1>3
  <1>5. a % m = r
    <2>1. c * q + p \in Int
      BY <1>1, <1>2, <1>3
    <2> QED BY <1>3, <1>4, <2>1, ModUnique
  <1> QED BY <1>5 DEF r, x

\* Different numbers less than m apart have different remainders.
LEMMA ModInjective ==
    ASSUME NEW m \in Nat \ {0}, NEW f \in Nat, NEW j \in 0 .. m - 1, NEW k \in 0 .. m - 1,
           (f + j) % m = (f + k) % m
    PROVE  j = k
  <1> DEFINE p == (f + j) \div m
             q == (f + k) \div m
             r == (f + j) % m
  <1>0. f + j \in Nat /\ f + k \in Nat
    OBVIOUS
  <1>1. f + j = m * p + r /\ p \in Nat /\ r \in 0 .. m - 1
    BY <1>0, DivMod
  <1>2. f + k = m * q + r /\ q \in Nat
    BY <1>0, DivMod
  <1> HIDE DEF p, q, r
  <1>3. m * (p - q) = j - k /\ m * (q - p) = k - j
    BY <1>1, <1>2
  <1>4. ~ (p - q >= 1)
    <2>1. p - q >= 1 => m * (p - q) >= m
      BY <1>1, <1>2, ProductBound
    <2> QED BY <1>1, <1>2, <1>3, <2>1
  <1>5. ~ (q - p >= 1)
    <2>1. q - p >= 1 => m * (q - p) >= m
      BY <1>1, <1>2, ProductBound
    <2> QED BY <1>1, <1>2, <1>3, <2>1
  <1>6. p = q
    BY <1>1, <1>2, <1>4, <1>5
  <1> QED BY <1>1, <1>2, <1>6
=============================================================================
