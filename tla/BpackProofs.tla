---------------------------- MODULE BpackProofs ----------------------------
(***************************************************************************)
(* What bpack writes for an item bunpack reads back, for every value and   *)
(* for bytes, integers and doubles of any size.                            *)
(*                                                                         *)
(* The operators of Bpack that run through bytes are recursive functions.  *)
(* Induction is over sets of numbers: a set that has 0 and with each       *)
(* number the next is Nat.                                                 *)
(***************************************************************************)
EXTENDS Bpack, SequenceTheorems, WellFoundedInduction, TLAPS

LEMMA Induction ==
    ASSUME NEW S \in SUBSET Nat, 0 \in S, \A n \in S : n + 1 \in S
    PROVE  S = Nat
<1> SUFFICES ASSUME S # Nat PROVE FALSE
  OBVIOUS
<1> DEFINE R == {ij \in Nat \X Nat : ij[1] < ij[2]}
<1>1. \A i, j \in Nat : <<i, j>> \in R <=> i < j
  OBVIOUS
<1>2. IsWellFoundedOn(R, Nat)
  BY NatLessThanWellFounded DEF OpToRel
<1> HIDE DEF R
<1>3. PICK n \in Nat \ S : \A m \in Nat \ S : <<m, n>> \notin R
  BY <1>2, WFMin
<1>4. n # 0 /\ n - 1 \in Nat /\ n - 1 < n /\ (n - 1) + 1 = n
  OBVIOUS
<1>5. n - 1 \in S
  BY <1>1, <1>3, <1>4
<1> QED
  BY <1>4, <1>5

\* A sequence of values, each given by its number and the one before.
Recurses(f, S, first, next) ==
    f \in [Nat -> S] /\ f[0] = first /\ \A n \in Nat : f[n + 1] = next[n][f[n]]

\* There is one for every first value and every function to the next.
LEMMA Recursion ==
    ASSUME NEW S, NEW first \in S, NEW next \in [Nat -> [S -> S]]
    PROVE  \E f : Recurses(f, S, first, next)
<1> DEFINE Upto(n, g) ==
        g \in [0 .. n -> S] /\ g[0] = first /\ \A i \in 0 .. n - 1 : g[i + 1] = next[i][g[i]]
           Done == {n \in Nat : \E g : Upto(n, g)}
<1>1. 0 \in Done
  <2>1. Upto(0, [i \in 0 .. 0 |-> first])
    OBVIOUS
  <2> QED
    BY <2>1
<1>2. ASSUME NEW n \in Done PROVE n + 1 \in Done
  <2>1. PICK g : Upto(n, g)
    OBVIOUS
  <2> DEFINE h == [i \in 0 .. n + 1 |-> IF i <= n THEN g[i] ELSE next[n][g[n]]]
  <2>2. n \in Nat /\ g[n] \in S /\ next[n][g[n]] \in S
    BY <2>1
  <2>3. h \in [0 .. n + 1 -> S]
    BY <2>1, <2>2
  <2>4. h[0] = first
    BY <2>1, <2>2
  <2>5. ASSUME NEW i \in 0 .. n PROVE h[i + 1] = next[i][h[i]]
    <3>1. CASE i = n
      <4>1. h[n] = g[n] /\ h[n + 1] = next[n][g[n]]
        BY <2>2
      <4> QED
        BY <3>1, <4>1
    <3>2. CASE i < n
      BY <2>1, <2>2, <3>2
    <3> QED
      BY <2>2, <3>1, <3>2
  <2>6. (n + 1) - 1 = n
    BY <2>2
  <2>7. Upto(n + 1, h)
    BY <2>3, <2>4, <2>5, <2>6
  <2>8. \E g1 : Upto(n + 1, g1)
    <3> HIDE DEF h
    <3> QED
      BY <2>7
  <2>9. n + 1 \in Nat
    BY <2>2
  <2> QED
    BY <2>8, <2>9
<1>3. Done = Nat
  <2> HIDE DEF Done
  <2>1. Done \in SUBSET Nat
    BY DEF Done
  <2> QED
    BY <1>1, <1>2, <2>1, Induction
<1> DEFINE G == [n \in Nat |-> CHOOSE g : Upto(n, g)]
<1>4. ASSUME NEW n \in Nat PROVE Upto(n, G[n])
  BY <1>3
<1> HIDE DEF G
<1>5. ASSUME NEW n \in Nat PROVE G[n + 1][n] = G[n][n]
  <2> DEFINE Same == {i \in Nat : i <= n => G[n + 1][i] = G[n][i]}
  <2>1. 0 \in Same
    BY <1>4
  <2>2. ASSUME NEW i \in Same PROVE i + 1 \in Same
    <3> SUFFICES ASSUME i + 1 <= n PROVE G[n + 1][i + 1] = G[n][i + 1]
      OBVIOUS
    <3>1. i \in 0 .. n - 1 /\ i \in 0 .. (n + 1) - 1
      OBVIOUS
    <3>2. G[n + 1][i + 1] = next[i][G[n + 1][i]]
      BY <1>4, <3>1
    <3>3. G[n][i + 1] = next[i][G[n][i]]
      BY <1>4, <3>1
    <3> QED
      BY <3>1, <3>2, <3>3
  <2>3. Same = Nat
    <3>1. Same \in SUBSET Nat
      OBVIOUS
    <3> HIDE DEF Same
    <3> QED
      BY <2>1, <2>2, <3>1, Induction
  <2> QED
    BY <2>3
<1> DEFINE f == [n \in Nat |-> G[n][n]]
<1>6. f \in [Nat -> S]
  BY <1>4
<1>7. f[0] = first
  BY <1>4
<1>8. ASSUME NEW n \in Nat PROVE f[n + 1] = next[n][f[n]]
  <2>1. G[n + 1][n + 1] = next[n][G[n + 1][n]]
    BY <1>4
  <2> QED
    BY <1>5, <2>1
<1>9. Recurses(f, S, first, next)
  BY <1>6, <1>7, <1>8 DEF Recurses
<1> HIDE DEF f
<1> QED
  BY <1>9

----------------------------------------------------------------------------
(* Powers. *)

LEMMA PowerDef ==
    ASSUME NEW b \in Int
    PROVE  /\ Power(b, 0) = 1
           /\ \A n \in Nat : Power(b, n) \in Int /\ Power(b, n + 1) = b * Power(b, n)
<1> DEFINE Is(g) == g = [i \in Nat |-> IF i = 0 THEN 1 ELSE b * g[i - 1]]
           to == CHOOSE g : Is(g)
           next == [i \in Nat |-> [v \in Int |-> b * v]]
<1>1. \A n \in Nat : Power(b, n) = to[n]
  BY DEF Power
<1>2. PICK f : Recurses(f, Int, 1, next)
  <2>1. next \in [Nat -> [Int -> Int]]
    OBVIOUS
  <2>2. 1 \in Int
    OBVIOUS
  <2> HIDE DEF next
  <2> QED
    BY <2>1, <2>2, Recursion, Zenon
<1>3. ASSUME NEW n \in Nat PROVE f[n + 1] = b * f[n]
  BY <1>2 DEF Recurses
<1>4. Is(f)
  <2>1. ASSUME NEW i \in Nat PROVE f[i] = IF i = 0 THEN 1 ELSE b * f[i - 1]
    <3>1. CASE i = 0
      BY <1>2, <3>1 DEF Recurses
    <3>2. CASE i # 0
      <4>1. i - 1 \in Nat /\ (i - 1) + 1 = i
        BY <3>2
      <4> QED
        BY <1>3, <3>2, <4>1
    <3> QED
      BY <3>1, <3>2
  <2> QED
    BY <1>2, <2>1 DEF Recurses
<1>5. Is(to)
  <2> HIDE DEF Is
  <2> QED
    BY <1>4
<1> HIDE DEF to
<1>6. to[0] = 1 /\ \A n \in Nat : to[n + 1] = b * to[n]
  <2>1. ASSUME NEW n \in Nat PROVE to[n + 1] = b * to[n]
    <3>1. n + 1 \in Nat /\ n + 1 # 0 /\ (n + 1) - 1 = n
      OBVIOUS
    <3> QED
      BY <1>5, <3>1
  <2> QED
    BY <1>5, <2>1
<1>7. \A n \in Nat : to[n] \in Int
  <2> DEFINE N == {n \in Nat : to[n] \in Int}
  <2>1. 0 \in N
    BY <1>6
  <2>2. ASSUME NEW n \in N PROVE n + 1 \in N
    BY <1>6
  <2>3. N \in SUBSET Nat
    OBVIOUS
  <2> HIDE DEF N
  <2>4. N = Nat
    BY <2>1, <2>2, <2>3, Induction
  <2> QED
    BY <2>4 DEF N
<1> QED
  BY <1>1, <1>6, <1>7

LEMMA PowerPositive ==
    ASSUME NEW b \in Nat \ {0}, NEW n \in Nat
    PROVE  Power(b, n) \in Nat \ {0}
<1> DEFINE N == {i \in Nat : Power(b, i) \in Nat \ {0}}
<1> b \in Int
  OBVIOUS
<1>1. 0 \in N
  <2>1. Power(b, 0) = 1
    BY PowerDef
  <2> QED
    BY <2>1
<1>2. ASSUME NEW i \in N PROVE i + 1 \in N
  <2>1. Power(b, i + 1) = b * Power(b, i) /\ Power(b, i) \in Nat \ {0}
    BY PowerDef
  <2> QED
    BY <2>1
<1>3. N \in SUBSET Nat
  OBVIOUS
<1> HIDE DEF N
<1>4. N = Nat
  BY <1>1, <1>2, <1>3, Induction
<1> QED
  BY <1>4 DEF N

LEMMA BasePower ==
    ASSUME NEW n \in Nat
    PROVE  Power(Base, n) \in Nat \ {0}
<1>1. Base \in Nat \ {0}
  BY SizesAssumption
<1> QED
  BY <1>1, PowerPositive

LEMMA PowerStep ==
    ASSUME NEW i \in Nat \ {0}
    PROVE  /\ Power(Base, i) = Base * Power(Base, i - 1)
           /\ Power(Base, i - 1) \in Nat \ {0} /\ Power(Base, i) \in Nat \ {0}
<1>1. Base \in Nat \ {0} /\ Base \in Int /\ i - 1 \in Nat /\ (i - 1) + 1 = i
  BY SizesAssumption
<1> QED
  BY <1>1, PowerDef, PowerPositive

----------------------------------------------------------------------------
(* Quotients and remainders. *)

LEMMA Euclid ==
    ASSUME NEW a \in Int, NEW b \in Nat \ {0}
    PROVE  /\ a \div b \in Int /\ a % b \in 0 .. b - 1
           /\ a = b * (a \div b) + (a % b)
<1>1. a \div b \in Int
  OBVIOUS
<1>2. a % b \in 0 .. b - 1
  OBVIOUS
<1>3. a = b * (a \div b) + (a % b)
  OBVIOUS
<1> QED
  BY <1>1, <1>2, <1>3

LEMMA EuclidUnique ==
    ASSUME NEW b \in Nat \ {0}, NEW q \in Int, NEW r \in 0 .. b - 1
    PROVE  (b * q + r) \div b = q /\ (b * q + r) % b = r
  OBVIOUS

\* One more byte.
LEMMA EuclidTwice ==
    ASSUME NEW u \in Int, NEW p \in Nat \ {0}, NEW b \in Nat \ {0}
    PROVE  /\ u % (b * p) = (u % p) + p * ((u \div p) % b)
           /\ (u % (b * p)) % p = u % p
<1> DEFINE q == u \div p
           r == u % p
           q2 == q \div b
           d == q % b
<1>1. u = p * q + r /\ q \in Int /\ r \in 0 .. p - 1
  BY Euclid
<1>2. q = b * q2 + d /\ q2 \in Int /\ d \in 0 .. b - 1
  BY <1>1, Euclid
<1> HIDE DEF q, r, q2, d
<1>3. b * p \in Nat \ {0}
  OBVIOUS
<1>4. u = (b * p) * q2 + (p * d + r)
  BY <1>1, <1>2
<1>5. p * d + r \in 0 .. b * p - 1
  BY <1>1, <1>2
<1>6. u % (b * p) = p * d + r
  BY <1>2, <1>3, <1>4, <1>5, EuclidUnique
<1>7. (p * d + r) % p = r
  BY <1>1, <1>2, EuclidUnique
<1> QED
  BY <1>1, <1>2, <1>6, <1>7 DEF q, r, d

----------------------------------------------------------------------------
(* Integers. *)

LEMMA OrderProperties ==
    ASSUME NEW bytes \in Seq(Byte), NEW little \in BOOLEAN
    PROVE  /\ ByteOrder(bytes, little) \in Seq(Byte)
           /\ Len(ByteOrder(bytes, little)) = Len(bytes)
           /\ ByteOrder(ByteOrder(bytes, little), little) = bytes
<1>1. \A s \in Seq(Byte) : Reverse(s) \in Seq(Byte) /\ Len(Reverse(s)) = Len(s)
  BY DEF Reverse
<1>2. ASSUME NEW i \in 1 .. Len(bytes) PROVE Reverse(Reverse(bytes))[i] = bytes[i]
  <2>1. Len(bytes) - i + 1 \in 1 .. Len(bytes) /\ Len(bytes) - (Len(bytes) - i + 1) + 1 = i
    OBVIOUS
  <2> QED
    BY <1>1, <2>1 DEF Reverse
<1>3. Reverse(Reverse(bytes)) \in Seq(Byte) /\ Len(Reverse(Reverse(bytes))) = Len(bytes)
  BY <1>1
<1>4. Reverse(Reverse(bytes)) = bytes
  BY <1>2, <1>3, SeqEqual
<1> QED
  BY <1>1, <1>4 DEF ByteOrder

LEMMA EncodeType ==
    ASSUME NEW v \in Int, NEW n \in Nat, NEW little \in BOOLEAN
    PROVE  /\ IntToBytes(v, n, little) \in Seq(Byte)
           /\ Len(IntToBytes(v, n, little)) = n
<1> DEFINE digits == [i \in 1 .. n |-> ((v % Power(Base, n)) \div Power(Base, i - 1)) % Base]
<1>0. Base \in Nat \ {0}
  BY SizesAssumption
<1>1. Power(Base, n) \in Nat \ {0}
  BY <1>0, PowerPositive
<1>2. ASSUME NEW i \in 1 .. n
      PROVE  ((v % Power(Base, n)) \div Power(Base, i - 1)) % Base \in Byte
  <2>1. Power(Base, i - 1) \in Nat \ {0}
    BY <1>0, PowerPositive
  <2>2. v % Power(Base, n) \in Int
    BY <1>1, Euclid
  <2>3. (v % Power(Base, n)) \div Power(Base, i - 1) \in Int
    BY <2>1, <2>2, Euclid
  <2> QED
    BY <1>0, <2>3, Euclid DEF Byte
<1>3. digits \in Seq(Byte) /\ Len(digits) = n
  BY <1>2
<1> QED
  BY <1>3, OrderProperties DEF IntToBytes

\* The sum that a number's bytes are, from the lowest one.
Sums(sum, host) ==
    /\ sum[0] = 0
    /\ \A i \in 1 .. Len(host) : sum[i] = sum[i - 1] + host[i] * Power(Base, i - 1)

LEMMA DecodeIsSum ==
    ASSUME NEW bytes \in Seq(Byte), NEW little \in BOOLEAN
    PROVE  \E sum : /\ Sums(sum, ByteOrder(bytes, little))
                    /\ BytesToUnsigned(bytes, little) = sum[Len(bytes)]
<1> DEFINE host == ByteOrder(bytes, little)
           n == Len(bytes)
           Is(g) == g = [i \in 0 .. n |->
                            IF i = 0 THEN 0 ELSE g[i - 1] + host[i] * Power(Base, i - 1)]
           sum == CHOOSE g : Is(g)
           next == [i \in Nat |->
                        [v \in Int |-> IF i < n THEN v + host[i + 1] * Power(Base, i) ELSE v]]
<1>1. BytesToUnsigned(bytes, little) = sum[n]
  BY DEF BytesToUnsigned
<1>2. n \in Nat /\ host \in Seq(Byte) /\ Len(host) = n
  BY OrderProperties
<1> HIDE DEF host, n
<1>3. \A i \in 1 .. n : host[i] \in Int /\ Power(Base, i - 1) \in Int
  <2>1. ASSUME NEW i \in 1 .. n PROVE host[i] \in Int
    BY <1>2, SizesAssumption DEF Byte
  <2>2. ASSUME NEW i \in 1 .. n PROVE Power(Base, i - 1) \in Int
    BY <1>2, PowerStep
  <2> QED
    BY <2>1, <2>2
<1>4. PICK f : Recurses(f, Int, 0, next)
  <2>1. next \in [Nat -> [Int -> Int]]
    <3>1. ASSUME NEW i \in Nat, NEW v \in Int, i < n
          PROVE  v + host[i + 1] * Power(Base, i) \in Int
      <4>1. i + 1 \in 1 .. n /\ (i + 1) - 1 = i
        BY <1>2, <3>1
      <4> QED
        BY <1>3, <4>1
    <3> QED
      BY <3>1
  <2>2. 0 \in Int
    OBVIOUS
  <2> HIDE DEF next
  <2> QED
    BY <2>1, <2>2, Recursion, Zenon
<1> DEFINE g == [i \in 0 .. n |-> f[i]]
<1>5. Is(g)
  <2>1. ASSUME NEW i \in 0 .. n
        PROVE  g[i] = IF i = 0 THEN 0 ELSE g[i - 1] + host[i] * Power(Base, i - 1)
    <3>1. CASE i = 0
      BY <1>4, <3>1 DEF Recurses
    <3>2. CASE i # 0
      <4>1. i - 1 \in Nat /\ (i - 1) + 1 = i /\ i - 1 < n /\ i - 1 \in 0 .. n
        BY <1>2, <3>2
      <4>2. f[(i - 1) + 1] = next[i - 1][f[i - 1]] /\ f[i - 1] \in Int
        BY <1>4, <4>1 DEF Recurses
      <4>3. next[i - 1][f[i - 1]] = f[i - 1] + host[i] * Power(Base, i - 1)
        BY <4>1, <4>2
      <4> QED
        BY <3>2, <4>1, <4>2, <4>3
    <3> QED
      BY <1>4, <3>1, <3>2
  <2> QED
    BY <2>1
<1>6. Is(sum)
  <2> HIDE DEF Is, g
  <2> QED
    BY <1>5
<1> HIDE DEF sum
<1>7. sum[0] = 0
  BY <1>2, <1>6
<1>8. ASSUME NEW i \in 1 .. n PROVE sum[i] = sum[i - 1] + host[i] * Power(Base, i - 1)
  <2>1. i \in 0 .. n /\ i # 0
    OBVIOUS
  <2> QED
    BY <1>6, <2>1
<1>9. Sums(sum, host)
  BY <1>2, <1>7, <1>8 DEF Sums
<1> QED
  BY <1>1, <1>9 DEF host, n

\* Up to a number.
LEMMA BoundedInduction ==
    ASSUME NEW n \in Nat, NEW S, 0 \in S, \A i \in 0 .. n - 1 : i \in S => i + 1 \in S
    PROVE  0 .. n \subseteq S
<1> DEFINE N == {i \in Nat : i <= n => i \in S}
<1>1. 0 \in N
  OBVIOUS
<1>2. ASSUME NEW i \in N PROVE i + 1 \in N
  <2>1. CASE i + 1 <= n
    <3>1. i \in 0 .. n - 1 /\ i \in S
      BY <2>1
    <3> QED
      BY <3>1
  <2>2. CASE ~(i + 1 <= n)
    BY <2>2
  <2> QED
    BY <2>1, <2>2
<1>3. N \in SUBSET Nat
  OBVIOUS
<1> HIDE DEF N
<1>4. N = Nat
  BY <1>1, <1>2, <1>3, Induction
<1> QED
  BY <1>4 DEF N

\* i bytes are a number below the i-th power of Base.
LEMMA SumBounds ==
    ASSUME NEW host \in Seq(Byte), NEW sum, Sums(sum, host)
    PROVE  \A i \in 0 .. Len(host) : sum[i] \in 0 .. Power(Base, i) - 1
<1> DEFINE n == Len(host)
           S == {i \in 0 .. n : sum[i] \in 0 .. Power(Base, i) - 1}
<1>1. n \in Nat
  OBVIOUS
<1>2. 0 \in S
  <2>1. Power(Base, 0) = 1 /\ sum[0] = 0
    BY SizesAssumption, PowerDef DEF Sums
  <2> QED
    BY <1>1, <2>1
<1>3. ASSUME NEW i \in 0 .. n - 1, i \in S PROVE i + 1 \in S
  <2>1. i + 1 \in 1 .. n /\ i + 1 \in 0 .. n /\ i + 1 \in Nat \ {0} /\ (i + 1) - 1 = i
    BY <1>1
  <2>2. sum[i + 1] = sum[i] + host[i + 1] * Power(Base, i)
    BY <2>1 DEF Sums
  <2>3. Power(Base, i + 1) = Base * Power(Base, i) /\ Power(Base, i) \in Nat \ {0}
    BY <2>1, PowerStep
  <2>4. host[i + 1] \in 0 .. Base - 1 /\ Base \in Nat /\ sum[i] \in 0 .. Power(Base, i) - 1
    BY <1>3, <2>1, SizesAssumption DEF Byte
  <2>5. ASSUME NEW p \in Nat \ {0}, NEW b \in Nat, NEW h \in 0 .. b - 1, NEW x \in 0 .. p - 1
        PROVE  x + h * p \in 0 .. b * p - 1
    <3>1. h * p \in Nat /\ h * p <= (b - 1) * p /\ (b - 1) * p = b * p - p
      OBVIOUS
    <3> QED
      BY <3>1
  <2>6. sum[i] + host[i + 1] * Power(Base, i) \in 0 .. Base * Power(Base, i) - 1
    BY <2>3, <2>4, <2>5
  <2> QED
    BY <2>1, <2>2, <2>3, <2>6
<1> HIDE DEF S
<1>4. 0 .. n \subseteq S
  BY <1>1, <1>2, <1>3, BoundedInduction
<1> QED
  BY <1>4 DEF S

\* The sum of a number's bytes is the number.
LEMMA SumOfBytes ==
    ASSUME NEW host \in Seq(Byte), NEW sum, Sums(sum, host), NEW u \in Int,
           \A i \in 1 .. Len(host) : host[i] = (u \div Power(Base, i - 1)) % Base
    PROVE  sum[Len(host)] = u % Power(Base, Len(host))
<1> DEFINE n == Len(host)
           S == {i \in 0 .. n : sum[i] = u % Power(Base, i)}
<1>1. n \in Nat
  OBVIOUS
<1>2. 0 \in S
  <2>1. Power(Base, 0) = 1 /\ sum[0] = 0
    BY SizesAssumption, PowerDef DEF Sums
  <2>2. u % 1 = 0
    OBVIOUS
  <2> QED
    BY <1>1, <2>1, <2>2
<1>3. ASSUME NEW i \in 0 .. n - 1, i \in S PROVE i + 1 \in S
  <2>1. i + 1 \in 1 .. n /\ i + 1 \in 0 .. n /\ i + 1 \in Nat \ {0} /\ (i + 1) - 1 = i
    BY <1>1
  <2>2. sum[i + 1] = sum[i] + host[i + 1] * Power(Base, i)
    BY <2>1 DEF Sums
  <2>3. Power(Base, i + 1) = Base * Power(Base, i) /\ Power(Base, i) \in Nat \ {0}
    BY <2>1, PowerStep
  <2>4. host[i + 1] = (u \div Power(Base, i)) % Base
    BY <2>1
  <2>5. u % (Base * Power(Base, i)) = (u % Power(Base, i)) + Power(Base, i) * host[i + 1]
    <3>1. Base \in Nat \ {0} /\ u \in Int
      BY SizesAssumption
    <3>2. u % (Base * Power(Base, i))
            = (u % Power(Base, i)) + Power(Base, i) * ((u \div Power(Base, i)) % Base)
      BY <2>3, <3>1, EuclidTwice
    <3> QED
      BY <2>4, <3>2
  <2>6. host[i + 1] \in Int /\ sum[i] = u % Power(Base, i)
    BY <1>3, <2>1, SizesAssumption DEF Byte
  <2>7. Power(Base, i) * host[i + 1] = host[i + 1] * Power(Base, i)
    BY <2>3, <2>6
  <2> QED
    BY <2>1, <2>2, <2>3, <2>5, <2>6, <2>7
<1> HIDE DEF S
<1>4. 0 .. n \subseteq S
  BY <1>1, <1>2, <1>3, BoundedInduction
<1> QED
  BY <1>1, <1>4 DEF S

\* The bytes of the sum are the bytes that were added.
LEMMA BytesOfSum ==
    ASSUME NEW host \in Seq(Byte), NEW sum, Sums(sum, host)
    PROVE  \A i \in 1 .. Len(host) :
                host[i] = (sum[Len(host)] \div Power(Base, i - 1)) % Base
<1> DEFINE n == Len(host)
           u == sum[n]
           S == {k \in 0 .. n : u % Power(Base, n - k) = sum[n - k]}
<1>1. n \in Nat /\ u \in 0 .. Power(Base, n) - 1
  BY SumBounds
<1>2. ASSUME NEW i \in 0 .. n
      PROVE  Power(Base, i) \in Nat \ {0} /\ sum[i] \in 0 .. Power(Base, i) - 1
  BY <1>1, SumBounds, PowerPositive, SizesAssumption
<1>3. 0 \in S
  <2>1. Power(Base, n) \in Nat \ {0}
    BY <1>1, <1>2
  <2>2. u % Power(Base, n) = u
    BY <1>1, <2>1
  <2> QED
    BY <1>1, <2>2
<1>4. ASSUME NEW i \in 1 .. n
      PROVE  /\ Power(Base, i) = Base * Power(Base, i - 1)
             /\ Power(Base, i - 1) \in Nat \ {0} /\ i - 1 \in 0 .. n
             /\ sum[i] = sum[i - 1] + host[i] * Power(Base, i - 1)
             /\ host[i] \in Int
             /\ (u % Power(Base, i)) % Power(Base, i - 1) = u % Power(Base, i - 1)
             /\ u % Power(Base, i) = (u % Power(Base, i - 1))
                    + Power(Base, i - 1) * ((u \div Power(Base, i - 1)) % Base)
  <2>1. i \in Nat \ {0} /\ i - 1 \in 0 .. n
    BY <1>1
  <2>2. Power(Base, i) = Base * Power(Base, i - 1) /\ Power(Base, i - 1) \in Nat \ {0}
    BY <2>1, PowerStep
  <2>3. host[i] \in Int
    BY <1>1, SizesAssumption DEF Byte
  <2>4. Base \in Nat \ {0} /\ u \in Int
    BY <1>1, <1>2, SizesAssumption
  <2> HIDE DEF u
  <2>5. /\ u % (Base * Power(Base, i - 1)) = (u % Power(Base, i - 1))
                + Power(Base, i - 1) * ((u \div Power(Base, i - 1)) % Base)
        /\ (u % (Base * Power(Base, i - 1))) % Power(Base, i - 1) = u % Power(Base, i - 1)
    BY <2>2, <2>4, EuclidTwice
  <2> QED
    BY <2>1, <2>2, <2>3, <2>5 DEF Sums
<1>5. ASSUME NEW k \in 0 .. n - 1, k \in S PROVE k + 1 \in S
  <2> DEFINE i == n - k
  <2>1. i \in 1 .. n /\ n - (k + 1) = i - 1 /\ k + 1 \in 0 .. n /\ i \in 0 .. n
    BY <1>1
  <2>2. u % Power(Base, i) = sum[i]
    BY <1>5
  <2> HIDE DEF i, u
  <2>3. (sum[i - 1] + host[i] * Power(Base, i - 1)) % Power(Base, i - 1) = sum[i - 1]
    <3>1. i - 1 \in 0 .. n /\ host[i] \in Int
      BY <1>4, <2>1
    <3>2. Power(Base, i - 1) \in Nat \ {0} /\ sum[i - 1] \in 0 .. Power(Base, i - 1) - 1
      BY <1>2, <3>1
    <3>3. sum[i - 1] + host[i] * Power(Base, i - 1) = Power(Base, i - 1) * host[i] + sum[i - 1]
      BY <3>1, <3>2
    <3> QED
      BY <3>1, <3>2, <3>3, EuclidUnique
  <2>4. u % Power(Base, i - 1) = sum[i - 1]
    BY <1>4, <2>1, <2>2, <2>3
  <2> QED
    BY <2>1, <2>4 DEF u
<1>6. 0 .. n \subseteq S
  <2> HIDE DEF S
  <2> QED
    BY <1>1, <1>3, <1>5, BoundedInduction
<1>7. ASSUME NEW i \in 0 .. n PROVE u % Power(Base, i) = sum[i]
  <2>1. n - i \in 0 .. n /\ n - (n - i) = i
    BY <1>1
  <2>2. n - i \in S
    <3> HIDE DEF S
    <3> QED
      BY <1>6, <2>1
  <2> QED
    BY <2>1, <2>2
<1>8. ASSUME NEW i \in 1 .. n PROVE host[i] = (u \div Power(Base, i - 1)) % Base
  <2> DEFINE p == Power(Base, i - 1)
             d == (u \div p) % Base
  <2>1. i - 1 \in 0 .. n /\ i \in 0 .. n /\ p \in Nat \ {0} /\ host[i] \in Int
    BY <1>1, <1>4
  <2>2. sum[i - 1] \in Int
    BY <1>2, <2>1
  <2>3. sum[i] = sum[i - 1] + p * d /\ sum[i] = sum[i - 1] + host[i] * p
    BY <1>4, <1>7, <2>1
  <2>4. d \in Int
    <3>1. u \in Int /\ Base \in Nat \ {0}
      BY <1>1, <1>2, SizesAssumption
    <3> HIDE DEF u, p
    <3>2. u \div p \in Int
      BY <2>1, <3>1
    <3> QED
      BY <3>1, <3>2
  <2> HIDE DEF d, p, u
  <2>5. p * d = host[i] * p
    <3>1. p * d \in Int /\ host[i] * p \in Int
      BY <2>1, <2>4
    <3> QED
      BY <2>2, <2>3, <3>1
  <2>6. d = host[i]
    BY <2>1, <2>4, <2>5
  <2> QED
    BY <2>6 DEF d, p
<1> QED
  BY <1>8

LEMMA DecodeEncode ==
    ASSUME NEW v \in Int, NEW n \in Nat, NEW little \in BOOLEAN
    PROVE  BytesToUnsigned(IntToBytes(v, n, little), little) = v % Power(Base, n)
<1> DEFINE bytes == IntToBytes(v, n, little)
           host == ByteOrder(bytes, little)
           u == v % Power(Base, n)
           digits == [i \in 1 .. n |-> (u \div Power(Base, i - 1)) % Base]
<1>1. bytes \in Seq(Byte) /\ Len(bytes) = n
  BY EncodeType
<1>2. Power(Base, n) \in Nat \ {0} /\ u \in 0 .. Power(Base, n) - 1 /\ u \in Int
  <2>1. Power(Base, n) \in Nat \ {0}
    BY BasePower
  <2> QED
    BY <2>1, Euclid
<1>3. host = digits
  <2>1. bytes = ByteOrder(digits, little)
    BY DEF IntToBytes
  <2>2. \A s : Len(s) \in Nat /\ s = [i \in 1 .. Len(s) |-> s[i]] => Reverse(Reverse(s)) = s
    <3> SUFFICES ASSUME NEW s, Len(s) \in Nat, s = [i \in 1 .. Len(s) |-> s[i]]
                 PROVE  Reverse(Reverse(s)) = s
      OBVIOUS
    <3>1. Reverse(s) = [i \in 1 .. Len(s) |-> s[(Len(s) - i) + 1]] /\ Len(Reverse(s)) = Len(s)
      BY DEF Reverse
    <3>2. Reverse(Reverse(s)) = [i \in 1 .. Len(s) |-> Reverse(s)[(Len(s) - i) + 1]]
      BY <3>1 DEF Reverse
    <3>3. ASSUME NEW i \in 1 .. Len(s) PROVE Reverse(s)[(Len(s) - i) + 1] = s[i]
      <4>1. (Len(s) - i) + 1 \in 1 .. Len(s) /\ (Len(s) - ((Len(s) - i) + 1)) + 1 = i
        OBVIOUS
      <4> QED
        BY <3>1, <4>1
    <3> HIDE DEF Reverse
    <3> QED
      BY <3>2, <3>3
  <2>3. Len(digits) = n /\ digits = [i \in 1 .. n |-> digits[i]]
    OBVIOUS
  <2> HIDE DEF digits
  <2> QED
    BY <2>1, <2>2, <2>3 DEF ByteOrder
<1>4. host \in Seq(Byte) /\ Len(host) = n
  BY <1>1, OrderProperties
<1>5. PICK sum : Sums(sum, host) /\ BytesToUnsigned(bytes, little) = sum[n]
  BY <1>1, DecodeIsSum
<1>6. \A i \in 1 .. n : host[i] = (u \div Power(Base, i - 1)) % Base
  BY <1>3
<1> HIDE DEF bytes, host, u
<1>7. sum[n] = u % Power(Base, n)
  BY <1>2, <1>4, <1>5, <1>6, SumOfBytes
<1>8. u % Power(Base, n) = u
  BY <1>2
<1> QED
  BY <1>5, <1>7, <1>8 DEF bytes, u

LEMMA EncodeDecode ==
    ASSUME NEW bytes \in Seq(Byte), NEW little \in BOOLEAN
    PROVE  /\ BytesToUnsigned(bytes, little) \in 0 .. Power(Base, Len(bytes)) - 1
           /\ \A v \in Int :
                v % Power(Base, Len(bytes)) = BytesToUnsigned(bytes, little)
                    => IntToBytes(v, Len(bytes), little) = bytes
<1> DEFINE host == ByteOrder(bytes, little)
           n == Len(bytes)
<1>1. n \in Nat /\ host \in Seq(Byte) /\ Len(host) = n
  BY OrderProperties
<1>2. PICK sum : Sums(sum, host) /\ BytesToUnsigned(bytes, little) = sum[n]
  BY DecodeIsSum
<1>3. sum[n] \in 0 .. Power(Base, n) - 1
  BY <1>1, <1>2, SumBounds
<1>4. ASSUME NEW v \in Int, v % Power(Base, n) = sum[n]
      PROVE  IntToBytes(v, n, little) = bytes
  <2> DEFINE digits == [i \in 1 .. n |-> ((v % Power(Base, n)) \div Power(Base, i - 1)) % Base]
  <2>1. \A i \in 1 .. n : host[i] = (sum[n] \div Power(Base, i - 1)) % Base
    BY <1>1, <1>2, BytesOfSum
  <2>2. \A i \in 1 .. n : digits[i] = host[i]
    BY <1>4, <2>1
  <2>3. host = [i \in 1 .. n |-> host[i]]
    BY <1>1
  <2>4. digits = host
    BY <2>2, <2>3
  <2>5. IntToBytes(v, n, little) = ByteOrder(digits, little)
    BY DEF IntToBytes
  <2> HIDE DEF digits
  <2> QED
    BY <2>4, <2>5, OrderProperties
<1> QED
  BY <1>2, <1>3, <1>4

LEMMA SignedDecode ==
    ASSUME NEW n \in Nat, NEW v \in Signed(n), NEW little \in BOOLEAN
    PROVE  BytesToInt(IntToBytes(v, n, little), little) = v
<1> DEFINE p == Power(Base, n)
           u == v % p
<1>1. p \in Nat \ {0}
  BY BasePower
<1>2. v \in Int /\ v \in -(p \div 2) .. (p \div 2) - 1
  <2>1. v \in -(p \div 2) .. (p \div 2) - 1
    BY DEF Signed
  <2>2. p \div 2 \in Int
    BY <1>1
  <2> QED
    BY <2>1, <2>2
<1>3. /\ BytesToUnsigned(IntToBytes(v, n, little), little) = u
      /\ Len(IntToBytes(v, n, little)) = n
  BY <1>2, DecodeEncode, EncodeType
<1>4. u = IF v < 0 THEN v + p ELSE v
  <2> HIDE DEF p
  <2>1. CASE v >= 0
    <3>1. v \in 0 .. p - 1
      BY <1>1, <1>2, <2>1
    <3> QED
      BY <1>1, <1>2, <2>1, <3>1
  <2>2. CASE v < 0
    <3>1. v + p \in 0 .. p - 1 /\ v = p * (-1) + (v + p)
      BY <1>1, <1>2, <2>2
    <3>2. (p * (-1) + (v + p)) % p = v + p
      <4> DEFINE r == v + p
                 q == -1
      <4>1. r \in 0 .. p - 1 /\ q \in Int
        BY <3>1
      <4> HIDE DEF r, q
      <4>2. (p * q + r) % p = r
        BY <1>1, <4>1, EuclidUnique
      <4> QED
        BY <4>2 DEF r, q
    <3> QED
      BY <2>2, <3>1, <3>2
  <2> QED
    BY <1>2, <2>1, <2>2
<1>5. BytesToInt(IntToBytes(v, n, little), little) = IF 2 * u < p THEN u ELSE u - p
  BY <1>3 DEF BytesToInt
<1> HIDE DEF p, u
<1> QED
  BY <1>1, <1>2, <1>4, <1>5

LEMMA SignedEncode ==
    ASSUME NEW bytes \in Seq(Byte), NEW little \in BOOLEAN
    PROVE  /\ BytesToInt(bytes, little) \in Int
           /\ IntToBytes(BytesToInt(bytes, little), Len(bytes), little) = bytes
<1> DEFINE p == Power(Base, Len(bytes))
           u == BytesToUnsigned(bytes, little)
           v == BytesToInt(bytes, little)
<1>1. p \in Nat \ {0}
  BY BasePower
<1>2. u \in 0 .. p - 1 /\ v = IF 2 * u < p THEN u ELSE u - p
  BY EncodeDecode DEF BytesToInt
<1>3. v \in Int /\ v % p = u
  <2> HIDE DEF p, u, v
  <2>1. CASE v = u
    BY <1>1, <1>2, <2>1
  <2>2. CASE v = u - p
    <3>1. u - p = p * (-1) + u
      BY <1>1, <1>2
    <3>2. (p * (-1) + u) % p = u
      BY <1>1, <1>2, EuclidUnique
    <3> QED
      BY <1>1, <1>2, <2>2, <3>1, <3>2
  <2> QED
    BY <1>2, <2>1, <2>2
<1> QED
  BY <1>3, EncodeDecode

----------------------------------------------------------------------------
(* The buffer. *)

Buffer == [bytes : Seq(Byte), position : Nat]

LEMMA ConcatAppend ==
    ASSUME NEW S, NEW s \in Seq(S), NEW t \in Seq(S), NEW e \in S
    PROVE  s \o Append(t, e) = Append(s \o t, e)
  OBVIOUS

LEMMA WriteAtEnd ==
    ASSUME NEW ds \in Buffer, ds.position = Len(ds.bytes), NEW bytes \in Seq(Byte)
    PROVE  WriteBytes(ds, bytes) =
                [bytes |-> ds.bytes \o bytes, position |-> ds.position + Len(bytes)]
<1> DEFINE n == Len(bytes)
           Is(g) == g = [i \in 0 .. n |->
                            IF i = 0 THEN ds ELSE WriteByte(g[i - 1], bytes[i])]
           after == CHOOSE g : Is(g)
           At(i) == [bytes |-> ds.bytes \o SubSeq(bytes, 1, i), position |-> ds.position + i]
           g == [i \in 0 .. n |-> At(i)]
<1>1. WriteBytes(ds, bytes) = after[n]
  BY DEF WriteBytes
<1>2. n \in Nat /\ ds.bytes \in Seq(Byte) /\ ds.position \in Nat
      /\ ds = [bytes |-> ds.bytes, position |-> ds.position]
  BY DEF Buffer
<1>3. At(0) = ds
  <2>1. SubSeq(bytes, 1, 0) = <<>>
    OBVIOUS
  <2>2. ds.bytes \o <<>> = ds.bytes
    BY <1>2
  <2> QED
    BY <1>2, <2>1, <2>2
<1>4. ASSUME NEW i \in 1 .. n PROVE At(i) = WriteByte(At(i - 1), bytes[i])
  <2> DEFINE sofar == ds.bytes \o SubSeq(bytes, 1, i - 1)
  <2>1. SubSeq(bytes, 1, i - 1) \in Seq(Byte) /\ Len(SubSeq(bytes, 1, i - 1)) = i - 1
    BY <1>2
  <2>2. sofar \in Seq(Byte) /\ Len(sofar) = ds.position + (i - 1)
    BY <1>2, <2>1
  <2>3. SubSeq(bytes, 1, i) = Append(SubSeq(bytes, 1, i - 1), bytes[i])
    BY <1>2
  <2>4. ds.bytes \o SubSeq(bytes, 1, i) = Append(sofar, bytes[i])
    <3> DEFINE s == ds.bytes
               t == SubSeq(bytes, 1, i - 1)
               e == bytes[i]
    <3>1. s \in Seq(Byte) /\ t \in Seq(Byte) /\ e \in Byte
      BY <1>2, <2>1
    <3> HIDE DEF s, t, e
    <3>2. s \o Append(t, e) = Append(s \o t, e)
      BY <3>1, ConcatAppend
    <3> QED
      BY <2>3, <3>2 DEF s, t, e
  <2>5. WriteByte(At(i - 1), bytes[i]) =
            [bytes |-> Append(sofar, bytes[i]), position |-> (ds.position + (i - 1)) + 1]
    <3>1. /\ At(i - 1).bytes = sofar /\ At(i - 1).position = ds.position + (i - 1)
          /\ ds.position + (i - 1) \in Nat
      BY <1>2
    <3> HIDE DEF At, sofar
    <3>2. At(i - 1).position >= Len(At(i - 1).bytes)
      BY <2>2, <3>1
    <3> QED
      BY <3>1, <3>2 DEF WriteByte
  <2>6. (ds.position + (i - 1)) + 1 = ds.position + i
    BY <1>2
  <2> QED
    BY <2>4, <2>5, <2>6
<1>5. Is(g)
  <2>1. ASSUME NEW i \in 0 .. n
        PROVE  g[i] = IF i = 0 THEN ds ELSE WriteByte(g[i - 1], bytes[i])
    <3> HIDE DEF At
    <3>1. CASE i = 0
      BY <1>3, <3>1
    <3>2. CASE i # 0
      <4>1. i \in 1 .. n /\ i - 1 \in 0 .. n
        BY <1>2, <3>2
      <4> QED
        BY <1>4, <3>2, <4>1
    <3> QED
      BY <3>1, <3>2
  <2> HIDE DEF At
  <2> QED
    BY <2>1
<1>6. Is(after)
  <2> HIDE DEF Is, g
  <2> QED
    BY <1>5
<1> HIDE DEF after, At
<1> DEFINE S == {i \in 0 .. n : after[i] = At(i)}
<1>7. 0 \in S
  BY <1>2, <1>3, <1>6
<1>8. ASSUME NEW i \in 0 .. n - 1, i \in S PROVE i + 1 \in S
  <2>1. i + 1 \in 1 .. n /\ i + 1 \in 0 .. n /\ i + 1 # 0 /\ (i + 1) - 1 = i
    BY <1>2
  <2>2. after[i + 1] = WriteByte(after[i], bytes[i + 1])
    BY <1>6, <2>1
  <2> QED
    BY <1>4, <1>8, <2>1, <2>2
<1> HIDE DEF S
<1>9. 0 .. n \subseteq S
  BY <1>2, <1>7, <1>8, BoundedInduction
<1>10. after[n] = At(n)
  BY <1>2, <1>9 DEF S
<1>11. SubSeq(bytes, 1, n) = bytes
  OBVIOUS
<1> QED
  BY <1>1, <1>10, <1>11 DEF At

\* The bytes p are the next ones.
Follows(ds, p) ==
    /\ ds.position + Len(p) <= Len(ds.bytes)
    /\ \A i \in 1 .. Len(p) : ds.bytes[ds.position + i] = p[i]

\* The bytes end within p.
EndsWithin(ds, p) ==
    /\ ds.position <= Len(ds.bytes) /\ Len(ds.bytes) < ds.position + Len(p)
    /\ \A i \in 1 .. Len(ds.bytes) - ds.position : ds.bytes[ds.position + i] = p[i]

LEMMA BufferFields ==
    ASSUME NEW ds \in Buffer
    PROVE  ds.bytes \in Seq(Byte) /\ ds.position \in Nat /\ Len(ds.bytes) \in Nat
  BY DEF Buffer

\* What is read is a part of what is there.
LEMMA AheadIs ==
    ASSUME NEW ds \in Buffer, NEW b \in Seq(Byte), NEW skip \in Nat,
           ds.position + skip + Len(b) <= Len(ds.bytes),
           \A i \in 1 .. Len(b) : ds.bytes[ds.position + (skip + i)] = b[i]
    PROVE  Ahead(ds, skip, Len(b)) = b
<1> DEFINE m == ds.position + skip + 1
           n == ds.position + skip + Len(b)
           s == ds.bytes
<1>1. s \in Seq(Byte) /\ m \in 1 .. Len(s) + 1 /\ n \in m - 1 .. Len(s) /\ Len(b) \in Nat
      /\ n - m + 1 = Len(b)
  <2>1. s \in Seq(Byte) /\ ds.position \in Nat /\ Len(s) \in Nat /\ Len(b) \in Nat
    BY BufferFields
  <2> QED
    BY <2>1
<1>2. Ahead(ds, skip, Len(b)) = SubSeq(s, m, n)
  BY DEF Ahead
<1>3. SubSeq(s, m, n) \in Seq(Byte) /\ Len(SubSeq(s, m, n)) = Len(b)
      /\ \A i \in 1 .. Len(b) : SubSeq(s, m, n)[i] = s[m + i - 1]
  <2> HIDE DEF m, n, s
  <2> QED
    BY <1>1, SubSeqProperties
<1>4. ASSUME NEW i \in 1 .. Len(b) PROVE SubSeq(s, m, n)[i] = b[i]
  <2>1. m + i - 1 = ds.position + (skip + i)
    BY <1>1, BufferFields
  <2> QED
    BY <1>3, <2>1
<1> HIDE DEF m, n, s
<1> QED
  BY <1>2, <1>3, <1>4, SeqEqual

\* What is read has the length asked for.
LEMMA AheadType ==
    ASSUME NEW ds \in Buffer, NEW skip \in Nat, NEW n \in Nat, Readable(ds, skip + n)
    PROVE  /\ Ahead(ds, skip, n) \in Seq(Byte) /\ Len(Ahead(ds, skip, n)) = n
           /\ \A i \in 1 .. n : Ahead(ds, skip, n)[i] = ds.bytes[ds.position + (skip + i)]
<1> DEFINE m == ds.position + skip + 1
           k == ds.position + skip + n
           s == ds.bytes
<1>1. s \in Seq(Byte) /\ m \in 1 .. Len(s) + 1 /\ k \in m - 1 .. Len(s) /\ k - m + 1 = n
  BY BufferFields DEF Readable
<1>2. Ahead(ds, skip, n) = SubSeq(s, m, k)
  BY DEF Ahead
<1>3. ASSUME NEW i \in 1 .. n PROVE m + i - 1 = ds.position + (skip + i)
  BY BufferFields
<1>4. SubSeq(s, m, k) \in Seq(Byte) /\ Len(SubSeq(s, m, k)) = n
      /\ \A i \in 1 .. n : SubSeq(s, m, k)[i] = s[m + i - 1]
  <2> HIDE DEF m, k, s
  <2> QED
    BY <1>1, SubSeqProperties
<1> QED
  BY <1>2, <1>3, <1>4

----------------------------------------------------------------------------
(* Doubles. *)

LEMMA LeadingPositive ==
    Leading \in Nat \ {0} /\ Leading < Power(Base, IntBytes)
  BY SizesAssumption, PowerPositive DEF Leading

LEMMA UnitPositive ==
    ASSUME NEW exponent \in Int
    PROVE  Unit(exponent) \in Nat \ {0}
<1>1. CASE exponent >= MinExp
  BY <1>1 DEF Unit
<1>2. CASE ~(exponent >= MinExp)
  <2>1. MinExp - exponent \in Nat /\ 2 \in Nat \ {0}
    BY <1>2, SizesAssumption
  <2>2. Power(2, MinExp - exponent) \in Nat \ {0}
    BY <2>1, PowerPositive
  <2> QED
    BY <1>2, <2>2 DEF Unit
<1> QED
  BY <1>1, <1>2

\* Nothing is rounded if the last bits are zero.
LEMMA RoundedExact ==
    ASSUME NEW mantissa \in Nat, NEW exponent \in Int,
           (Leading + mantissa) % Unit(exponent) = 0
    PROVE  Rounded(mantissa, exponent) = Leading + mantissa
<1> DEFINE unit == Unit(exponent)
           n == Leading + mantissa
           up == 2 * (n % unit) > unit \/ (2 * (n % unit) = unit /\ (n \div unit) % 2 = 1)
<1>1. unit \in Nat \ {0} /\ n \in Nat
  BY UnitPositive, LeadingPositive
<1>2. Rounded(mantissa, exponent) = ((n \div unit) + (IF up THEN 1 ELSE 0)) * unit
  BY DEF Rounded
<1>3. n % unit = 0
  OBVIOUS
<1>4. ~up
  <2> HIDE DEF n, unit
  <2> QED
    BY <1>1, <1>3
<1> HIDE DEF n, unit, up
<1>5. n = unit * (n \div unit) + 0 /\ n \div unit \in Int
  BY <1>1, <1>3, Euclid
<1>6. (n \div unit + 0) * unit = unit * (n \div unit)
  BY <1>1, <1>5
<1> QED
  BY <1>1, <1>2, <1>4, <1>5, <1>6 DEF n

Finite == {d \in Double : d.class = "finite"}

LEMMA FiniteFields ==
    ASSUME NEW d \in Finite
    PROVE  /\ d = [class |-> "finite", negative |-> d.negative,
                   mantissa |-> d.mantissa, exponent |-> d.exponent]
           /\ d.negative \in BOOLEAN /\ d.mantissa \in 0 .. Leading - 1
           /\ d.exponent \in MinExp - MantissaBits .. MaxExp
           /\ (Leading + d.mantissa) % Unit(d.exponent) = 0
<1>1. d \in [class : {"finite"}, negative : BOOLEAN, mantissa : 0 .. Leading - 1,
             exponent : MinExp - MantissaBits .. MaxExp]
      /\ (Leading + d.mantissa) % Unit(d.exponent) = 0
  BY DEF Finite, Double
<1> QED
  BY <1>1

\* ldexp makes the double again.
LEMMA FiniteExact ==
    ASSUME NEW d \in Finite
    PROVE  /\ Representable(d.mantissa, d.exponent)
           /\ Ldexp(d.negative, d.mantissa, d.exponent) = d
<1>1. /\ d.mantissa \in 0 .. Leading - 1 /\ Leading \in Nat \ {0}
      /\ d.exponent \in MinExp - MantissaBits .. MaxExp /\ d.exponent \in Int
      /\ MinExp \in Int /\ MaxExp \in Int /\ MantissaBits \in Nat
  BY FiniteFields, LeadingPositive, SizesAssumption
<1>2. Rounded(d.mantissa, d.exponent) = Leading + d.mantissa
  <2>1. d.mantissa \in Nat
    BY <1>1
  <2> QED
    BY <1>1, <2>1, FiniteFields, RoundedExact
<1>3. Representable(d.mantissa, d.exponent)
  BY <1>1, <1>2 DEF Representable
<1>4. Ldexp(d.negative, d.mantissa, d.exponent)
        = [class |-> "finite", negative |-> d.negative,
           mantissa |-> d.mantissa, exponent |-> d.exponent]
  <2>1. Leading + d.mantissa # 2 * Leading /\ (Leading + d.mantissa) - Leading = d.mantissa
    BY <1>1
  <2> QED
    BY <1>2, <2>1 DEF Ldexp
<1> QED
  BY <1>3, <1>4, FiniteFields

----------------------------------------------------------------------------
(* The items of a format. *)

LEMMA SizesPositive ==
    /\ IntBytes \in Nat \ {0} /\ ExpBytes \in Nat \ {0} /\ Base \in Nat /\ Base >= 16
    /\ MaxAlloc \in Nat /\ MaxAlloc < Power(Base, IntBytes)
<1>1. Power(Base, IntBytes) \in Nat \ {0}
  BY SizesAssumption, BasePower
<1> QED
  BY <1>1, SizesAssumption

LEMMA SignByteType ==
    ASSUME NEW d \in Double
    PROVE  /\ d.class \in {"nan", "inf", "zero", "finite"} /\ d.negative \in BOOLEAN
           /\ SignByte(d) \in Byte
           /\ d.class # "finite" => d = [class |-> d.class, negative |-> d.negative]
<1>1. /\ d.class \in {"nan", "inf", "zero", "finite"} /\ d.negative \in BOOLEAN
      /\ d.class # "finite" => d = [class |-> d.class, negative |-> d.negative]
  <2>1. CASE d \in [class : {"nan", "inf", "zero"}, negative : BOOLEAN]
    BY <2>1
  <2>2. CASE d \in Finite
    BY <2>2, FiniteFields
  <2>3. CASE d \in [class : {"finite"}, negative : BOOLEAN, mantissa : 0 .. Leading - 1,
                    exponent : MinExp - MantissaBits .. MaxExp]
    BY <2>3
  <2> QED
    BY <2>1, <2>2, <2>3 DEF Double
<1>2. Flag[d.class] \in {0, 2, 4, 8}
  BY <1>1 DEF Flag, DOUBLE_NAN, DOUBLE_INF, DOUBLE_ZERO
<1>3. SignByte(d) \in 0 .. 9
  BY <1>2 DEF SignByte, DOUBLE_NEG
<1> QED
  BY <1>1, <1>3, SizesPositive DEF Byte

LEMMA FinitePacked ==
    ASSUME NEW d \in Finite, NEW little \in BOOLEAN
    PROVE  LET e == IntToBytes(d.exponent, ExpBytes, little)
               m == IntToBytes(d.mantissa, IntBytes, little)
               p == Packed("d", d, little)
           IN  /\ e \in Seq(Byte) /\ Len(e) = ExpBytes
               /\ m \in Seq(Byte) /\ Len(m) = IntBytes
               /\ p \in Seq(Byte) /\ Len(p) = 1 + ExpBytes + IntBytes
               /\ p[1] = SignByte(d)
               /\ \A i \in 1 .. ExpBytes : p[1 + i] = e[i]
               /\ \A i \in 1 .. IntBytes : p[1 + ExpBytes + i] = m[i]
<1> DEFINE e == IntToBytes(d.exponent, ExpBytes, little)
           m == IntToBytes(d.mantissa, IntBytes, little)
           b == SignByte(d)
           p == <<b>> \o (e \o m)
<1>1. d.exponent \in Int /\ d.mantissa \in Int /\ ExpBytes \in Nat /\ IntBytes \in Nat
  BY FiniteFields, LeadingPositive, SizesAssumption
<1>2. e \in Seq(Byte) /\ Len(e) = ExpBytes /\ m \in Seq(Byte) /\ Len(m) = IntBytes
  BY <1>1, EncodeType
<1>3. d \in Double /\ d.class = "finite" /\ b \in Byte
  BY SignByteType DEF Finite
<1>4. Packed("d", d, little) = p
  BY <1>3 DEF Packed
<1> HIDE DEF e, m, b
<1>5. p \in Seq(Byte) /\ Len(p) = 1 + ExpBytes + IntBytes
  BY <1>1, <1>2, <1>3
<1>6. p[1] = b
  BY <1>1, <1>2, <1>3
<1>7. ASSUME NEW i \in 1 .. ExpBytes PROVE p[1 + i] = e[i]
  BY <1>1, <1>2, <1>3
<1>8. ASSUME NEW i \in 1 .. IntBytes PROVE p[1 + ExpBytes + i] = m[i]
  BY <1>1, <1>2, <1>3
<1> QED
  BY <1>2, <1>4, <1>5, <1>6, <1>7, <1>8 DEF e, m, b

LEMMA BlobPacked ==
    ASSUME NEW val \in Seq(Byte), NEW little \in BOOLEAN
    PROVE  LET l == IntToBytes(Len(val), IntBytes, little)
               p == Blob(val, little)
           IN  /\ l \in Seq(Byte) /\ Len(l) = IntBytes
               /\ p \in Seq(Byte) /\ Len(p) = IntBytes + Len(val)
               /\ \A i \in 1 .. IntBytes : p[i] = l[i]
               /\ \A i \in 1 .. Len(val) : p[IntBytes + i] = val[i]
<1> DEFINE l == IntToBytes(Len(val), IntBytes, little)
<1>1. l \in Seq(Byte) /\ Len(l) = IntBytes /\ IntBytes \in Nat
  BY SizesPositive, EncodeType
<1> HIDE DEF l
<1>2. l \o val \in Seq(Byte) /\ Len(l \o val) = IntBytes + Len(val)
  BY <1>1
<1>3. ASSUME NEW i \in 1 .. IntBytes PROVE (l \o val)[i] = l[i]
  BY <1>1
<1>4. ASSUME NEW i \in 1 .. Len(val) PROVE (l \o val)[IntBytes + i] = val[i]
  BY <1>1
<1> QED
  BY <1>1, <1>2, <1>3, <1>4 DEF Blob, l

LEMMA ValuesAre ==
    /\ Values("l") = Int64 /\ Values("d") = Double
    /\ Values("b") = {bytes \in Seq(Byte) : Len(bytes) <= MaxAlloc}
    /\ Values("s") \subseteq Values("b")
    /\ \A s \in Values("s") : Len(s) < MaxAlloc /\ \A i \in 1 .. Len(s) : s[i] # 0
<1>1. /\ Values("l") = Int64 /\ Values("d") = Double
      /\ Values("b") = {bytes \in Seq(Byte) : Len(bytes) <= MaxAlloc}
      /\ Values("s") = {bytes \in Seq(Byte \ {0}) : Len(bytes) < MaxAlloc}
  BY DEF Values
<1>2. Seq(Byte \ {0}) \subseteq Seq(Byte)
  BY SeqMonotonic
<1>3. ASSUME NEW s \in Seq(Byte \ {0}), NEW i \in 1 .. Len(s) PROVE s[i] # 0
  BY ElementOfSeq
<1>4. MaxAlloc \in Nat
  BY SizesPositive
<1>5. Values("s") \subseteq Values("b")
  <2> SUFFICES ASSUME NEW s \in Values("s") PROVE s \in Values("b")
    OBVIOUS
  <2>1. s \in Seq(Byte) /\ Len(s) \in Nat /\ Len(s) < MaxAlloc
    BY <1>1, <1>2
  <2> QED
    BY <1>1, <1>4, <2>1
<1> QED
  BY <1>1, <1>3, <1>5

\* Every item is at least one byte.
LEMMA PackedType ==
    ASSUME NEW item \in Items, NEW val \in Values(item), NEW little \in BOOLEAN
    PROVE  Packed(item, val, little) \in Seq(Byte) /\ Len(Packed(item, val, little)) \in Nat \ {0}
<1>1. CASE item = "l"
  <2>1. val \in Int
    <3>1. val \in -(Power(Base, IntBytes) \div 2) .. (Power(Base, IntBytes) \div 2) - 1
      BY <1>1, ValuesAre DEF Int64, Signed
    <3>2. Power(Base, IntBytes) \div 2 \in Int
      BY SizesPositive, BasePower
    <3> QED
      BY <3>1, <3>2
  <2>2. Packed(item, val, little) = IntToBytes(val, IntBytes, little)
    BY <1>1 DEF Packed
  <2> QED
    BY <2>1, <2>2, SizesPositive, EncodeType
<1>2. CASE item = "d" /\ val.class # "finite"
  <2>1. Packed(item, val, little) = <<SignByte(val)>> \o <<>> /\ SignByte(val) \in Byte
    BY <1>2, ValuesAre, SignByteType DEF Packed
  <2> HIDE DEF SignByte
  <2> QED
    BY <2>1
<1>3. CASE item = "d" /\ val.class = "finite"
  <2>1. val \in Finite
    BY <1>3, ValuesAre DEF Finite
  <2>2. /\ Packed("d", val, little) \in Seq(Byte)
        /\ Len(Packed("d", val, little)) = 1 + ExpBytes + IntBytes
    BY <2>1, FinitePacked
  <2> QED
    BY <1>3, <2>2, SizesPositive
<1>4. CASE item \in {"s", "b"}
  <2>1. val \in Seq(Byte) /\ Packed(item, val, little) = Blob(val, little)
    BY <1>4, ValuesAre DEF Packed
  <2> QED
    BY <2>1, BlobPacked, SizesPositive
<1> QED
  BY <1>1, <1>2, <1>3, <1>4 DEF Items

\* The value on the other side: a NaN has no sign.
Received(item, val) ==
    IF item = "d" /\ val.class = "nan" THEN [val EXCEPT !.negative = FALSE] ELSE val

LEMMA IntRoundTrip ==
    ASSUME NEW ds \in Buffer, NEW v \in Int64, NEW little \in BOOLEAN,
           Follows(ds, IntToBytes(v, IntBytes, little))
    PROVE  UnpackedInt(ds, little) = Gives(v, IntBytes)
<1> DEFINE p == IntToBytes(v, IntBytes, little)
<1>1. IntBytes \in Nat /\ v \in Signed(IntBytes) /\ v \in Int
  <2>1. v \in Int
    BY ValuesAre, PackedType, SizesPositive, BasePower DEF Int64, Signed
  <2> QED
    BY <2>1, SizesPositive DEF Int64
<1>2. p \in Seq(Byte) /\ Len(p) = IntBytes
  BY <1>1, EncodeType
<1>3. BytesToInt(p, little) = v
  BY <1>1, SignedDecode
<1> HIDE DEF p
<1>4. Readable(ds, IntBytes)
  BY <1>2 DEF Follows, Readable, p
<1>5. Ahead(ds, 0, Len(p)) = p
  <2>1. \A i \in 1 .. Len(p) : ds.bytes[ds.position + (0 + i)] = p[i]
    BY <1>2 DEF Follows, p
  <2>2. ds.position + 0 + Len(p) <= Len(ds.bytes)
    BY <1>2, BufferFields DEF Follows, p
  <2> QED
    BY <1>2, <2>1, <2>2, AheadIs
<1> QED
  BY <1>2, <1>3, <1>4, <1>5 DEF UnpackedInt

\* The first byte of a double says what follows.
LEMMA SignByteRead ==
    ASSUME NEW d \in Double, NEW sign, sign = SignByte(d)
    PROVE  LET negative == sign % 2 = DOUBLE_NEG
               class == {c \in DOMAIN Flag : Flag[c] = sign - (IF negative THEN DOUBLE_NEG ELSE 0)}
           IN  /\ negative <=> (d.negative /\ d.class # "nan")
               /\ class = {d.class}
<1>1. d.class \in {"nan", "inf", "zero", "finite"} /\ d.negative \in BOOLEAN
  BY SignByteType
<1>2. DOMAIN Flag = {"nan", "inf", "zero", "finite"}
  BY DEF Flag
<1>3. /\ Flag["nan"] = 2 /\ Flag["inf"] = 4 /\ Flag["zero"] = 8 /\ Flag["finite"] = 0
  BY DEF Flag, DOUBLE_NAN, DOUBLE_INF, DOUBLE_ZERO
<1> DEFINE neg == d.negative /\ d.class # "nan"
<1>4. sign = Flag[d.class] + (IF neg THEN 1 ELSE 0)
  BY DEF SignByte, DOUBLE_NEG
<1> HIDE DEF neg
<1>5. neg \in BOOLEAN
  BY DEF neg
<1>6. Flag[d.class] \in {0, 2, 4, 8}
  BY <1>1, <1>3
<1>7. sign % 2 = 1 <=> neg
  <2>1. CASE neg
    <3>1. sign \in {1, 3, 5, 9}
      BY <1>4, <1>6, <2>1
    <3> QED
      BY <2>1, <3>1
  <2>2. CASE ~neg
    <3>1. sign \in {0, 2, 4, 8}
      BY <1>4, <1>6, <2>2
    <3> QED
      BY <2>2, <3>1
  <2> QED
    BY <1>5, <2>1, <2>2
<1>8. sign - (IF sign % 2 = 1 THEN 1 ELSE 0) = Flag[d.class]
  BY <1>4, <1>6, <1>7
<1>9. {c \in DOMAIN Flag : Flag[c] = Flag[d.class]} = {d.class}
  BY <1>1, <1>2, <1>3
<1> QED
  BY <1>7, <1>8, <1>9 DEF DOUBLE_NEG, neg

LEMMA FirstByte ==
    ASSUME NEW ds \in Buffer, Readable(ds, 1)
    PROVE  Ahead(ds, 0, 1)[1] = ds.bytes[ds.position + 1]
<1>1. Readable(ds, 0 + 1)
  OBVIOUS
<1> QED
  BY <1>1, AheadType, BufferFields

LEMMA FiniteRoundTrip ==
    ASSUME NEW ds \in Buffer, NEW d \in Finite, NEW little \in BOOLEAN,
           Follows(ds, Packed("d", d, little))
    PROVE  UnpackedFinite(ds, d.negative, little) = Gives(d, 1 + ExpBytes + IntBytes)
<1> DEFINE e == IntToBytes(d.exponent, ExpBytes, little)
           m == IntToBytes(d.mantissa, IntBytes, little)
           p == Packed("d", d, little)
<1>1. /\ e \in Seq(Byte) /\ Len(e) = ExpBytes
      /\ m \in Seq(Byte) /\ Len(m) = IntBytes
      /\ Len(p) = 1 + ExpBytes + IntBytes
      /\ \A i \in 1 .. ExpBytes : p[1 + i] = e[i]
      /\ \A i \in 1 .. IntBytes : p[1 + ExpBytes + i] = m[i]
  BY FinitePacked
<1>2. /\ ExpBytes \in Nat \ {0} /\ IntBytes \in Nat \ {0}
      /\ ds.position \in Nat /\ Len(ds.bytes) \in Nat
  BY SizesPositive, BufferFields
<1>3. ds.position + Len(p) <= Len(ds.bytes)
      /\ \A i \in 1 .. Len(p) : ds.bytes[ds.position + i] = p[i]
  BY DEF Follows
<1> HIDE DEF e, m, p
<1>4. Ahead(ds, 1, ExpBytes) = e
  <2>1. ASSUME NEW i \in 1 .. Len(e) PROVE ds.bytes[ds.position + (1 + i)] = e[i]
    <3>1. 1 + i \in 1 .. Len(p)
      BY <1>1, <1>2
    <3> QED
      BY <1>1, <1>3, <3>1
  <2>2. ds.position + 1 + Len(e) <= Len(ds.bytes)
    BY <1>1, <1>2, <1>3
  <2>3. Ahead(ds, 1, Len(e)) = e
    BY <1>1, <2>1, <2>2, AheadIs
  <2> QED
    BY <1>1, <2>3
<1>5. Ahead(ds, 1 + ExpBytes, IntBytes) = m
  <2>1. ASSUME NEW i \in 1 .. Len(m) PROVE ds.bytes[ds.position + ((1 + ExpBytes) + i)] = m[i]
    <3>1. 1 + ExpBytes + i \in 1 .. Len(p) /\ (1 + ExpBytes) + i = 1 + ExpBytes + i
      BY <1>1, <1>2
    <3> QED
      BY <1>1, <1>3, <3>1
  <2>2. ds.position + (1 + ExpBytes) + Len(m) <= Len(ds.bytes) /\ 1 + ExpBytes \in Nat
    BY <1>1, <1>2, <1>3
  <2>3. Ahead(ds, 1 + ExpBytes, Len(m)) = m
    BY <1>1, <2>1, <2>2, AheadIs
  <2> QED
    BY <1>1, <2>3
<1>6. BytesToInt(e, little) = d.exponent
  <2>1. d.exponent \in Signed(ExpBytes)
    <3> DEFINE half == Power(Base, ExpBytes) \div 2
    <3>1. half \in Int
      BY <1>2, BasePower
    <3> HIDE DEF half
    <3>2. Signed(ExpBytes) = -half .. half - 1
      BY DEF Signed, half
    <3> QED
      BY <3>1, <3>2, FiniteFields, SizesAssumption
  <2> QED
    BY <1>2, <2>1, SignedDecode DEF e
<1>7. BytesToUnsigned(m, little) = d.mantissa
  <2>1. d.mantissa \in Nat /\ d.mantissa < Power(Base, IntBytes)
    BY FiniteFields, LeadingPositive, <1>2, BasePower
  <2>2. Power(Base, IntBytes) \in Nat \ {0}
    BY <1>2, BasePower
  <2>3. d.mantissa % Power(Base, IntBytes) = d.mantissa
    BY <2>1, <2>2
  <2> QED
    BY <1>2, <2>1, <2>3, DecodeEncode DEF m
<1>8. Readable(ds, 1 + ExpBytes + IntBytes)
  BY <1>1, <1>3 DEF Readable
<1>9. d.mantissa < Leading
  BY FiniteFields, LeadingPositive
<1> QED
  BY <1>4, <1>5, <1>6, <1>7, <1>8, <1>9, FiniteExact DEF UnpackedFinite

LEMMA DoubleRoundTrip ==
    ASSUME NEW ds \in Buffer, NEW d \in Double, NEW little \in BOOLEAN,
           Follows(ds, Packed("d", d, little))
    PROVE  UnpackedDouble(ds, little) = Gives(Received("d", d), Len(Packed("d", d, little)))
<1> DEFINE p == Packed("d", d, little)
           sign == Ahead(ds, 0, 1)[1]
           negative == sign % 2 = DOUBLE_NEG
           class == {c \in DOMAIN Flag : Flag[c] = sign - (IF negative THEN DOUBLE_NEG ELSE 0)}
<1>1. /\ p \in Seq(Byte) /\ Len(p) \in Nat \ {0} /\ p[1] = SignByte(d)
      /\ d.class # "finite" => Len(p) = 1
  <2>1. CASE d.class = "finite"
    BY <2>1, FinitePacked, PackedType, ValuesAre DEF Finite, Items
  <2>2. CASE d.class # "finite"
    <3>1. p = <<SignByte(d)>> \o <<>> /\ SignByte(d) \in Byte
      BY <2>2, SignByteType DEF Packed
    <3> HIDE DEF SignByte, p
    <3> QED
      BY <3>1
  <2> QED
    BY <2>1, <2>2
<1>2. Readable(ds, 1) /\ ds.bytes[ds.position + 1] = p[1]
  <2>1. Follows(ds, p)
    OBVIOUS
  <2> HIDE DEF p
  <2>2. 1 \in 1 .. Len(p) /\ ds.position + 1 <= ds.position + Len(p)
    BY <1>1, BufferFields
  <2> QED
    BY <1>1, <2>1, <2>2, BufferFields DEF Follows, Readable
<1>3. sign = SignByte(d)
  <2> HIDE DEF p
  <2> QED
    BY <1>1, <1>2, FirstByte
<1>4. (negative <=> (d.negative /\ d.class # "nan")) /\ negative \in BOOLEAN
      /\ class = {d.class}
  <2> HIDE DEF SignByte, sign
  <2>1. negative \in BOOLEAN
    OBVIOUS
  <2> QED
    BY <1>3, <2>1, SignByteRead
<1>5. d.class \in {"nan", "inf", "zero", "finite"} /\ d.negative \in BOOLEAN
  BY SignByteType
<1>6. UnpackedDouble(ds, little) =
        IF class = {} \/ (class = {"nan"} /\ negative) THEN Fails("BUNPACK_INVALID_DATA")
        ELSE IF class = {"finite"} THEN UnpackedFinite(ds, negative, little)
        ELSE Gives([class |-> CHOOSE c \in class : TRUE, negative |-> negative], 1)
  BY <1>2 DEF UnpackedDouble
<1> HIDE DEF sign, negative, class
<1>7. class # {} /\ ~(class = {"nan"} /\ negative)
  BY <1>4, <1>5
<1>8. CASE d.class = "finite"
  <2>1. d \in Finite /\ Len(p) = 1 + ExpBytes + IntBytes
    BY <1>8, FinitePacked DEF Finite
  <2>2. negative = d.negative /\ class = {"finite"}
    BY <1>4, <1>5, <1>8
  <2>3. Received("d", d) = d
    BY <1>8 DEF Received
  <2> QED
    BY <1>6, <1>7, <2>1, <2>2, <2>3, FiniteRoundTrip
<1>9. CASE d.class # "finite"
  <2>1. class # {"finite"} /\ (CHOOSE c \in class : TRUE) = d.class /\ Len(p) = 1
    <3>1. Len(p) = 1
      BY <1>1, <1>9
    <3>2. \A x : (CHOOSE c \in {x} : TRUE) = x
      OBVIOUS
    <3>3. (CHOOSE c \in class : TRUE) = d.class
      BY <1>4, <3>2
    <3>4. class # {"finite"}
      BY <1>4, <1>9
    <3> QED
      BY <3>1, <3>3, <3>4
  <2>2. Received("d", d) = [class |-> d.class, negative |-> negative]
    <3>1. d = [class |-> d.class, negative |-> d.negative]
      BY <1>9, SignByteType
    <3>2. CASE d.class = "nan"
      <4>1. [d EXCEPT !.negative = FALSE] = [class |-> d.class, negative |-> FALSE]
        <5>1. d \in [class : {"nan"}, negative : BOOLEAN]
          BY <3>1, <3>2, SignByteType
        <5> DEFINE e == [d EXCEPT !.negative = FALSE]
        <5>2. /\ e \in [class : {"nan"}, negative : BOOLEAN]
              /\ e.class = d.class /\ e.negative = FALSE
          BY <5>1
        <5> HIDE DEF e
        <5>3. e = [class |-> e.class, negative |-> e.negative]
          BY <5>2
        <5> QED
          BY <5>2, <5>3 DEF e
      <4>2. negative = FALSE
        BY <1>4, <3>2
      <4> QED
        BY <3>2, <4>1, <4>2 DEF Received
    <3>3. CASE d.class # "nan"
      <4>1. negative = d.negative
        BY <1>4, <1>5, <3>3
      <4> QED
        BY <3>1, <3>3, <4>1 DEF Received
    <3> QED
      BY <3>2, <3>3
  <2> QED
    BY <1>6, <1>7, <2>1, <2>2
<1> QED
  BY <1>8, <1>9

LEMMA LengthRead ==
    ASSUME NEW ds \in Buffer, NEW val \in Values("b"), NEW little \in BOOLEAN,
           ds.position + IntBytes <= Len(ds.bytes),
           \A i \in 1 .. IntBytes : ds.bytes[ds.position + i] = Blob(val, little)[i]
    PROVE  /\ Readable(ds, IntBytes)
           /\ BytesToUnsigned(Ahead(ds, 0, IntBytes), little) = Len(val)
<1> DEFINE l == IntToBytes(Len(val), IntBytes, little)
           p == Blob(val, little)
<1>1. val \in Seq(Byte) /\ Len(val) \in Nat /\ Len(val) <= MaxAlloc
  BY ValuesAre
<1>2. IntBytes \in Nat /\ MaxAlloc \in Nat /\ MaxAlloc < Power(Base, IntBytes)
      /\ Power(Base, IntBytes) \in Nat \ {0}
  BY SizesPositive, BasePower
<1>3. l \in Seq(Byte) /\ Len(l) = IntBytes /\ \A i \in 1 .. IntBytes : p[i] = l[i]
  BY <1>1, BlobPacked
<1>4. BytesToUnsigned(l, little) = Len(val)
  <2>1. Len(val) % Power(Base, IntBytes) = Len(val)
    BY <1>1, <1>2
  <2> QED
    BY <1>1, <1>2, <2>1, DecodeEncode
<1> HIDE DEF l, p
<1>5. Ahead(ds, 0, Len(l)) = l
  <2>1. ASSUME NEW i \in 1 .. Len(l) PROVE ds.bytes[ds.position + (0 + i)] = l[i]
    BY <1>2, <1>3 DEF p
  <2>2. ds.position + 0 + Len(l) <= Len(ds.bytes)
    BY <1>3, BufferFields
  <2> QED
    BY <1>3, <2>1, <2>2, AheadIs
<1> QED
  BY <1>3, <1>4, <1>5 DEF Readable

LEMMA BlobRoundTrip ==
    ASSUME NEW ds \in Buffer, NEW val \in Values("b"), NEW little \in BOOLEAN,
           Follows(ds, Blob(val, little))
    PROVE  UnpackedBlob(ds, little) = Gives(val, IntBytes + Len(val))
<1> DEFINE p == Blob(val, little)
<1>1. val \in Seq(Byte) /\ Len(val) \in Nat /\ Len(val) <= MaxAlloc
  BY ValuesAre
<1>2. IntBytes \in Nat \ {0} /\ MaxAlloc \in Nat /\ ds.position \in Nat /\ Len(ds.bytes) \in Nat
  BY SizesPositive, BufferFields
<1>3. Len(p) = IntBytes + Len(val) /\ \A i \in 1 .. Len(val) : p[IntBytes + i] = val[i]
  BY <1>1, BlobPacked
<1>4. ds.position + Len(p) <= Len(ds.bytes)
      /\ \A i \in 1 .. Len(p) : ds.bytes[ds.position + i] = p[i]
  BY DEF Follows
<1> HIDE DEF p
<1>5. Readable(ds, IntBytes) /\ BytesToUnsigned(Ahead(ds, 0, IntBytes), little) = Len(val)
  <2>1. ds.position + IntBytes <= Len(ds.bytes)
    BY <1>1, <1>2, <1>3, <1>4
  <2>2. \A i \in 1 .. IntBytes : ds.bytes[ds.position + i] = Blob(val, little)[i]
    BY <1>1, <1>2, <1>3, <1>4 DEF p
  <2> QED
    BY <2>1, <2>2, LengthRead
<1>6. Ahead(ds, IntBytes, Len(val)) = val
  <2>1. ASSUME NEW i \in 1 .. Len(val) PROVE ds.bytes[ds.position + (IntBytes + i)] = val[i]
    <3>1. IntBytes + i \in 1 .. Len(p)
      BY <1>1, <1>2, <1>3
    <3> QED
      BY <1>3, <1>4, <3>1
  <2>2. ds.position + IntBytes + Len(val) <= Len(ds.bytes)
    BY <1>1, <1>2, <1>3, <1>4
  <2> QED
    BY <1>1, <1>2, <2>1, <2>2, AheadIs
<1>7. Readable(ds, IntBytes + Len(val))
  BY <1>3, <1>4 DEF Readable
<1>8. ~(Len(val) > MaxAlloc)
  BY <1>1, <1>2
<1> QED
  BY <1>5, <1>6, <1>7, <1>8 DEF UnpackedBlob

\* Without a NUL inside, all bytes are the string.
LEMMA WholeString ==
    ASSUME NEW s \in Seq(Byte), \A i \in 1 .. Len(s) : s[i] # 0
    PROVE  CString(s) = s
<1> DEFINE Ends(n) == /\ \A i \in 1 .. n : s[i] # 0
                      /\ n < Len(s) => s[n + 1] = 0
<1>1. Len(s) \in 0 .. Len(s) /\ Ends(Len(s))
  OBVIOUS
<1>2. ASSUME NEW n \in 0 .. Len(s), Ends(n) PROVE n = Len(s)
  <2> SUFFICES ASSUME n < Len(s) PROVE FALSE
    OBVIOUS
  <2>1. n + 1 \in 1 .. Len(s)
    OBVIOUS
  <2> QED
    BY <1>2, <2>1
<1> HIDE DEF Ends
<1>3. (CHOOSE n \in 0 .. Len(s) : Ends(n)) = Len(s)
  BY <1>1, <1>2
<1>4. CString(s) = SubSeq(s, 1, CHOOSE n \in 0 .. Len(s) : Ends(n))
  BY DEF CString, Ends
<1>5. SubSeq(s, 1, Len(s)) = s
  OBVIOUS
<1> QED
  BY <1>3, <1>4, <1>5

\* The item that bpack writes (bpack.c:84-180) bunpack reads back (bpack.c:198-352): the same
\* value, to its last byte, whatever follows.  This holds of each integer, each double from the
\* smallest subnormal one to infinity, a NaN without its sign, and every string and blob that
\* memory is found for, in both byte orders.
THEOREM ItemRoundTrip ==
    ASSUME NEW item \in Items, NEW val \in Values(item), NEW little \in BOOLEAN,
           NEW ds \in Buffer, Follows(ds, Packed(item, val, little))
    PROVE  Unpacked(item, ds, little)
                = Gives(Received(item, val), Len(Packed(item, val, little)))
<1>1. CASE item = "l"
  <2>1. val \in Int64 /\ Packed(item, val, little) = IntToBytes(val, IntBytes, little)
    BY <1>1, ValuesAre DEF Packed
  <2>2. Len(Packed(item, val, little)) = IntBytes
    <3>1. val \in Int
      BY <2>1, SizesPositive, BasePower DEF Int64, Signed
    <3> QED
      BY <2>1, <3>1, SizesPositive, EncodeType
  <2> QED
    BY <1>1, <2>1, <2>2, IntRoundTrip DEF Unpacked, Received
<1>2. CASE item = "d"
  BY <1>2, ValuesAre, DoubleRoundTrip DEF Unpacked
<1>3. CASE item = "b"
  <2>1. Packed(item, val, little) = Blob(val, little) /\ val \in Seq(Byte)
    BY <1>3, ValuesAre DEF Packed
  <2> QED
    BY <1>3, <2>1, BlobPacked, BlobRoundTrip DEF Unpacked, Received
<1>4. CASE item = "s"
  <2>1. Packed(item, val, little) = Blob(val, little) /\ val \in Seq(Byte) /\ val \in Values("b")
    BY <1>4, ValuesAre DEF Packed
  <2>2. UnpackedBlob(ds, little) = Gives(val, IntBytes + Len(val))
    BY <2>1, BlobRoundTrip
  <2>3. CString(val) = val
    BY <1>4, <2>1, ValuesAre, WholeString
  <2>4. Unpacked(item, ds, little) = Gives(val, IntBytes + Len(val))
    <3>1. Len(val) < MaxAlloc
      BY <1>4, ValuesAre
    <3> QED
      BY <1>4, <2>2, <2>3, <3>1 DEF Unpacked, Gives
  <2> QED
    BY <1>4, <2>1, <2>4, BlobPacked DEF Received
<1> QED
  BY <1>1, <1>2, <1>3, <1>4 DEF Items

----------------------------------------------------------------------------
(* The other way round: what bunpack accepts. *)

LEMMA AheadConcat ==
    ASSUME NEW ds \in Buffer, NEW skip \in Nat, NEW m \in Nat, NEW n \in Nat,
           Readable(ds, skip + m + n)
    PROVE  Ahead(ds, skip, m) \o Ahead(ds, skip + m, n) = Ahead(ds, skip, m + n)
<1> DEFINE a == Ahead(ds, skip, m)
           b == Ahead(ds, skip + m, n)
           c == Ahead(ds, skip, m + n)
<1>1. Readable(ds, skip + m) /\ Readable(ds, (skip + m) + n) /\ Readable(ds, skip + (m + n))
  BY BufferFields DEF Readable
<1>2. a \in Seq(Byte) /\ Len(a) = m /\ \A i \in 1 .. m : a[i] = ds.bytes[ds.position + (skip + i)]
  BY <1>1, AheadType
<1>3. /\ b \in Seq(Byte) /\ Len(b) = n
      /\ \A i \in 1 .. n : b[i] = ds.bytes[ds.position + ((skip + m) + i)]
  <2>1. skip + m \in Nat
    OBVIOUS
  <2> QED
    BY <1>1, <2>1, AheadType
<1>4. /\ c \in Seq(Byte) /\ Len(c) = m + n
      /\ \A i \in 1 .. m + n : c[i] = ds.bytes[ds.position + (skip + i)]
  <2>1. m + n \in Nat
    OBVIOUS
  <2> QED
    BY <1>1, <2>1, AheadType
<1> HIDE DEF a, b, c
<1>5. /\ a \o b \in Seq(Byte) /\ Len(a \o b) = m + n
      /\ \A i \in 1 .. m + n : (a \o b)[i] = IF i <= m THEN a[i] ELSE b[i - m]
  BY <1>2, <1>3, ConcatProperties
<1>6. ASSUME NEW i \in 1 .. m + n PROVE (a \o b)[i] = c[i]
  <2>1. CASE i \in 1 .. m
    <3>1. i <= m
      BY <2>1
    <3>2. (a \o b)[i] = a[i]
      BY <1>5, <3>1
    <3>3. a[i] = ds.bytes[ds.position + (skip + i)]
      BY <1>2, <2>1
    <3>4. c[i] = ds.bytes[ds.position + (skip + i)]
      BY <1>4
    <3> QED
      BY <3>2, <3>3, <3>4
  <2>2. CASE i \notin 1 .. m
    <3>1. i - m \in 1 .. n /\ (skip + m) + (i - m) = skip + i
      BY <2>2
    <3>2. (a \o b)[i] = b[i - m]
      BY <1>5, <2>2
    <3> QED
      BY <1>3, <1>4, <3>1, <3>2
  <2> QED
    BY <2>1, <2>2
<1> QED
  BY <1>4, <1>5, <1>6, SeqEqual DEF a, b, c

LEMMA BlobAccepted ==
    ASSUME NEW ds \in Buffer, NEW little \in BOOLEAN, UnpackedBlob(ds, little).code = "OK"
    PROVE  LET r == UnpackedBlob(ds, little) IN
           /\ r = Gives(r.val, r.length)
           /\ r.val \in Values("b") /\ r.length = IntBytes + Len(r.val)
           /\ Readable(ds, r.length)
           /\ Ahead(ds, 0, r.length) = Blob(r.val, little)
           /\ \A i \in 1 .. Len(r.val) : Ahead(ds, 0, r.length)[IntBytes + i] = r.val[i]
<1> DEFINE l == Ahead(ds, 0, IntBytes)
           size == BytesToUnsigned(l, little)
           val == Ahead(ds, IntBytes, size)
<1>1. IntBytes \in Nat /\ MaxAlloc \in Nat /\ Power(Base, IntBytes) \in Nat \ {0}
  BY SizesPositive, BasePower
<1>2. /\ Readable(ds, IntBytes) /\ ~(size > MaxAlloc) /\ Readable(ds, IntBytes + size)
      /\ UnpackedBlob(ds, little) = Gives(val, IntBytes + size)
  BY DEF UnpackedBlob, Fails
<1>3. l \in Seq(Byte) /\ Len(l) = IntBytes
  <2>1. Readable(ds, 0 + IntBytes)
    BY <1>1, <1>2
  <2> QED
    BY <1>1, <2>1, AheadType
<1>4. size \in 0 .. Power(Base, IntBytes) - 1
  <2> HIDE DEF l
  <2>1. size \in 0 .. Power(Base, Len(l)) - 1
    BY <1>3, EncodeDecode
  <2> QED
    BY <1>3, <2>1
<1>5. IntToBytes(size, IntBytes, little) = l
  <2> HIDE DEF l
  <2>1. size \in Int /\ size % Power(Base, IntBytes) = size
    BY <1>1, <1>4
  <2> QED
    BY <1>3, <2>1, EncodeDecode
<1>6. size \in Nat
  BY <1>1, <1>4
<1> HIDE DEF size
<1>7. val \in Seq(Byte) /\ Len(val) = size
  BY <1>1, <1>2, <1>6, AheadType
<1>8. l \o val = Ahead(ds, 0, IntBytes + size)
  <2>1. Readable(ds, 0 + IntBytes + size) /\ 0 + IntBytes = IntBytes
    BY <1>1, <1>2, <1>6
  <2> QED
    BY <1>1, <1>6, <2>1, AheadConcat
<1>9. val \in Values("b")
  BY <1>1, <1>2, <1>6, <1>7, ValuesAre
<1> HIDE DEF l, val
<1>10. Ahead(ds, 0, IntBytes + size) = Blob(val, little)
  BY <1>5, <1>7, <1>8 DEF Blob
<1>11. \A i \in 1 .. Len(val) : (l \o val)[IntBytes + i] = val[i]
  BY <1>1, <1>3, <1>7
<1> QED
  BY <1>2, <1>7, <1>8, <1>9, <1>10, <1>11 DEF Gives

LEMMA StringAccepted ==
    ASSUME NEW bytes \in Seq(Byte)
    PROVE  CString(bytes) = bytes \/ \E i \in 1 .. Len(bytes) : bytes[i] = 0
  BY WholeString

LEMMA IntAccepted ==
    ASSUME NEW ds \in Buffer, NEW little \in BOOLEAN, UnpackedInt(ds, little).code = "OK"
    PROVE  LET r == UnpackedInt(ds, little) IN
           /\ r.length = IntBytes /\ Readable(ds, r.length)
           /\ Ahead(ds, 0, r.length) = IntToBytes(r.val, IntBytes, little)
<1> DEFINE bytes == Ahead(ds, 0, IntBytes)
<1>1. Readable(ds, IntBytes) /\ UnpackedInt(ds, little) = Gives(BytesToInt(bytes, little), IntBytes)
  BY DEF UnpackedInt, Fails
<1>2. bytes \in Seq(Byte) /\ Len(bytes) = IntBytes
  <2>1. IntBytes \in Nat /\ Readable(ds, 0 + IntBytes)
    BY <1>1, SizesPositive
  <2> QED
    BY <2>1, AheadType
<1> HIDE DEF bytes
<1>3. IntToBytes(BytesToInt(bytes, little), IntBytes, little) = bytes
  BY <1>2, SignedEncode
<1> QED
  BY <1>1, <1>3 DEF Gives, bytes

\* A double whose exponent is not too small kept all its bits.
LEMMA FiniteAccepted ==
    ASSUME NEW mantissa \in 0 .. Leading - 1, NEW exponent \in Int, NEW negative \in BOOLEAN,
           Ldexp(negative, mantissa, exponent).exponent > MinExp
    PROVE  Ldexp(negative, mantissa, exponent) =
                [class |-> "finite", negative |-> negative,
                 mantissa |-> mantissa, exponent |-> exponent]
<1>1. Leading \in Nat \ {0} /\ MinExp \in Int /\ mantissa \in Nat
  BY LeadingPositive, SizesAssumption
<1>2. Ldexp(negative, mantissa, exponent).exponent \in {exponent, exponent + 1}
  BY DEF Ldexp
<1>3. exponent >= MinExp
  BY <1>1, <1>2
<1>4. (Leading + mantissa) % Unit(exponent) = 0
  <2>1. Unit(exponent) = 1
    BY <1>3 DEF Unit
  <2>2. \A n \in Int : n % 1 = 0
    OBVIOUS
  <2> QED
    BY <1>1, <2>1, <2>2
<1>5. Rounded(mantissa, exponent) = Leading + mantissa
  BY <1>1, <1>4, RoundedExact
<1>6. Leading + mantissa # 2 * Leading /\ (Leading + mantissa) - Leading = mantissa
  BY <1>1
<1> QED
  BY <1>5, <1>6 DEF Ldexp

LEMMA AheadOne ==
    ASSUME NEW ds \in Buffer, Readable(ds, 1)
    PROVE  Ahead(ds, 0, 1) \in Seq(Byte) /\ Len(Ahead(ds, 0, 1)) = 1
<1> DEFINE n == 1
<1>1. n \in Nat /\ 0 \in Nat /\ 0 + n = n
  OBVIOUS
<1>2. Readable(ds, 0 + n)
  BY <1>1
<1> HIDE DEF n
<1>3. Ahead(ds, 0, n) \in Seq(Byte) /\ Len(Ahead(ds, 0, n)) = n
  BY <1>1, <1>2, AheadType
<1> QED
  BY <1>3 DEF n

LEMMA ThreeAhead ==
    ASSUME NEW ds \in Buffer, Readable(ds, 1 + ExpBytes + IntBytes)
    PROVE  /\ Ahead(ds, 0, 1) \in Seq(Byte) /\ Len(Ahead(ds, 0, 1)) = 1
           /\ Ahead(ds, 1, ExpBytes) \in Seq(Byte) /\ Len(Ahead(ds, 1, ExpBytes)) = ExpBytes
           /\ Ahead(ds, 1 + ExpBytes, IntBytes) \in Seq(Byte)
           /\ Len(Ahead(ds, 1 + ExpBytes, IntBytes)) = IntBytes
           /\ Ahead(ds, 0, 1 + ExpBytes + IntBytes) =
                Ahead(ds, 0, 1) \o (Ahead(ds, 1, ExpBytes) \o Ahead(ds, 1 + ExpBytes, IntBytes))
<1>1. ExpBytes \in Nat /\ IntBytes \in Nat /\ 1 + ExpBytes \in Nat /\ ExpBytes + IntBytes \in Nat
  BY SizesPositive
<1>2. /\ Readable(ds, 0 + 1) /\ Readable(ds, 1 + ExpBytes)
      /\ Readable(ds, (1 + ExpBytes) + IntBytes)
      /\ Readable(ds, 0 + 1 + (ExpBytes + IntBytes))
      /\ 1 + (ExpBytes + IntBytes) = 1 + ExpBytes + IntBytes /\ 0 + 1 = 1
  BY <1>1, BufferFields DEF Readable
<1>3. Ahead(ds, 0, 1) \in Seq(Byte) /\ Len(Ahead(ds, 0, 1)) = 1
  BY <1>2, AheadOne
<1>4. Ahead(ds, 1, ExpBytes) \in Seq(Byte) /\ Len(Ahead(ds, 1, ExpBytes)) = ExpBytes
  BY <1>1, <1>2, AheadType
<1>5. /\ Ahead(ds, 1 + ExpBytes, IntBytes) \in Seq(Byte)
      /\ Len(Ahead(ds, 1 + ExpBytes, IntBytes)) = IntBytes
  BY <1>1, <1>2, AheadType
<1>6. Ahead(ds, 1, ExpBytes) \o Ahead(ds, 1 + ExpBytes, IntBytes)
        = Ahead(ds, 1, ExpBytes + IntBytes)
  BY <1>1, <1>2, AheadConcat
<1>7. Ahead(ds, 0, 1) \o Ahead(ds, 0 + 1, ExpBytes + IntBytes)
        = Ahead(ds, 0, 1 + (ExpBytes + IntBytes))
  <2>1. 0 \in Nat /\ 1 \in Nat
    OBVIOUS
  <2> QED
    BY <1>1, <1>2, <2>1, AheadConcat
<1> QED
  BY <1>2, <1>3, <1>4, <1>5, <1>6, <1>7

LEMMA OneByte ==
    ASSUME NEW s \in Seq(Byte), Len(s) = 1
    PROVE  s = <<s[1]>> /\ s[1] \in Byte
  OBVIOUS

\* The first byte is the sign byte of what is read.
LEMMA SignByteWritten ==
    ASSUME NEW sign \in Nat, NEW c \in DOMAIN Flag, NEW val,
           Flag[c] = sign - (IF sign % 2 = DOUBLE_NEG THEN DOUBLE_NEG ELSE 0),
           val.class = c, val.negative <=> (sign % 2 = DOUBLE_NEG),
           ~(c = "nan" /\ sign % 2 = DOUBLE_NEG)
    PROVE  SignByte(val) = sign
<1> DEFINE n == IF sign % 2 = DOUBLE_NEG THEN DOUBLE_NEG ELSE 0
<1>1. n \in Int /\ Flag[c] = sign - n
  BY DEF DOUBLE_NEG
<1>2. (IF val.negative /\ val.class # "nan" THEN DOUBLE_NEG ELSE 0) = n
  OBVIOUS
<1> HIDE DEF n
<1>3. SignByte(val) = Flag[c] + n
  BY <1>2 DEF SignByte
<1> QED
  BY <1>1, <1>3

\* Each number of Flag is that of one class.
LEMMA ClassOfFlag ==
    ASSUME NEW number, NEW class, class = {c \in DOMAIN Flag : Flag[c] = number}, class # {}
    PROVE  \E c \in DOMAIN Flag : class = {c} /\ Flag[c] = number
<1>1. DOMAIN Flag = {"nan", "inf", "zero", "finite"}
  BY DEF Flag
<1>2. Flag["nan"] = 2 /\ Flag["inf"] = 4 /\ Flag["zero"] = 8 /\ Flag["finite"] = 0
  BY DEF Flag, DOUBLE_NAN, DOUBLE_INF, DOUBLE_ZERO
<1>3. \A c, d \in DOMAIN Flag : Flag[c] = Flag[d] => c = d
  BY <1>1, <1>2
<1>4. PICK c \in DOMAIN Flag : Flag[c] = number
  OBVIOUS
<1> QED
  BY <1>3, <1>4

LEMMA DoubleAccepted ==
    ASSUME NEW ds \in Buffer, NEW little \in BOOLEAN, UnpackedDouble(ds, little).code = "OK"
    PROVE  LET r == UnpackedDouble(ds, little) IN
           /\ r.length \in {1, 1 + ExpBytes + IntBytes} /\ Readable(ds, r.length)
           /\ \/ r.val.class = "finite" /\ r.val.exponent <= MinExp
              \/ Ahead(ds, 0, r.length) = Packed("d", r.val, little)
<1> DEFINE r == UnpackedDouble(ds, little)
           sign == Ahead(ds, 0, 1)[1]
           negative == sign % 2 = DOUBLE_NEG
           number == sign - (IF negative THEN DOUBLE_NEG ELSE 0)
           class == {c \in DOMAIN Flag : Flag[c] = number}
<1>1. Readable(ds, 1) /\ class # {} /\ ~(class = {"nan"} /\ negative)
  BY DEF UnpackedDouble, Fails
<1>2. r = IF class = {"finite"} THEN UnpackedFinite(ds, negative, little)
          ELSE Gives([class |-> CHOOSE c \in class : TRUE, negative |-> negative], 1)
  BY <1>1 DEF UnpackedDouble
<1>3. Ahead(ds, 0, 1) = <<sign>> /\ sign \in Byte /\ sign \in Nat
  <2>1. Ahead(ds, 0, 1) \in Seq(Byte) /\ Len(Ahead(ds, 0, 1)) = 1
    BY <1>1, AheadOne
  <2> QED
    BY <2>1, OneByte, SizesPositive DEF Byte
<1>4. negative \in BOOLEAN
  OBVIOUS
<1>5. PICK c \in DOMAIN Flag : class = {c} /\ Flag[c] = number
  <2> HIDE DEF number
  <2> QED
    BY <1>1, ClassOfFlag
<1>6. ASSUME NEW val, val.class = c, val.negative <=> negative
      PROVE  SignByte(val) = sign
  <2>1. ~(c = "nan" /\ negative)
    BY <1>1, <1>5
  <2> HIDE DEF sign
  <2> QED
    BY <1>3, <1>5, <1>6, <2>1, SignByteWritten
<1> HIDE DEF r, class, number
<1>7. CASE c # "finite"
  <2> DEFINE val == [class |-> c, negative |-> negative]
  <2>1. class # {"finite"} /\ (CHOOSE x \in class : TRUE) = c
    <3>1. \A x : (CHOOSE y \in {x} : TRUE) = x
      OBVIOUS
    <3> QED
      BY <1>5, <1>7, <3>1
  <2>2. r = Gives(val, 1)
    BY <1>2, <2>1
  <2>3. val.class = c /\ (val.negative <=> negative)
    OBVIOUS
  <2>4. SignByte(val) = sign
    BY <1>6, <2>3
  <2> HIDE DEF sign, negative
  <2>5. Packed("d", val, little) = <<sign>> \o <<>>
    BY <1>7, <2>3, <2>4 DEF Packed
  <2>6. Packed("d", val, little) = <<sign>>
    BY <1>3, <2>5
  <2> HIDE DEF val
  <2> QED
    BY <1>1, <1>3, <2>2, <2>6 DEF Gives, r
<1>8. CASE c = "finite"
  <2> DEFINE eb == Ahead(ds, 1, ExpBytes)
             mb == Ahead(ds, 1 + ExpBytes, IntBytes)
             exponent == BytesToInt(eb, little)
             mantissa == BytesToUnsigned(mb, little)
             length == 1 + ExpBytes + IntBytes
             val == Ldexp(negative, mantissa, exponent)
             whole == [class |-> "finite", negative |-> negative,
                       mantissa |-> mantissa, exponent |-> exponent]
  <2>1. class = {"finite"} /\ r = UnpackedFinite(ds, negative, little)
    BY <1>2, <1>5, <1>8
  <2>2. Readable(ds, length) /\ mantissa < Leading /\ r = Gives(val, length)
    <3>1. UnpackedFinite(ds, negative, little).code = "OK"
      BY <2>1 DEF r
    <3> HIDE DEF r, negative
    <3> QED
      BY <2>1, <3>1 DEF UnpackedFinite, Fails
  <2>3. /\ eb \in Seq(Byte) /\ Len(eb) = ExpBytes /\ mb \in Seq(Byte) /\ Len(mb) = IntBytes
        /\ Ahead(ds, 0, length) = Ahead(ds, 0, 1) \o (eb \o mb)
    BY <2>2, ThreeAhead
  <2>4. /\ exponent \in Int /\ IntToBytes(exponent, ExpBytes, little) = eb
    <3> HIDE DEF eb
    <3> QED
      BY <2>3, SignedEncode
  <2>5. mantissa \in 0 .. Leading - 1 /\ IntToBytes(mantissa, IntBytes, little) = mb
    <3> HIDE DEF mb
    <3>1. mantissa \in 0 .. Power(Base, IntBytes) - 1 /\ Power(Base, IntBytes) \in Nat \ {0}
      <4>1. mantissa \in 0 .. Power(Base, Len(mb)) - 1
        BY <2>3, EncodeDecode
      <4> QED
        BY <2>3, <4>1, SizesPositive, BasePower
    <3>2. mantissa \in Int /\ mantissa % Power(Base, IntBytes) = mantissa
      BY <3>1
    <3>3. IntToBytes(mantissa, IntBytes, little) = mb
      BY <2>3, <3>2, EncodeDecode
    <3> HIDE DEF mantissa
    <3> QED
      BY <2>2, <3>1, <3>3, LeadingPositive
  <2> HIDE DEF eb, mb, exponent, mantissa
  <2>6. CASE val.exponent > MinExp
    <3>1. val = whole
      BY <1>4, <2>4, <2>5, <2>6, FiniteAccepted
    <3>2. whole.class = c /\ (whole.negative <=> negative)
          /\ whole.exponent = exponent /\ whole.mantissa = mantissa
      BY <1>8
    <3>3. SignByte(whole) = sign
      BY <1>6, <3>2
    <3> HIDE DEF whole, val, sign, negative
    <3>4. Packed("d", whole, little) = <<sign>> \o (eb \o mb)
      BY <1>8, <2>4, <2>5, <3>2, <3>3 DEF Packed
    <3>5. Ahead(ds, 0, length) = Packed("d", whole, little)
      BY <1>3, <2>3, <3>4
    <3>6. r.val = whole /\ r.length = length
      BY <2>2, <3>1 DEF Gives
    <3> HIDE DEF r
    <3>7. Ahead(ds, 0, r.length) = Packed("d", r.val, little)
      BY <3>5, <3>6
    <3> QED
      BY <2>2, <3>6, <3>7 DEF r
  <2>7. CASE ~(val.exponent > MinExp)
    <3>1. val.class = "finite" /\ val.exponent \in {exponent, exponent + 1}
      BY DEF Ldexp
    <3> HIDE DEF val
    <3>2. val.exponent <= MinExp
      <4>1. val.exponent \in Int /\ MinExp \in Int
        BY <2>4, <3>1, SizesAssumption
      <4> QED
        BY <2>7, <4>1
    <3>3. r.val = val /\ r.length = length
      BY <2>2 DEF Gives
    <3> HIDE DEF r
    <3>4. r.val.class = "finite" /\ r.val.exponent <= MinExp
      BY <3>1, <3>2, <3>3
    <3> QED
      BY <2>2, <3>3, <3>4 DEF r
  <2> QED
    BY <2>6, <2>7
<1> QED
  BY <1>7, <1>8

\* Of any bytes at all, those bunpack accepts for an item (bpack.c:198-352) are the ones bpack
\* writes for the value they give.  The exceptions are a string with a NUL inside, which ends
\* there, and a double at or below the smallest exponent, whose last bits ldexp rounds off.
THEOREM ItemOnlyPacked ==
    ASSUME NEW item \in Items, NEW ds \in Buffer, NEW little \in BOOLEAN,
           Unpacked(item, ds, little).code = "OK"
    PROVE  LET r == Unpacked(item, ds, little)
               bytes == Ahead(ds, 0, r.length)
           IN  \/ item = "s" /\ \E i \in DOMAIN bytes : i > IntBytes /\ bytes[i] = 0
               \/ item = "d" /\ r.val.class = "finite" /\ r.val.exponent <= MinExp
               \/ bytes = Packed(item, r.val, little)
<1>1. CASE item = "l"
  BY <1>1, IntAccepted DEF Unpacked, Packed
<1>2. CASE item = "d"
  BY <1>2, DoubleAccepted DEF Unpacked
<1>3. CASE item = "b"
  BY <1>3, BlobAccepted DEF Unpacked, Packed
<1>4. CASE item = "s"
  <2> DEFINE b == UnpackedBlob(ds, little)
             r == Unpacked(item, ds, little)
             bytes == Ahead(ds, 0, b.length)
  <2>1. b.code = "OK" /\ r = [b EXCEPT !.val = CString(@)]
    BY <1>4 DEF Unpacked, Fails
  <2>2. /\ b = Gives(b.val, b.length)
        /\ b.val \in Seq(Byte) /\ b.length = IntBytes + Len(b.val)
        /\ Readable(ds, b.length)
        /\ bytes = Blob(b.val, little)
        /\ \A i \in 1 .. Len(b.val) : bytes[IntBytes + i] = b.val[i]
    BY <2>1, BlobAccepted, ValuesAre
  <2> HIDE DEF b
  <2>3. r.val = CString(b.val) /\ r.length = b.length
    BY <2>1, <2>2 DEF Gives
  <2>4. DOMAIN bytes = 1 .. IntBytes + Len(b.val)
    BY <2>2, BlobPacked
  <2> HIDE DEF bytes, r
  <2>5. CASE CString(b.val) = b.val
    BY <1>4, <2>2, <2>3, <2>5 DEF Packed, bytes, r
  <2>6. CASE \E i \in 1 .. Len(b.val) : b.val[i] = 0
    <3>1. PICK i \in 1 .. Len(b.val) : b.val[i] = 0
      BY <2>6
    <3>2. IntBytes + i \in DOMAIN bytes /\ IntBytes + i > IntBytes /\ bytes[IntBytes + i] = 0
      BY <2>2, <2>4, <3>1, SizesPositive
    <3> QED
      BY <1>4, <2>3, <3>2 DEF bytes, r
  <2> QED
    BY <2>2, <2>5, <2>6, StringAccepted
<1> QED
  BY <1>1, <1>2, <1>3, <1>4 DEF Items

\* What is read of an item is there.
LEMMA UnpackedType ==
    ASSUME NEW item \in Items, NEW ds \in Buffer, NEW little \in BOOLEAN
    PROVE  LET r == Unpacked(item, ds, little) IN
           /\ r.code \in {"OK", "BPACK_READ", "BUNPACK_INVALID_DATA", "MEMORY"}
           /\ r.code = "OK" => r.length \in Nat /\ Readable(ds, r.length)
<1>1. UnpackedInt(ds, little).code \in {"OK", "BPACK_READ"}
  BY DEF UnpackedInt, Gives, Fails
<1>2. \A negative : UnpackedFinite(ds, negative, little).code
                        \in {"OK", "BPACK_READ", "BUNPACK_INVALID_DATA"}
  BY DEF UnpackedFinite, Gives, Fails
<1>3. UnpackedDouble(ds, little).code \in {"OK", "BPACK_READ", "BUNPACK_INVALID_DATA"}
  BY <1>2 DEF UnpackedDouble, Gives, Fails
<1>4. UnpackedBlob(ds, little).code \in {"OK", "BPACK_READ", "MEMORY"}
  BY DEF UnpackedBlob, Gives, Fails
<1>5. CASE item = "l"
  BY <1>1, <1>5, IntAccepted, SizesPositive DEF Unpacked
<1>6. CASE item = "d"
  BY <1>3, <1>6, DoubleAccepted, SizesPositive DEF Unpacked
<1>7. CASE item \in {"b", "s"}
  <2> DEFINE b == UnpackedBlob(ds, little)
             r == Unpacked(item, ds, little)
  <2>1. b.code # "OK" => r = b
    BY <1>7 DEF Unpacked
  <2>2. ASSUME b.code = "OK"
        PROVE  r.code = "MEMORY"
               \/ (r.code = "OK" /\ r.length \in Nat /\ Readable(ds, r.length))
    <3>1. b = Gives(b.val, b.length) /\ b.length \in Nat /\ Readable(ds, b.length)
      BY <2>2, BlobAccepted, ValuesAre, SizesPositive
    <3>2. r = b \/ r = [b EXCEPT !.val = CString(@)] \/ r.code = "MEMORY"
      BY <1>7, <2>2 DEF Unpacked, Fails
    <3> HIDE DEF b, r
    <3> QED
      BY <3>1, <3>2 DEF Gives
  <2> QED
    BY <1>4, <2>1, <2>2
<1> QED
  BY <1>5, <1>6, <1>7 DEF Items

----------------------------------------------------------------------------
(* An item that ends early. *)

\* A buffer that ends within an item is refused by bunpack (bpack.c:205-211, 232-266, 326-347):
\* a piece of an item is never taken for an item, not even for a shorter one.
THEOREM ItemCut ==
    ASSUME NEW item \in Items, NEW val \in Values(item), NEW little \in BOOLEAN,
           NEW ds \in Buffer, EndsWithin(ds, Packed(item, val, little))
    PROVE  Unpacked(item, ds, little).code # "OK"
<1> DEFINE p == Packed(item, val, little)
           there == Len(ds.bytes) - ds.position
<1>1. /\ ds.position \in Nat /\ Len(ds.bytes) \in Nat /\ IntBytes \in Nat \ {0}
      /\ ExpBytes \in Nat \ {0} /\ p \in Seq(Byte) /\ Len(p) \in Nat \ {0}
  BY BufferFields, SizesPositive, PackedType
<1>2. /\ there \in 0 .. Len(p) - 1
      /\ \A i \in 1 .. there : ds.bytes[ds.position + i] = p[i]
  <2>1. /\ ds.position <= Len(ds.bytes) /\ Len(ds.bytes) < ds.position + Len(p)
        /\ \A i \in 1 .. Len(ds.bytes) - ds.position : ds.bytes[ds.position + i] = p[i]
    BY DEF EndsWithin
  <2> HIDE DEF p
  <2> QED
    BY <1>1, <2>1
<1>3. \A n \in Int : n > there => ~Readable(ds, n)
  BY <1>1 DEF Readable
<1>4. CASE item = "l"
  <2>1. Len(p) = IntBytes
    <3>1. val \in Int64
      BY <1>4, ValuesAre
    <3>2. val \in Int
      BY <3>1, SizesPositive, BasePower DEF Int64, Signed
    <3> QED
      BY <1>1, <1>4, <3>2, EncodeType DEF Packed
  <2> HIDE DEF p, there
  <2>2. ~Readable(ds, IntBytes)
    BY <1>1, <1>2, <1>3, <2>1
  <2> QED
    BY <1>4, <2>2 DEF Unpacked, UnpackedInt, Fails
<1>5. CASE item = "d" /\ there = 0
  <2>1. ~Readable(ds, 1)
    BY <1>3, <1>5
  <2> QED
    BY <1>5, <2>1 DEF Unpacked, UnpackedDouble, Fails
<1>6. CASE item = "d" /\ there # 0
  <2>1. val \in Double
    BY <1>6, ValuesAre
  <2>2. val.class = "finite"
    <3> SUFFICES ASSUME val.class # "finite" PROVE FALSE
      OBVIOUS
    <3>1. p = <<SignByte(val)>> \o <<>> /\ SignByte(val) \in Byte
      BY <1>6, <2>1, SignByteType DEF Packed
    <3> HIDE DEF p
    <3>2. Len(p) = 1
      BY <3>1
    <3> QED
      BY <1>1, <1>2, <1>6, <3>2
  <2>3. val \in Finite
    BY <2>1, <2>2 DEF Finite
  <2>4. Len(p) = 1 + ExpBytes + IntBytes /\ p[1] = SignByte(val)
    BY <1>6, <2>3, FinitePacked
  <2> HIDE DEF p
  <2>5. ds.bytes[ds.position + 1] = p[1] /\ Readable(ds, 1)
    <3>1. 1 \in 1 .. there /\ ds.position + 1 <= Len(ds.bytes)
      BY <1>1, <1>2, <1>6
    <3> QED
      BY <1>2, <3>1 DEF Readable
  <2>6. Ahead(ds, 0, 1)[1] = SignByte(val)
    BY <2>4, <2>5, FirstByte
  <2> DEFINE sign == Ahead(ds, 0, 1)[1]
             negative == sign % 2 = DOUBLE_NEG
             class == {c \in DOMAIN Flag : Flag[c] = sign - (IF negative THEN DOUBLE_NEG ELSE 0)}
  <2>7. class = {"finite"}
    <3> HIDE DEF sign
    <3> QED
      BY <2>1, <2>2, <2>6, SignByteRead DEF sign
  <2>8. ~Readable(ds, 1 + ExpBytes + IntBytes)
    BY <1>1, <1>2, <1>3, <2>4
  <2>9. UnpackedFinite(ds, negative, little).code # "OK"
    BY <2>8 DEF UnpackedFinite, Fails
  <2>10. UnpackedDouble(ds, little) =
            IF class = {} \/ (class = {"nan"} /\ negative) THEN Fails("BUNPACK_INVALID_DATA")
            ELSE IF class = {"finite"} THEN UnpackedFinite(ds, negative, little)
            ELSE Gives([class |-> CHOOSE c \in class : TRUE, negative |-> negative], 1)
    BY <2>5 DEF UnpackedDouble
  <2> HIDE DEF sign, negative, class
  <2>11. UnpackedDouble(ds, little) = UnpackedFinite(ds, negative, little)
    BY <2>7, <2>10
  <2> QED
    BY <1>6, <2>9, <2>11 DEF Unpacked
<1>7. CASE item \in {"s", "b"}
  <2>1. p = Blob(val, little) /\ val \in Values("b")
    BY <1>7, ValuesAre DEF Packed
  <2>2. Len(p) = IntBytes + Len(val) /\ Len(val) \in Nat
    BY <2>1, ValuesAre, BlobPacked
  <2> HIDE DEF p
  <2>3. UnpackedBlob(ds, little).code # "OK"
    <3>1. CASE there < IntBytes
      <4>1. ~Readable(ds, IntBytes)
        BY <1>1, <1>3, <3>1
      <4> QED
        BY <4>1 DEF UnpackedBlob, Fails
    <3>2. CASE there >= IntBytes
      <4>1. ds.position + IntBytes <= Len(ds.bytes)
        BY <1>1, <1>2, <3>2
      <4>2. \A i \in 1 .. IntBytes : ds.bytes[ds.position + i] = Blob(val, little)[i]
        <5>1. 1 .. IntBytes \subseteq 1 .. there
          BY <1>1, <1>2, <3>2
        <5> QED
          BY <1>2, <2>1, <5>1
      <4>3. BytesToUnsigned(Ahead(ds, 0, IntBytes), little) = Len(val)
        BY <2>1, <4>1, <4>2, LengthRead
      <4>4. ~Readable(ds, IntBytes + Len(val))
        BY <1>1, <1>2, <1>3, <2>2
      <4> QED
        BY <4>3, <4>4 DEF UnpackedBlob, Fails
    <3> QED
      BY <1>1, <1>2, <3>1, <3>2
  <2> QED
    BY <1>7, <2>3 DEF Unpacked
<1> QED
  BY <1>4, <1>5, <1>6, <1>7 DEF Items
=============================================================================
