-------------------------- MODULE OperatorProofs ----------------------------
(***************************************************************************)
(* Lemmas on the operators the models are built from, for every            *)
(* configuration: powers of two, fields of a bit string, the transform     *)
(* (lossless for every sample width, chunk size and deviation width), the  *)
(* adaptive parameters, the dictionary's look-up, and the bytes of files.  *)
(* The other proof modules rest on them.                                   *)
(***************************************************************************)
EXTENDS Transform, ActiveLru, Files, WellFoundedInduction, SequenceTheorems, TLAPS

----------------------------------------------------------------------------
(* Every non-empty set of naturals has a least element: this is how the    *)
(* proofs below do induction.                                              *)

Below == {p \in Nat \X Nat : p[1] < p[2]}

(* The order < on the naturals is well founded.                            *)
LEMMA BelowWellFounded == IsWellFoundedOn(Below, Nat)
BY NatLessThanWellFounded, SMT DEF OpToRel, Below

(* Every non-empty set of naturals has a least element.                    *)
LEMMA LeastElement ==
  ASSUME NEW T, T \subseteq Nat, T # {}
  PROVE  \E m \in T : \A k \in T : m <= k
<1>1. PICK m \in T : \A k \in T : ~ (<<k, m>> \in Below)
  BY BelowWellFounded, WFMin
<1>2. ASSUME NEW k \in T PROVE m <= k
  <2>1. m \in Nat /\ k \in Nat
    OBVIOUS
  <2>2. ~ (<<k, m>> \in Below)
    BY <1>1
  <2>3. k < m => <<k, m>> \in Below
    BY <2>1 DEF Below
  <2> QED BY <2>1, <2>2, <2>3
<1> QED BY <1>2

----------------------------------------------------------------------------
(* Pow2 is the function its recursive definition describes.                *)

PowersUpTo(n, g) ==
  /\ g \in [0..n -> Nat]
  /\ g[0] = 1
  /\ \A k \in 0..(n - 1) : g[k + 1] = 2 * g[k]

(* There is a table of the powers up to any exponent.                      *)
LEMMA PowersExist == \A n \in Nat : \E g : PowersUpTo(n, g)
<1> DEFINE Bad == {n \in Nat : ~ \E g : PowersUpTo(n, g)}
<1>1. SUFFICES ASSUME Bad # {} PROVE FALSE
  OBVIOUS
<1>2. PICK m \in Bad : \A k \in Bad : m <= k
  BY <1>1, LeastElement
<1>3. m \in Nat /\ \A g : ~ PowersUpTo(m, g)
  OBVIOUS
<1>4. CASE m = 0
  <2>1. PowersUpTo(0, [k \in 0..0 |-> 1])
    BY DEF PowersUpTo
  <2> QED BY <2>1, <1>3, <1>4
<1>5. CASE m # 0
  <2>1. m - 1 \in Nat /\ m - 1 \notin Bad
    BY <1>2, <1>3, <1>5
  <2>2. PICK g : PowersUpTo(m - 1, g)
    BY <2>1
  <2>3. PowersUpTo(m, [k \in 0..m |-> IF k = m THEN 2 * g[m - 1] ELSE g[k]])
    BY <2>1, <2>2, <1>5, <1>3 DEF PowersUpTo
  <2> QED BY <2>3, <1>3
<1> QED BY <1>4, <1>5

(* Two such tables agree where both are defined.                           *)
LEMMA PowersAgree ==
  ASSUME NEW m \in Nat, NEW n \in Nat, NEW g, NEW h,
         PowersUpTo(m, g), PowersUpTo(n, h),
         NEW i \in 0..m, i <= n
  PROVE  g[i] = h[i]
<1> DEFINE Bad == {k \in Nat : k <= m /\ k <= n /\ g[k] # h[k]}
<1>1. SUFFICES ASSUME Bad # {} PROVE FALSE
  OBVIOUS
<1>2. PICK k \in Bad : \A j \in Bad : k <= j
  <2>1. Bad \subseteq Nat
    OBVIOUS
  <2> QED BY <1>1, <2>1, LeastElement
<1>3. k # 0
  BY DEF PowersUpTo
<1>4. k - 1 \in Nat /\ k - 1 \notin Bad
  BY <1>2, <1>3
<1>5. g[k - 1] = h[k - 1]
  BY <1>4
<1>6. k = (k - 1) + 1 /\ k - 1 \in 0..(m - 1) /\ k - 1 \in 0..(n - 1)
  BY <1>3, <1>4
<1>7. g[k] = 2 * g[k - 1] /\ h[k] = 2 * h[k - 1]
  BY <1>6 DEF PowersUpTo
<1> QED BY <1>5, <1>7

(* The recursive equation of Pow2 has a solution, so Pow2 satisfies it.    *)
LEMMA Pow2Recursive == Pow2 = [n \in Nat |-> IF n = 0 THEN 1 ELSE 2 * Pow2[n - 1]]
<1> DEFINE Table(n) == CHOOSE g : PowersUpTo(n, g)
<1> DEFINE F == [n \in Nat |-> Table(n)[n]]
<1>1. \A n \in Nat : PowersUpTo(n, Table(n))
  BY PowersExist
<1> HIDE DEF Table
<1>2. F = [n \in Nat |-> IF n = 0 THEN 1 ELSE 2 * F[n - 1]]
  <2>1. ASSUME NEW n \in Nat PROVE F[n] = IF n = 0 THEN 1 ELSE 2 * F[n - 1]
    <3>1. CASE n = 0
      BY <3>1, <1>1 DEF PowersUpTo
    <3>2. CASE n # 0
      <4>1. n - 1 \in Nat /\ n - 1 \in 0..(n - 1) /\ (n - 1) + 1 = n
        BY <3>2
      <4>2. Table(n)[n] = 2 * Table(n)[n - 1]
        BY <4>1, <1>1 DEF PowersUpTo
      <4>3. Table(n)[n - 1] = Table(n - 1)[n - 1]
        BY <4>1, <1>1, PowersAgree
      <4> QED BY <4>1, <4>2, <4>3, <3>2
    <3> QED BY <3>1, <3>2
  <2> QED BY <2>1
<1> HIDE DEF F
<1> QED BY <1>2 DEF Pow2

(* Pow2[0] and Pow2[n + 1].                                                *)
LEMMA Pow2Step == Pow2[0] = 1 /\ \A n \in Nat : Pow2[n + 1] = 2 * Pow2[n]
<1>1. Pow2[0] = 1
  BY Pow2Recursive
<1>2. ASSUME NEW n \in Nat PROVE Pow2[n + 1] = 2 * Pow2[n]
  <2>1. n + 1 \in Nat /\ n + 1 # 0 /\ (n + 1) - 1 = n
    OBVIOUS
  <2> QED BY <2>1, Pow2Recursive
<1> QED BY <1>1, <1>2

(* A power of two is a natural number above its exponent.                  *)
LEMMA Pow2Above == \A n \in Nat : Pow2[n] \in Nat /\ n < Pow2[n]
<1> DEFINE Bad == {n \in Nat : ~ (Pow2[n] \in Nat /\ n < Pow2[n])}
<1>1. SUFFICES ASSUME Bad # {} PROVE FALSE
  OBVIOUS
<1>2. PICK m \in Bad : \A k \in Bad : m <= k
  BY <1>1, LeastElement
<1>3. m # 0
  BY Pow2Step
<1>4. m - 1 \in Nat /\ m - 1 \notin Bad
  BY <1>2, <1>3
<1>5. Pow2[m - 1] \in Nat /\ m - 1 < Pow2[m - 1]
  BY <1>4
<1>6. Pow2[(m - 1) + 1] = 2 * Pow2[m - 1]
  BY <1>4, Pow2Step
<1>7. m \in Nat /\ (m - 1) + 1 = m
  OBVIOUS
<1>8. Pow2[m] = 2 * Pow2[m - 1]
  BY <1>6, <1>7
<1>9. Pow2[m] \in Nat /\ m < Pow2[m]
  BY <1>4, <1>5, <1>7, <1>8
<1> QED BY <1>9

(* Powers of two grow with the exponent.                                   *)
LEMMA Pow2Monotone == \A m, n \in Nat : m <= n => Pow2[m] <= Pow2[n]
<1> SUFFICES ASSUME NEW m \in Nat, NEW n0 \in Nat, m <= n0, ~ (Pow2[m] <= Pow2[n0])
             PROVE FALSE
  OBVIOUS
<1> DEFINE Bad == {n \in Nat : m <= n /\ ~ (Pow2[m] <= Pow2[n])}
<1>1. Bad # {} /\ Bad \subseteq Nat
  OBVIOUS
<1>2. PICK k \in Bad : \A j \in Bad : k <= j
  BY <1>1, LeastElement
<1>3. k \in Nat /\ Pow2[k] \in Nat /\ Pow2[m] \in Nat
  BY Pow2Above
<1>4. k # m
  BY <1>3
<1>5. k - 1 \in Nat /\ m <= k - 1 /\ k - 1 \notin Bad
  BY <1>2, <1>3, <1>4
<1>6. Pow2[m] <= Pow2[k - 1] /\ Pow2[k - 1] \in Nat
  BY <1>5, Pow2Above
<1>7. Pow2[k] = 2 * Pow2[k - 1]
  <2>1. (k - 1) + 1 = k
    BY <1>3
  <2> QED BY <2>1, <1>5, Pow2Step
<1> QED BY <1>3, <1>6, <1>7

(* A value takes no more bits than BitLength says, nor fewer.              *)
LEMMA BitLengthBounds ==
  ASSUME NEW v \in Nat \ {0}
  PROVE  /\ BitLength(v) \in 1..v
         /\ v < Pow2[BitLength(v)]
         /\ Pow2[BitLength(v) - 1] <= v
<1> DEFINE Enough == {n \in Nat : v < Pow2[n]}
<1>1. v \in Enough /\ Enough \subseteq Nat
  BY Pow2Above
<1>2. PICK n \in Enough : \A k \in Enough : n <= k
  BY <1>1, LeastElement
<1>3. n \in Nat /\ v < Pow2[n] /\ n <= v
  BY <1>1, <1>2
<1>4. n # 0
  BY <1>3, Pow2Step
<1>5. n - 1 \in Nat /\ n - 1 \notin Enough /\ Pow2[n - 1] \in Nat
  BY <1>2, <1>3, <1>4, Pow2Above
<1>6. n \in 1..v /\ Pow2[n - 1] <= v
  BY <1>3, <1>4, <1>5
<1> QED BY <1>3, <1>6 DEF BitLength

(* CeilLog2(v) bits distinguish v values.                                  *)
LEMMA CeilLog2Bound ==
  ASSUME NEW v \in Nat
  PROVE  CeilLog2(v) \in Nat /\ CeilLog2(v) <= v /\ v <= Pow2[CeilLog2(v)]
<1>1. CASE v <= 1
  BY <1>1, Pow2Step DEF CeilLog2
<1>2. CASE v > 1
  <2>1. v - 1 \in Nat \ {0}
    BY <1>2
  <2>2. BitLength(v - 1) \in 1..(v - 1) /\ v - 1 < Pow2[BitLength(v - 1)]
    BY <2>1, BitLengthBounds
  <2>3. Pow2[BitLength(v - 1)] \in Nat
    BY <2>1, <2>2, Pow2Above
  <2>4. CeilLog2(v) = BitLength(v - 1)
    BY <1>2 DEF CeilLog2
  <2> QED BY <2>1, <2>2, <2>3, <2>4
<1> QED BY <1>1, <1>2

(* Fewer bits do not.                                                      *)
LEMMA CeilLog2Least ==
  ASSUME NEW v \in Nat, NEW n \in Nat, v <= Pow2[n]
  PROVE  CeilLog2(v) <= n
<1>1. CASE v <= 1
  BY <1>1 DEF CeilLog2
<1>2. CASE v > 1
  <2> DEFINE length == BitLength(v - 1)
  <2>1. v - 1 \in Nat \ {0}
    BY <1>2
  <2>2. length \in 1..(v - 1) /\ Pow2[length - 1] <= v - 1
    BY <2>1, BitLengthBounds
  <2>3. CeilLog2(v) = length
    BY <1>2 DEF CeilLog2
  <2> HIDE DEF length
  <2>4. length \in Nat /\ length - 1 \in Nat
    BY <2>2
  <2>5. ASSUME n <= length - 1 PROVE FALSE
    <3>1. Pow2[n] <= Pow2[length - 1] /\ Pow2[n] \in Nat /\ Pow2[length - 1] \in Nat
      BY <2>4, <2>5, Pow2Monotone, Pow2Above
    <3> QED BY <2>2, <3>1
  <2> QED BY <2>3, <2>4, <2>5
<1> QED BY <1>1, <1>2

----------------------------------------------------------------------------
(* Fields of one width, side by side.                                      *)

(* Every bit of n fields of width w is in one of them.                     *)
LEMMA FieldBounds ==
  ASSUME NEW w \in Nat, NEW n \in Nat, NEW a \in 1..(n * w)
  PROVE  FieldOf(a, w) \in 1..n /\ PlaceOfBit(a, w) \in 1..w
<1> DEFINE q == (a - 1) \div w
           r == (a - 1) % w
<1>1. w \in Nat \ {0} /\ a - 1 \in Nat /\ a - 1 < n * w
  <2>1. n * 0 = 0
    OBVIOUS
  <2> QED BY <2>1
<1>2. q \in Nat /\ r \in 0..(w - 1)
  BY <1>1
<1>3. a - 1 = w * q + r
  BY <1>1
<1>4. ASSUME q >= n PROVE FALSE
  <2>1. w * q >= w * n
    BY <1>2, <1>4
  <2> QED BY <1>1, <1>2, <1>3, <2>1
<1> QED BY <1>2, <1>4 DEF FieldOf, PlaceOfBit

(* Conversely, where a bit of a field is.                                  *)
LEMMA BitAtField ==
  ASSUME NEW w \in Nat, NEW n \in Nat, NEW f \in 1..n, NEW i \in 1..w
  PROVE  /\ BitAt(f, i, w) \in 1..(n * w)
         /\ FieldOf(BitAt(f, i, w), w) = f
         /\ PlaceOfBit(BitAt(f, i, w), w) = i
<1> DEFINE q == f - 1
           r == i - 1
           p == q * w
<1>1. w \in Nat \ {0} /\ q \in Nat /\ r \in 0..(w - 1) /\ n * w \in Nat
  OBVIOUS
<1>2. (q * w + r) \div w = q /\ (q * w + r) % w = r
  BY <1>1
<1>3. p \in Nat /\ p + w <= n * w
  <2>1. (q + 1) * w <= n * w
    BY <1>1
  <2>2. (q + 1) * w = q * w + w /\ q * w \in Nat
    BY <1>1
  <2> QED BY <2>1, <2>2
<1>4. BitAt(f, i, w) = p + i
  BY DEF BitAt
<1> HIDE DEF p
<1>5. BitAt(f, i, w) \in 1..(n * w) /\ BitAt(f, i, w) - 1 = p + r
  BY <1>1, <1>3, <1>4
<1>6. (p + r) \div w = q /\ (p + r) % w = r
  BY <1>2 DEF p
<1> QED BY <1>5, <1>6 DEF FieldOf, PlaceOfBit

(* A function on 1..n is a sequence of length n.                           *)
LEMMA FunctionIsSequence ==
  ASSUME NEW S, NEW n \in Nat, NEW f \in [1..n -> S]
  PROVE  f \in Seq(S) /\ Len(f) = n
BY SeqDef, LenProperties

(* Joining n fields of width w makes n * w bits.                           *)
LEMMA JoinType ==
  ASSUME NEW S, NEW w \in Nat, NEW n \in Nat, NEW fields \in [1..n -> [1..w -> S]]
  PROVE  Join(fields, w) \in [1..(n * w) -> S]
<1>1. Len(fields) = n
  BY FunctionIsSequence
<1>2. ASSUME NEW a \in 1..(n * w)
      PROVE  fields[FieldOf(a, w)][PlaceOfBit(a, w)] \in S
  <2>1. FieldOf(a, w) \in 1..n /\ PlaceOfBit(a, w) \in 1..w
    BY FieldBounds
  <2> QED BY <2>1
<1> QED BY <1>1, <1>2 DEF Join

(* Reading the fields back gives the fields.                               *)
LEMMA CutOfJoin ==
  ASSUME NEW S, NEW w \in Nat, NEW n \in Nat, NEW fields \in [1..n -> [1..w -> S]]
  PROVE  Cut(Join(fields, w), 0, n, w) = fields
<1>1. Len(fields) = n
  BY FunctionIsSequence
<1>2. ASSUME NEW f \in 1..n, NEW i \in 1..w
      PROVE  Join(fields, w)[0 + BitAt(f, i, w)] = fields[f][i]
  <2>1. /\ BitAt(f, i, w) \in 1..(n * w)
        /\ FieldOf(BitAt(f, i, w), w) = f
        /\ PlaceOfBit(BitAt(f, i, w), w) = i
    BY BitAtField
  <2>2. 0 + BitAt(f, i, w) = BitAt(f, i, w)
    BY <2>1
  <2> QED BY <1>1, <2>1, <2>2 DEF Join
<1>3. Cut(Join(fields, w), 0, n, w) = [f \in 1..n |-> [i \in 1..w |-> fields[f][i]]]
  BY <1>2 DEF Cut
<1> QED BY <1>3

(* A value written in any width is that many bits.                         *)
LEMMA WriteValueType ==
  ASSUME NEW value \in Nat, NEW width \in Nat
  PROVE  WriteValue(value, width) \in BitString(width)
<1>1. ASSUME NEW i \in 1..width
      PROVE  (value \div Pow2[width - i]) % 2 \in Bit
  <2>1. width - i \in Nat
    OBVIOUS
  <2>2. Pow2[width - i] \in Nat \ {0}
    BY <2>1, Pow2Above
  <2>3. value \div Pow2[width - i] \in Nat
    BY <2>2
  <2> QED BY <2>3 DEF Bit
<1> QED BY <1>1 DEF WriteValue, BitString

----------------------------------------------------------------------------
(* Reading a value that fits its width gives the value.                    *)

(* Halving a quotient is dividing by twice as much.                        *)
LEMMA HalfOfQuotient ==
  ASSUME NEW v \in Nat, NEW p \in Nat \ {0}
  PROVE  v \div (2 * p) = (v \div p) \div 2
<1> DEFINE q == v \div p
           r == v % p
           h == q \div 2
           b == q % 2
<1>1. q \in Nat /\ r \in 0..(p - 1) /\ v = p * q + r
  OBVIOUS
<1>2. h \in Nat /\ b \in 0..1 /\ q = 2 * h + b
  BY <1>1
<1> HIDE DEF q, r, h, b
<1>3. p * q = (2 * p) * h + p * b
  BY <1>1, <1>2
<1>4. p * b + r \in 0..(2 * p - 1)
  <2>1. CASE b = 0
    BY <1>1, <2>1
  <2>2. CASE b = 1
    BY <1>1, <2>2
  <2> QED BY <1>2, <2>1, <2>2
<1> DEFINE w == 2 * p
           rest == p * b + r
<1>5. w \in Nat \ {0} /\ rest \in 0..(w - 1) /\ v = w * h + rest
  BY <1>1, <1>2, <1>3, <1>4
<1> HIDE DEF w, rest
<1>6. (w * h + rest) \div w = h
  BY <1>2, <1>5
<1> QED BY <1>5, <1>6 DEF w, h, q

(* read_value undoes push_value for a value that fits the width.           *)
LEMMA ReadOfWrite ==
  ASSUME NEW value \in Nat, NEW width \in Nat, value < Pow2[width]
  PROVE  ReadValue(WriteValue(value, width)) = value
<1> DEFINE bits == WriteValue(value, width)
           g == [i \in 0..width |-> value \div Pow2[width - i]]
           Reads(f) == f = [i \in 0..width |-> IF i = 0 THEN 0 ELSE 2 * f[i - 1] + bits[i]]
<1>1. Len(bits) = width
  BY WriteValueType, FunctionIsSequence DEF BitString
<1>2. \A i \in 0..width : Pow2[width - i] \in Nat \ {0} /\ g[i] \in Nat
  <2> SUFFICES ASSUME NEW i \in 0..width
               PROVE  Pow2[width - i] \in Nat \ {0} /\ g[i] \in Nat
    OBVIOUS
  <2>1. width - i \in Nat
    OBVIOUS
  <2>2. Pow2[width - i] \in Nat \ {0}
    BY <2>1, Pow2Above
  <2> QED BY <2>2
<1>3. g[0] = 0 /\ g[width] = value
  <2>1. Pow2[width - 0] = Pow2[width] /\ Pow2[width - width] = 1 /\ Pow2[width] \in Nat
    BY Pow2Step, Pow2Above
  <2> QED BY <2>1
<1>4. ASSUME NEW i \in 1..width
      PROVE  g[i] = 2 * g[i - 1] + bits[i]
  <2>1. i \in 0..width /\ i - 1 \in 0..width /\ width - i \in Nat
        /\ width - (i - 1) = (width - i) + 1
    OBVIOUS
  <2>2. Pow2[width - (i - 1)] = 2 * Pow2[width - i]
    BY <2>1, Pow2Step
  <2>3. g[i - 1] = g[i] \div 2
    BY <1>2, <2>1, <2>2, HalfOfQuotient
  <2>4. bits[i] = g[i] % 2
    BY <2>1 DEF WriteValue
  <2> HIDE DEF g, bits
  <2>5. g[i] \in Nat
    BY <1>2, <2>1
  <2> QED BY <2>3, <2>4, <2>5
<1> HIDE DEF g, bits
<1>5. Reads(g)
  <2>1. \A i \in 0..width : g[i] = IF i = 0 THEN 0 ELSE 2 * g[i - 1] + bits[i]
    BY <1>3, <1>4
  <2>2. g = [i \in 0..width |-> g[i]]
    BY DEF g
  <2> QED BY <2>1, <2>2
<1>6. ASSUME NEW f, Reads(f), NEW i \in 0..width
      PROVE  f[i] = g[i]
  <2> DEFINE Bad == {k \in 0..width : f[k] # g[k]}
  <2>1. SUFFICES ASSUME Bad # {} PROVE FALSE
    OBVIOUS
  <2>2. PICK k \in Bad : \A j \in Bad : k <= j
    <3>1. Bad \subseteq Nat
      OBVIOUS
    <3> QED BY <2>1, <3>1, LeastElement
  <2>3. \A j \in 0..width : f[j] = IF j = 0 THEN 0 ELSE 2 * f[j - 1] + bits[j]
    BY <1>6
  <2>4. k # 0
    BY <1>3, <2>3
  <2>5. k \in 1..width /\ k - 1 \in 0..width /\ k - 1 \notin Bad
    BY <2>2, <2>4
  <2>6. f[k - 1] = g[k - 1]
    BY <2>5
  <2> QED BY <1>4, <2>2, <2>3, <2>5, <2>6
<1> DEFINE F == CHOOSE f : Reads(f)
<1>7. Reads(F)
  BY <1>5
<1>8. ReadValue(bits) = F[width]
  BY <1>1 DEF ReadValue
<1> HIDE DEF F, Reads
<1>9. width \in 0..width
  OBVIOUS
<1>10. F[width] = g[width]
  BY <1>6, <1>7, <1>9
<1> QED BY <1>3, <1>8, <1>10 DEF bits

(* The values read after each of the first n bits.                         *)
ValuesRead(bits, n, value) ==
  value = [i \in 0..n |-> IF i = 0 THEN 0 ELSE 2 * value[i - 1] + bits[i]]

(* Any bits can be read, as a value of their width.                        *)
LEMMA ValuesExist ==
  ASSUME NEW bits, NEW n \in Nat, \A i \in 1..n : bits[i] \in Bit
  PROVE  \E value : ValuesRead(bits, n, value)
<1> DEFINE Bad == {m \in Nat : m <= n /\ ~ \E value : ValuesRead(bits, m, value)}
<1>1. SUFFICES ASSUME Bad # {} PROVE FALSE
  OBVIOUS
<1>2. PICK m \in Bad : \A k \in Bad : m <= k
  BY <1>1, LeastElement
<1>3. m \in Nat /\ m <= n /\ \A value : ~ ValuesRead(bits, m, value)
  OBVIOUS
<1>4. m # 0
  <2> DEFINE zero == [i \in 0..0 |-> 0]
  <2>1. zero = [i \in 0..0 |-> IF i = 0 THEN 0 ELSE 2 * zero[i - 1] + bits[i]]
    OBVIOUS
  <2> HIDE DEF zero
  <2>2. ValuesRead(bits, 0, zero)
    BY <2>1 DEF ValuesRead
  <2> QED BY <2>2, <1>3
<1>5. m - 1 \in Nat /\ m - 1 \notin Bad /\ m - 1 <= n
  BY <1>2, <1>3, <1>4
<1>6. PICK value : ValuesRead(bits, m - 1, value)
  BY <1>5
<1> DEFINE next == [i \in 0..m |-> IF i = m THEN 2 * value[m - 1] + bits[m] ELSE value[i]]
<1>7. ASSUME NEW i \in 0..m
      PROVE  next[i] = IF i = 0 THEN 0 ELSE 2 * next[i - 1] + bits[i]
  <2>1. \A k \in 0..(m - 1) :
           value[k] = IF k = 0 THEN 0 ELSE 2 * value[k - 1] + bits[k]
    BY <1>6 DEF ValuesRead
  <2>2. CASE i = 0
    <3>1. 0 \in 0..(m - 1) /\ i # m
      BY <1>3, <1>4, <2>2
    <3> QED BY <2>1, <2>2, <3>1
  <2>3. CASE i # 0 /\ i = m
    <3>1. i - 1 \in 0..m /\ i - 1 # m
      BY <1>3, <2>3
    <3> QED BY <2>3, <3>1
  <2>4. CASE i # 0 /\ i # m
    <3>1. i - 1 \in 0..m /\ i - 1 # m /\ i \in 0..(m - 1)
      BY <1>3, <2>4
    <3>2. next[i] = value[i] /\ next[i - 1] = value[i - 1]
      BY <2>4, <3>1
    <3> QED BY <2>1, <2>4, <3>1, <3>2
  <2> QED BY <2>2, <2>3, <2>4
<1>8. next = [i \in 0..m |-> next[i]]
  OBVIOUS
<1> HIDE DEF next
<1>9. ValuesRead(bits, m, next)
  BY <1>7, <1>8 DEF ValuesRead
<1> QED BY <1>3, <1>9

(* What is read from a field is a value that fits it.                      *)
LEMMA ReadValueFits ==
  ASSUME NEW width \in Nat, NEW bits \in BitString(width)
  PROVE  ReadValue(bits) \in Nat /\ ReadValue(bits) < Pow2[width]
<1> DEFINE value == CHOOSE value : ValuesRead(bits, width, value)
<1>1. Len(bits) = width /\ \A i \in 1..width : bits[i] \in Bit
  BY FunctionIsSequence DEF BitString
<1>2. ReadValue(bits) = value[width]
  BY <1>1 DEF ReadValue, ValuesRead
<1>3. ValuesRead(bits, width, value)
  BY <1>1, ValuesExist
<1> HIDE DEF value
<1>4. \A i \in 0..width : value[i] = IF i = 0 THEN 0 ELSE 2 * value[i - 1] + bits[i]
  BY <1>3 DEF ValuesRead
<1> DEFINE Bad == {i \in 0..width : ~ (value[i] \in Nat /\ value[i] < Pow2[i])}
<1>5. Bad = {}
  <2>1. SUFFICES ASSUME Bad # {} PROVE FALSE
    OBVIOUS
  <2>2. PICK i \in Bad : \A k \in Bad : i <= k
    <3>1. Bad \subseteq Nat
      OBVIOUS
    <3> QED BY <2>1, <3>1, LeastElement
  <2>3. i # 0
    BY <1>4, Pow2Step
  <2>4. i \in 1..width /\ i - 1 \in Nat /\ i - 1 \in 0..width /\ (i - 1) + 1 = i /\ i - 1 \notin Bad
    BY <2>2, <2>3
  <2>5. value[i - 1] \in Nat /\ value[i - 1] < Pow2[i - 1]
    BY <2>4
  <2>6. Pow2[i] = 2 * Pow2[i - 1] /\ Pow2[i - 1] \in Nat
    BY <2>4, Pow2Step, Pow2Above
  <2>7. value[i] = 2 * value[i - 1] + bits[i] /\ bits[i] \in {0, 1}
    BY <1>1, <1>4, <2>3, <2>4 DEF Bit
  <2>8. value[i] \in Nat /\ value[i] < Pow2[i]
    BY <2>5, <2>6, <2>7
  <2> QED BY <2>2, <2>8
<1> QED BY <1>2, <1>5

----------------------------------------------------------------------------
(* Sequences of fields.                                                    *)

(* Fields joined are one sequence, as long as all of them together.        *)
LEMMA JoinOfSeq ==
  ASSUME NEW S, NEW w \in Nat, NEW fields \in Seq([1..w -> S])
  PROVE  /\ Join(fields, w) \in Seq(S)
         /\ Len(Join(fields, w)) = Len(fields) * w
         /\ Len(fields) * w \in Nat
<1>1. Len(fields) \in Nat /\ fields \in [1..Len(fields) -> [1..w -> S]]
  BY LenProperties
<1>2. Join(fields, w) \in [1..(Len(fields) * w) -> S]
  BY <1>1, JoinType
<1>3. Len(fields) * w \in Nat
  BY <1>1
<1> QED BY <1>2, <1>3, FunctionIsSequence

(* Where the elements of a concatenation are.                              *)
LEMMA ConcatPlaces ==
  ASSUME NEW S, NEW s \in Seq(S), NEW t \in Seq(S),
         NEW m, NEW n, Len(s) = m, Len(t) = n
  PROVE  /\ m \in Nat /\ n \in Nat
         /\ s \o t \in Seq(S)
         /\ Len(s \o t) = m + n
         /\ \A i \in 1..m : (s \o t)[i] = s[i]
         /\ \A i \in 1..n : (s \o t)[m + i] = t[i]
OBVIOUS

(* A bit after m fields is in a field after them.                          *)
LEMMA FieldShift ==
  ASSUME NEW w \in Nat \ {0}, NEW m \in Nat, NEW a \in Nat \ {0}
  PROVE  /\ FieldOf(m * w + a, w) = m + FieldOf(a, w)
         /\ PlaceOfBit(m * w + a, w) = PlaceOfBit(a, w)
<1> DEFINE q == (a - 1) \div w
           r == (a - 1) % w
<1>1. q \in Nat /\ r \in 0..(w - 1) /\ a - 1 = w * q + r
  BY SMT
<1> HIDE DEF q, r
<1>2. (m * w + a) - 1 = w * (m + q) + r
  BY <1>1
<1>3. (w * (m + q) + r) \div w = m + q /\ (w * (m + q) + r) % w = r
  BY <1>1
<1>4. ((m * w + a) - 1) \div w = m + q /\ ((m * w + a) - 1) % w = r
  BY <1>2, <1>3
<1> QED BY <1>1, <1>4 DEF FieldOf, PlaceOfBit, q, r

(* The fields of two sequences, one after the other.                       *)
LEMMA JoinConcat ==
  ASSUME NEW S, NEW w \in Nat, NEW x \in Seq([1..w -> S]), NEW y \in Seq([1..w -> S])
  PROVE  Join(x \o y, w) = Join(x, w) \o Join(y, w)
<1> DEFINE m == Len(x)
           n == Len(y)
           xy == x \o y
           before == m * w
           behind == n * w
<1>1. /\ m \in Nat /\ n \in Nat /\ before \in Nat /\ behind \in Nat
      /\ xy \in Seq([1..w -> S]) /\ Len(xy) = m + n
      /\ \A i \in 1..(m + n) : xy[i] = IF i <= m THEN x[i] ELSE y[i - m]
      /\ (m + n) * w = before + behind
  BY ConcatProperties
<1>2. /\ Join(x, w) \in Seq(S) /\ Len(Join(x, w)) = before
      /\ Join(y, w) \in Seq(S) /\ Len(Join(y, w)) = behind
      /\ Join(xy, w) \in Seq(S) /\ Len(Join(xy, w)) = before + behind
  BY <1>1, JoinOfSeq
<1>3. /\ Join(x, w) \o Join(y, w) \in Seq(S)
      /\ Len(Join(x, w) \o Join(y, w)) = before + behind
      /\ \A a \in 1..before : (Join(x, w) \o Join(y, w))[a] = Join(x, w)[a]
      /\ \A a \in 1..behind : (Join(x, w) \o Join(y, w))[before + a] = Join(y, w)[a]
  <2> DEFINE s == Join(x, w)
             t == Join(y, w)
  <2> HIDE DEF s, t, before, behind
  <2>1. s \in Seq(S) /\ t \in Seq(S) /\ Len(s) = before /\ Len(t) = behind
    BY <1>2 DEF s, t
  <2>2. /\ s \o t \in Seq(S)
        /\ Len(s \o t) = before + behind
        /\ \A a \in 1..before : (s \o t)[a] = s[a]
        /\ \A a \in 1..behind : (s \o t)[before + a] = t[a]
    BY <2>1, ConcatPlaces
  <2> QED BY <2>2 DEF s, t
<1>4. /\ \A a \in 1..before : Join(x, w)[a] = x[FieldOf(a, w)][PlaceOfBit(a, w)]
      /\ \A a \in 1..behind : Join(y, w)[a] = y[FieldOf(a, w)][PlaceOfBit(a, w)]
      /\ \A a \in 1..(before + behind) :
           Join(xy, w)[a] = xy[FieldOf(a, w)][PlaceOfBit(a, w)]
  BY <1>1 DEF Join
<1>5. ASSUME NEW a \in 1..(before + behind)
      PROVE  Join(xy, w)[a] = (Join(x, w) \o Join(y, w))[a]
  <2>1. w \in Nat \ {0}
    <3>1. w = 0 => before = 0 /\ behind = 0
      BY <1>1
    <3> QED BY <1>1, <3>1
  <2>2. CASE a <= before
    <3>1. a \in 1..(m * w)
      BY <1>1, <2>2
    <3>2. FieldOf(a, w) \in 1..m
      BY <1>1, <3>1, FieldBounds
    <3>3. xy[FieldOf(a, w)] = x[FieldOf(a, w)]
      <4> HIDE DEF xy
      <4> QED BY <1>1, <3>2
    <3> HIDE DEF before, behind, xy
    <3>4. a \in 1..before
      BY <1>1, <2>2
    <3> QED BY <1>3, <1>4, <2>2, <3>3, <3>4
  <2>3. CASE ~ (a <= before)
    <3> DEFINE b == a - before
    <3>1. b \in 1..behind /\ b \in Nat \ {0} /\ b \in 1..(n * w)
      BY <1>1, <2>3
    <3>2. m * w + b = a
      BY <1>1
    <3>3. FieldOf(b, w) \in 1..n
      BY <1>1, <3>1, FieldBounds
    <3>4. FieldOf(a, w) = m + FieldOf(b, w) /\ PlaceOfBit(a, w) = PlaceOfBit(b, w)
      <4> HIDE DEF b
      <4> QED BY <1>1, <2>1, <3>1, <3>2, FieldShift
    <3>5. xy[FieldOf(a, w)] = y[FieldOf(b, w)]
      <4>1. m + FieldOf(b, w) \in 1..(m + n) /\ ~ (m + FieldOf(b, w) <= m)
            /\ (m + FieldOf(b, w)) - m = FieldOf(b, w)
        BY <1>1, <3>3
      <4> HIDE DEF xy
      <4> QED BY <1>1, <3>4, <4>1
    <3>6. before + b = a
      BY <1>1
    <3> HIDE DEF before, behind, xy, b
    <3>7. (Join(x, w) \o Join(y, w))[a] = Join(y, w)[b]
      BY <1>3, <3>1, <3>6
    <3> QED BY <1>4, <3>1, <3>4, <3>5, <3>7
  <2> QED BY <2>2, <2>3
<1> HIDE DEF xy, before, behind
<1>6. Join(xy, w) = Join(x, w) \o Join(y, w)
  BY <1>2, <1>3, <1>5, SeqEqual
<1> QED BY <1>6 DEF xy

(* Fields are read back from where they are in a longer bit string.        *)
LEMMA CutInside ==
  ASSUME NEW S, NEW w \in Nat, NEW fields \in Seq([1..w -> S]),
         NEW bits, NEW start \in Nat,
         \A a \in 1..(Len(fields) * w) : bits[start + a] = Join(fields, w)[a]
  PROVE  Cut(bits, start, Len(fields), w) = fields
<1> DEFINE n == Len(fields)
<1>1. n \in Nat /\ fields \in [1..n -> [1..w -> S]]
  BY LenProperties
<1>2. ASSUME NEW f \in 1..n, NEW i \in 1..w
      PROVE  bits[start + BitAt(f, i, w)] = fields[f][i]
  <2>1. /\ BitAt(f, i, w) \in 1..(n * w)
        /\ FieldOf(BitAt(f, i, w), w) = f
        /\ PlaceOfBit(BitAt(f, i, w), w) = i
    BY <1>1, BitAtField
  <2>2. bits[start + BitAt(f, i, w)] = Join(fields, w)[BitAt(f, i, w)]
    BY <2>1
  <2> QED BY <2>1, <2>2 DEF Join
<1>3. Cut(bits, start, n, w) = [f \in 1..n |-> [i \in 1..w |-> fields[f][i]]]
  BY <1>2 DEF Cut
<1> QED BY <1>1, <1>3

(* Fields of one width are cut from bits that are long enough.             *)
LEMMA CutType ==
  ASSUME NEW bits \in Seq(Bit), NEW start \in Nat, NEW count \in Nat, NEW width \in Nat,
         start + count * width <= Len(bits)
  PROVE  /\ Cut(bits, start, count, width) \in Seq(BitString(width))
         /\ Len(Cut(bits, start, count, width)) = count
         /\ \A f \in 1..count : Cut(bits, start, count, width)[f] \in BitString(width)
<1>1. count * width \in Nat /\ Len(bits) \in Nat
  OBVIOUS
<1>2. ASSUME NEW f \in 1..count, NEW i \in 1..width
      PROVE  bits[start + BitAt(f, i, width)] \in Bit
  <2>1. BitAt(f, i, width) \in 1..(count * width)
    BY BitAtField
  <2>2. start + BitAt(f, i, width) \in 1..Len(bits)
    BY <1>1, <2>1
  <2> QED BY <2>2
<1>3. Cut(bits, start, count, width) \in [1..count -> BitString(width)]
  BY <1>2 DEF Cut, BitString
<1> QED BY <1>3, FunctionIsSequence

(* Padding to a whole byte adds less than a byte.                          *)
LEMMA PadToByteLen ==
  ASSUME NEW bits \in Seq(Bit)
  PROVE  /\ PadToByte(bits) \in Seq(Bit)
         /\ \E bytes \in Nat : /\ Len(PadToByte(bits)) = 8 * bytes
                               /\ 8 * bytes < Len(bits) + 8
         /\ Len(bits) <= Len(PadToByte(bits))
         /\ \A a \in 1..Len(bits) : PadToByte(bits)[a] = bits[a]
<1> DEFINE n == Len(bits)
           pad == (8 - (n % 8)) % 8
<1>1. n \in Nat /\ pad \in Nat
  OBVIOUS
<1>2. ZeroBits(pad) \in Seq(Bit) /\ Len(ZeroBits(pad)) = pad
  BY <1>1, FunctionIsSequence DEF ZeroBits, Bit
<1>3. /\ PadToByte(bits) \in Seq(Bit) /\ Len(PadToByte(bits)) = n + pad
      /\ \A a \in 1..n : PadToByte(bits)[a] = bits[a]
  <2> HIDE DEF pad
  <2>1. PadToByte(bits) = bits \o ZeroBits(pad)
    BY DEF PadToByte, pad
  <2> DEFINE zeros == ZeroBits(pad)
  <2> HIDE DEF zeros
  <2>2. zeros \in Seq(Bit) /\ Len(zeros) = pad /\ PadToByte(bits) = bits \o zeros
    BY <1>2, <2>1 DEF zeros
  <2> QED BY <2>2, ConcatPlaces
<1>4. (n + pad) \div 8 \in Nat /\ n + pad = 8 * ((n + pad) \div 8) /\ n + pad < n + 8
  BY <1>1
<1> HIDE DEF pad
<1> QED BY <1>1, <1>3, <1>4

----------------------------------------------------------------------------
(* The geometry, as far as the proofs need it.                             *)
LEMMA Geometry ==
  /\ BitsPerSample \in Nat \ {0}
  /\ SamplesPerChunk \in Nat \ {0}
  /\ ChunkBitLen \in Nat \ {0}
  /\ ChunkBitLen = SamplesPerChunk * BitsPerSample
<1>1. BitsPerSample \in Nat \ {0} /\ SamplesPerChunk \in Nat \ {0}
  BY ConfigAssumption
<1>2. ASSUME NEW b \in Nat \ {0}, NEW c \in Nat \ {0}
      PROVE  b * c \in Nat \ {0} /\ b * c = c * b
  OBVIOUS
<1> QED BY <1>1, <1>2 DEF ChunkBitLen

----------------------------------------------------------------------------
(* Every deviation position is a bit of a sample of the chunk: the code    *)
(* indexes with it unchecked.                                              *)
LEMMA DeviationPositionsType ==
  ASSUME NEW l_d \in 0..ChunkBitLen
  PROVE  DeviationPositions(l_d) \in [1..l_d -> Position]
<1> DEFINE m == l_d \div SamplesPerChunk
           e == l_d % SamplesPerChunk
<1>1. m \in Nat /\ e \in 0..(SamplesPerChunk - 1) /\ l_d = SamplesPerChunk * m + e
  BY Geometry
<1>2. ASSUME NEW i \in 1..l_d
      PROVE  LET level == (i - 1) \div SamplesPerChunk
                 place == ((i - 1) % SamplesPerChunk) + 1
                 skipped == IF level < m THEN 0 ELSE SamplesPerChunk - e
             IN  <<skipped + place, BitsPerSample - level>> \in Position
  <2> DEFINE level == (i - 1) \div SamplesPerChunk
             rest == (i - 1) % SamplesPerChunk
  <2>1. /\ level \in Nat /\ rest \in 0..(SamplesPerChunk - 1)
        /\ i - 1 = SamplesPerChunk * level + rest
    BY Geometry
  <2> HIDE DEF m, e, level, rest
  <2>2. level <= m
    <3>1. ASSUME level >= m + 1 PROVE FALSE
      <4>1. SamplesPerChunk * level >= SamplesPerChunk * (m + 1)
        BY <1>1, <2>1, <3>1, Geometry
      <4>2. SamplesPerChunk * (m + 1) = SamplesPerChunk * m + SamplesPerChunk
        BY <1>1, Geometry
      <4> QED BY <1>1, <2>1, <4>1, <4>2, Geometry
    <3> QED BY <1>1, <2>1, <3>1
  <2>3. CASE level < m
    <3>1. m <= BitsPerSample
      <4>1. ASSUME m >= BitsPerSample + 1 PROVE FALSE
        <5>1. SamplesPerChunk * m >= SamplesPerChunk * (BitsPerSample + 1)
          BY <1>1, <4>1, Geometry
        <5>2. SamplesPerChunk * (BitsPerSample + 1) = ChunkBitLen + SamplesPerChunk
          BY Geometry
        <5> QED BY <1>1, <5>1, <5>2, Geometry
      <4> QED BY <1>1, <4>1, Geometry
    <3>2. BitsPerSample - level \in 1..BitsPerSample /\ rest + 1 \in 1..SamplesPerChunk
      BY <2>1, <2>3, <3>1, <1>1, Geometry
    <3> QED BY <2>3, <3>2 DEF Position, level, rest
  <2>4. CASE level = m
    <3>1. rest < e
      BY <1>1, <2>1, <2>4, Geometry
    <3>2. m < BitsPerSample
      <4>1. ASSUME m >= BitsPerSample PROVE FALSE
        <5>1. SamplesPerChunk * m >= SamplesPerChunk * BitsPerSample
          BY <1>1, <4>1, Geometry
        <5> QED BY <1>1, <2>1, <3>1, <5>1, Geometry
      <4> QED BY <1>1, <4>1, Geometry
    <3>3. BitsPerSample - level \in 1..BitsPerSample
      BY <2>1, <2>4, <3>2, <1>1, Geometry
    <3>4. (SamplesPerChunk - e) + (rest + 1) \in 1..SamplesPerChunk
      BY <1>1, <2>1, <3>1, Geometry
    <3>5. ~ (level < m)
      BY <2>4, <1>1
    <3> QED BY <3>3, <3>4, <3>5 DEF Position, level, rest
  <2> QED BY <2>1, <2>2, <2>3, <2>4, <1>1
<1> QED BY <1>2 DEF DeviationPositions

(* The parts of a transformed chunk are a chunk and l_d bits.              *)
LEMMA TransformType ==
  ASSUME NEW l_d \in 0..ChunkBitLen, NEW samples \in Chunk
  PROVE  /\ BaseSamples(samples, l_d) \in Chunk
         /\ DeviationBits(samples, l_d) \in BitString(l_d)
<1>1. BaseSamples(samples, l_d) \in Chunk
  BY DEF BaseSamples, Chunk, Sample, BitString, Bit
<1>2. ASSUME NEW i \in 1..l_d
      PROVE  samples[DeviationPositions(l_d)[i][1]][DeviationPositions(l_d)[i][2]] \in Bit
  <2>1. DeviationPositions(l_d)[i] \in Position
    BY DeviationPositionsType
  <2> QED BY <2>1 DEF Position, Chunk, Sample, BitString
<1>3. DeviationBits(samples, l_d) \in BitString(l_d)
  BY <1>2 DEF DeviationBits, BitString
<1> QED BY <1>1, <1>3

----------------------------------------------------------------------------
(* Packing a chunk and unpacking it again.                                 *)
LEMMA PackType ==
  ASSUME NEW samples \in Chunk
  PROVE  PackSamples(samples) \in PackedBase
<1>1. samples \in [1..SamplesPerChunk -> [1..BitsPerSample -> Bit]]
  BY DEF Chunk, Sample, BitString
<1>2. Join(samples, BitsPerSample) \in [1..(SamplesPerChunk * BitsPerSample) -> Bit]
  BY <1>1, JoinType, Geometry
<1> QED BY <1>2, Geometry DEF PackSamples, PackedBase, BitString

(* unpack_samples undoes pack_samples.                                     *)
LEMMA UnpackOfPack ==
  ASSUME NEW samples \in Chunk
  PROVE  UnpackSamples(PackSamples(samples)) = samples
<1>1. samples \in [1..SamplesPerChunk -> [1..BitsPerSample -> Bit]]
  BY DEF Chunk, Sample, BitString
<1>2. Cut(Join(samples, BitsPerSample), 0, SamplesPerChunk, BitsPerSample) = samples
  BY <1>1, CutOfJoin, Geometry
<1>3. Len(PackSamples(samples)) = ChunkBitLen
  BY PackType, FunctionIsSequence, Geometry DEF PackedBase, BitString
<1>4. ChunkBitLen \div BitsPerSample = SamplesPerChunk
  BY Geometry
<1> QED BY <1>2, <1>3, <1>4 DEF UnpackSamples, PackSamples

----------------------------------------------------------------------------
(* deviation_bit_offset finds every deviation position.                    *)
LEMMA DeviationOffsetIsPlace ==
  ASSUME NEW l_d \in 0..ChunkBitLen, NEW s, NEW b, IsDeviationPosition(l_d, s, b)
  PROVE  /\ DeviationBitOffset(l_d, s, b) \in 1..l_d
         /\ DeviationPositions(l_d)[DeviationBitOffset(l_d, s, b)] = <<s, b>>
<1> DEFINE At == {i \in 1..l_d : DeviationPositions(l_d)[i] = <<s, b>>}
<1>1. At # {} /\ At \subseteq Nat
  BY DEF IsDeviationPosition
<1>2. PICK first \in At : \A i \in At : first <= i
  BY <1>1, LeastElement
<1>3. /\ first \in 1..l_d
      /\ DeviationPositions(l_d)[first] = <<s, b>>
      /\ \A j \in 1..(first - 1) : DeviationPositions(l_d)[j] # <<s, b>>
  <2>1. ASSUME NEW j \in 1..(first - 1) PROVE j \notin At
    BY <1>2
  <2>2. \A j \in 1..(first - 1) : j \in 1..l_d
    BY <1>2
  <2> QED BY <1>2, <2>1, <2>2
<1> QED BY <1>3 DEF DeviationBitOffset

(* The deviation has the bit of every deviation position, at the place     *)
(* deviation_bit_offset gives.                                             *)
LEMMA DeviationBitIsThere ==
  ASSUME NEW l_d \in 0..ChunkBitLen, NEW samples, NEW s, NEW b,
         IsDeviationPosition(l_d, s, b)
  PROVE  DeviationBits(samples, l_d)[DeviationBitOffset(l_d, s, b)] = samples[s][b]
<1>1. /\ DeviationBitOffset(l_d, s, b) \in 1..l_d
      /\ DeviationPositions(l_d)[DeviationBitOffset(l_d, s, b)] = <<s, b>>
  BY DeviationOffsetIsPlace
<1> QED BY <1>1 DEF DeviationBits

(* Writing the deviation back into the base it was taken from restores the *)
(* chunk.                                                                  *)
LEMMA InverseOfTransform ==
  ASSUME NEW l_d \in 0..ChunkBitLen, NEW samples \in Chunk
  PROVE  InverseTransformChunk(BaseSamples(samples, l_d),
                               DeviationBits(samples, l_d), l_d) = samples
<1> DEFINE Restored(s, b) ==
             IF IsDeviationPosition(l_d, s, b)
             THEN DeviationBits(samples, l_d)[DeviationBitOffset(l_d, s, b)]
             ELSE BaseSamples(samples, l_d)[s][b]
<1>1. ASSUME NEW s \in 1..SamplesPerChunk, NEW b \in 1..BitsPerSample
      PROVE  Restored(s, b) = samples[s][b]
  <2>1. CASE IsDeviationPosition(l_d, s, b)
    BY <2>1, DeviationBitIsThere
  <2>2. CASE ~ IsDeviationPosition(l_d, s, b)
    BY <2>2 DEF BaseSamples
  <2> QED BY <2>1, <2>2
<1>2. InverseTransformChunk(BaseSamples(samples, l_d), DeviationBits(samples, l_d), l_d)
        = [s \in 1..SamplesPerChunk |-> [b \in 1..BitsPerSample |-> samples[s][b]]]
  BY <1>1 DEF InverseTransformChunk
<1> QED BY <1>2 DEF Chunk, Sample, BitString

(* A count of l_d deviation bits: whole levels and the rest.               *)
LEMMA LevelsAndRest ==
  ASSUME NEW n \in Nat
  PROVE  /\ n \div SamplesPerChunk \in Nat
         /\ n % SamplesPerChunk \in 0..(SamplesPerChunk - 1)
         /\ n = SamplesPerChunk * (n \div SamplesPerChunk) + (n % SamplesPerChunk)
BY Geometry

(* Products with the chunk size grow with the other factor.                *)
LEMMA LevelsGrow ==
  ASSUME NEW a \in Nat, NEW b \in Nat, a < b
  PROVE  SamplesPerChunk * a + SamplesPerChunk <= SamplesPerChunk * b
<1>1. SamplesPerChunk * (a + 1) <= SamplesPerChunk * b
  BY Geometry
<1>2. SamplesPerChunk * (a + 1) = SamplesPerChunk * a + SamplesPerChunk
  BY Geometry
<1> QED BY <1>1, <1>2

(* Which bits are deviation positions, without enumerating them: in every  *)
(* sample those of the levels that l_d fills, and in the last samples that *)
(* of the level it does not fill.                                          *)
LEMMA DeviationPositionIff ==
  ASSUME NEW l_d \in 0..ChunkBitLen,
         NEW s \in 1..SamplesPerChunk, NEW b \in 1..BitsPerSample
  PROVE  IsDeviationPosition(l_d, s, b) <=>
           \/ BitsPerSample - b < l_d \div SamplesPerChunk
           \/ /\ BitsPerSample - b = l_d \div SamplesPerChunk
              /\ s > SamplesPerChunk - (l_d % SamplesPerChunk)
<1> DEFINE m == l_d \div SamplesPerChunk
           e == l_d % SamplesPerChunk
           level == BitsPerSample - b
<1>1. m \in Nat /\ e \in 0..(SamplesPerChunk - 1) /\ l_d = SamplesPerChunk * m + e
  BY LevelsAndRest, Geometry
<1>2. level \in Nat /\ SamplesPerChunk * level \in Nat
  BY Geometry
<1>3. ASSUME NEW i \in 1..l_d, DeviationPositions(l_d)[i] = <<s, b>>
      PROVE  level < m \/ (level = m /\ s > SamplesPerChunk - e)
  <2> DEFINE at == (i - 1) \div SamplesPerChunk
             rest == (i - 1) % SamplesPerChunk
  <2>1. /\ at \in Nat /\ rest \in 0..(SamplesPerChunk - 1)
        /\ i - 1 = SamplesPerChunk * at + rest
    <3>1. i - 1 \in Nat
      OBVIOUS
    <3> QED BY <3>1, LevelsAndRest
  <2>2. /\ s = (IF at < m THEN 0 ELSE SamplesPerChunk - e) + (rest + 1)
        /\ b = BitsPerSample - at
    BY <1>3 DEF DeviationPositions
  <2> HIDE DEF m, e, at, rest
  <2>3. level = at
    BY <2>1, <2>2, Geometry
  <2>4. at <= m
    <3>1. ASSUME m < at PROVE FALSE
      <4>1. SamplesPerChunk * m + SamplesPerChunk <= SamplesPerChunk * at
        BY <1>1, <2>1, <3>1, LevelsGrow
      <4>2. SamplesPerChunk * m \in Nat /\ SamplesPerChunk * at \in Nat
        BY <1>1, <2>1, Geometry
      <4> QED BY <1>1, <2>1, <4>1, <4>2, Geometry
    <3> QED BY <1>1, <2>1, <3>1
  <2>5. CASE at = m
    <3>1. s = SamplesPerChunk - e + (rest + 1)
      BY <1>1, <2>2, <2>5
    <3> QED BY <1>1, <2>1, <2>3, <2>5, <3>1, Geometry
  <2> QED BY <1>1, <2>1, <2>3, <2>4, <2>5
<1>4. ASSUME level < m \/ (level = m /\ s > SamplesPerChunk - e)
      PROVE  IsDeviationPosition(l_d, s, b)
  <2> DEFINE skipped == IF level < m THEN 0 ELSE SamplesPerChunk - e
             rest == s - skipped - 1
             i == SamplesPerChunk * level + rest + 1
  <2>1. rest \in 0..(SamplesPerChunk - 1)
    BY <1>1, <1>2, <1>4, Geometry
  <2>2. i \in 1..l_d
    <3>1. CASE level < m
      <4>1. SamplesPerChunk * level + SamplesPerChunk <= SamplesPerChunk * m
        BY <1>1, <1>2, <3>1, LevelsGrow
      <4>2. SamplesPerChunk * m \in Nat
        BY <1>1, Geometry
      <4> QED BY <1>1, <1>2, <2>1, <4>1, <4>2, Geometry
    <3>2. CASE level = m /\ s > SamplesPerChunk - e
      <4>1. skipped = SamplesPerChunk - e
        BY <1>1, <3>2
      <4>2. SamplesPerChunk * m = SamplesPerChunk * level
        BY <3>2
      <4> QED BY <1>1, <1>2, <2>1, <3>2, <4>1, <4>2, Geometry
    <3> QED BY <1>4, <3>1, <3>2
  <2>3. (i - 1) \div SamplesPerChunk = level /\ (i - 1) % SamplesPerChunk = rest
    <3>1. ASSUME NEW r \in 0..(SamplesPerChunk - 1), NEW q \in Nat
          PROVE  /\ (SamplesPerChunk * q + r) \div SamplesPerChunk = q
                 /\ (SamplesPerChunk * q + r) % SamplesPerChunk = r
      BY Geometry
    <3>2. i - 1 = SamplesPerChunk * level + rest
      BY <1>2, <2>1, Geometry
    <3> HIDE DEF level, rest, i
    <3> QED BY <1>2, <2>1, <3>1, <3>2
  <2>4. DeviationPositions(l_d)[i] = <<skipped + (rest + 1), BitsPerSample - level>>
    BY <2>2, <2>3 DEF DeviationPositions
  <2>5. skipped + (rest + 1) = s /\ BitsPerSample - level = b
    BY <1>1, Geometry
  <2> QED BY <2>2, <2>4, <2>5 DEF IsDeviationPosition
<1> QED BY <1>3, <1>4 DEF IsDeviationPosition

(* A wider deviation takes bits out of the base and puts none back.        *)
LEMMA DeviationPositionsGrow ==
  ASSUME NEW l_d \in 0..ChunkBitLen, NEW wider \in l_d..ChunkBitLen,
         NEW s \in 1..SamplesPerChunk, NEW b \in 1..BitsPerSample,
         IsDeviationPosition(l_d, s, b)
  PROVE  IsDeviationPosition(wider, s, b)
<1> DEFINE m == l_d \div SamplesPerChunk
           e == l_d % SamplesPerChunk
           M == wider \div SamplesPerChunk
           E == wider % SamplesPerChunk
<1>1. /\ m \in Nat /\ e \in 0..(SamplesPerChunk - 1) /\ l_d = SamplesPerChunk * m + e
      /\ M \in Nat /\ E \in 0..(SamplesPerChunk - 1) /\ wider = SamplesPerChunk * M + E
      /\ wider \in 0..ChunkBitLen
  BY LevelsAndRest, Geometry
<1>2. \/ BitsPerSample - b < m
      \/ BitsPerSample - b = m /\ s > SamplesPerChunk - e
  BY DeviationPositionIff
<1> HIDE DEF m, e, M, E
<1>3. SamplesPerChunk * m \in Nat /\ SamplesPerChunk * M \in Nat
  BY <1>1, Geometry
<1>4. m <= M
  <2>1. ASSUME M < m PROVE FALSE
    <3>1. SamplesPerChunk * M + SamplesPerChunk <= SamplesPerChunk * m
      BY <1>1, <2>1, LevelsGrow
    <3> QED BY <1>1, <1>3, <3>1, Geometry
  <2> QED BY <1>1, <2>1
<1>5. m = M => e <= E
  BY <1>1, <1>3
<1>6. \/ BitsPerSample - b < M
      \/ BitsPerSample - b = M /\ s > SamplesPerChunk - E
  BY <1>1, <1>2, <1>4, <1>5, Geometry
<1> QED BY <1>1, <1>6, DeviationPositionIff DEF M, E

(* So chunks that share a base still share it when the deviation is wider. *)
LEMMA SharedBasesStayShared ==
  ASSUME NEW l_d \in 0..ChunkBitLen, NEW wider \in l_d..ChunkBitLen,
         NEW one \in Chunk, NEW other \in Chunk,
         BaseSamples(other, l_d) = BaseSamples(one, l_d)
  PROVE  BaseSamples(other, wider) = BaseSamples(one, wider)
<1>1. ASSUME NEW s \in 1..SamplesPerChunk, NEW b \in 1..BitsPerSample
      PROVE  (IF IsDeviationPosition(wider, s, b) THEN 0 ELSE other[s][b])
               = (IF IsDeviationPosition(wider, s, b) THEN 0 ELSE one[s][b])
  <2>1. CASE IsDeviationPosition(wider, s, b)
    BY <2>1
  <2>2. CASE ~ IsDeviationPosition(wider, s, b)
    <3>1. ~ IsDeviationPosition(l_d, s, b)
      BY <2>2, DeviationPositionsGrow
    <3>2. BaseSamples(other, l_d)[s][b] = BaseSamples(one, l_d)[s][b]
      OBVIOUS
    <3> QED BY <3>1, <3>2 DEF BaseSamples
  <2> QED BY <2>1, <2>2
<1> QED BY <1>1 DEF BaseSamples

(* A bit of a packed chunk is found where its sample and place say.        *)
LEMMA BitOfPackedChunk ==
  ASSUME NEW samples \in Chunk,
         NEW s \in 1..SamplesPerChunk, NEW b \in 1..BitsPerSample
  PROVE  PackSamples(samples)[BitAt(s, b, BitsPerSample)] = samples[s][b]
<1>1. Len(samples) = SamplesPerChunk
  BY FunctionIsSequence, Geometry DEF Chunk
<1>2. /\ BitAt(s, b, BitsPerSample) \in 1..(SamplesPerChunk * BitsPerSample)
      /\ FieldOf(BitAt(s, b, BitsPerSample), BitsPerSample) = s
      /\ PlaceOfBit(BitAt(s, b, BitsPerSample), BitsPerSample) = b
  BY BitAtField, Geometry
<1> QED BY <1>1, <1>2 DEF PackSamples, Join

(* What a decoder computes from a packed base and a deviation is the chunk *)
(* the encoder took them from.                                             *)
THEOREM TransformIsLossless ==
  ASSUME NEW l_d \in 0..ChunkBitLen, NEW samples \in Chunk
  PROVE  LET transformed == TransformChunk(samples, l_d)
         IN  InverseTransformChunk(UnpackSamples(PackSamples(transformed.base_samples)),
                                   transformed.deviation_bits, l_d) = samples
<1>1. BaseSamples(samples, l_d) \in Chunk
  BY TransformType
<1>2. UnpackSamples(PackSamples(BaseSamples(samples, l_d))) = BaseSamples(samples, l_d)
  BY <1>1, UnpackOfPack
<1> QED BY <1>2, InverseOfTransform DEF TransformChunk

----------------------------------------------------------------------------
(* Sequences that go on, and numbers.                                      *)

Continues(s, t) == Len(s) <= Len(t) /\ \A i \in 1..Len(s) : t[i] = s[i]

(* Continuing is reflexive, ...                                            *)
LEMMA ContinuesItself == ASSUME NEW s, Len(s) \in Nat PROVE Continues(s, s)
BY DEF Continues

(* ... transitive, ...                                                     *)
LEMMA ContinuesOn ==
  ASSUME NEW s, NEW t, NEW u, Len(s) \in Nat, Len(t) \in Nat, Len(u) \in Nat,
         Continues(s, t), Continues(t, u)
  PROVE  Continues(s, u)
BY DEF Continues

(* ... and what appending does.                                            *)
LEMMA ContinuesByOne ==
  ASSUME NEW S, NEW s \in Seq(S), NEW x \in S
  PROVE  Append(s, x) \in Seq(S) /\ Continues(s, Append(s, x))
BY DEF Continues

(* Appending to the second of two sequences.                               *)
LEMMA AppendAtTheEnd ==
  ASSUME NEW S, NEW s \in Seq(S), NEW t \in Seq(S), NEW x \in S
  PROVE  s \o Append(t, x) = Append(s \o t, x)
OBVIOUS

(* Three sequences can be joined from either end.                          *)
LEMMA ConcatThrice ==
  ASSUME NEW S, NEW x \in Seq(S), NEW y \in Seq(S), NEW z \in Seq(S)
  PROVE  (x \o y) \o z = x \o (y \o z)
BY ConcatAssociative

(* Places in a sequence that is one longer than another.                   *)
LEMMA NextPlace ==
  ASSUME NEW a \in Nat, NEW n \in Nat
  PROVE  a + (n + 1) = (a + n) + 1
OBVIOUS

(* A place in a sequence longer by one is the last place or one of before. *)
LEMMA LastOrBefore ==
  ASSUME NEW n \in Nat, NEW i \in 1..(n + 1), i # n + 1
  PROVE  i \in 1..n
OBVIOUS

(* What is left of whole splits and a part of one.                         *)
LEMMA RestOfDivision ==
  ASSUME NEW w \in Nat \ {0}, NEW q \in Nat, NEW r \in 0..(w - 1)
  PROVE  (q * w + r) % w = r
OBVIOUS

----------------------------------------------------------------------------
(* Chunks of samples, and the pair and base that restore one.              *)

(* The last samples, padded, are a chunk.                                  *)
LEMMA PadChunkType ==
  ASSUME NEW samples \in Seq(Sample)
  PROVE  PadChunk(samples) \in Chunk
<1>1. ZeroSample \in Sample
  BY DEF ZeroSample, ZeroBits, Sample, BitString, Bit
<1>2. \A s \in 1..SamplesPerChunk : s <= Len(samples) => samples[s] \in Sample
  BY Geometry
<1> QED BY <1>1, <1>2 DEF PadChunk, Chunk

(* The samples of one more chunk follow those of the chunks before.        *)
LEMMA JoinOneMore ==
  ASSUME NEW C \in Seq(Chunk), NEW chunk \in Chunk
  PROVE  /\ Join(Append(C, chunk), SamplesPerChunk) = Join(C, SamplesPerChunk) \o chunk
         /\ Join(C, SamplesPerChunk) \in Seq(Sample)
         /\ Len(Join(C, SamplesPerChunk)) = Len(C) * SamplesPerChunk
         /\ chunk \in Seq(Sample) /\ Len(chunk) = SamplesPerChunk
<1> DEFINE w == SamplesPerChunk
           one == <<chunk>>
<1>1. w \in Nat /\ w >= 1
  BY Geometry
<1>2. /\ C \in Seq([1..w -> Sample]) /\ chunk \in [1..w -> Sample]
      /\ one \in Seq([1..w -> Sample]) /\ Len(one) = 1 /\ one[1] = chunk
  BY DEF Chunk
<1>3. chunk \in Seq(Sample) /\ Len(chunk) = w
  BY <1>1, <1>2, FunctionIsSequence
<1>4. Append(C, chunk) = C \o one
  BY <1>2, AppendIsConcat
<1> HIDE DEF one
<1>5. Join(C \o one, w) = Join(C, w) \o Join(one, w)
  BY <1>1, <1>2, JoinConcat
<1>6. Join(one, w) = chunk
  <2>1. Len(one) * w = w
    BY <1>1, <1>2
  <2>2. ASSUME NEW a \in 1..w PROVE FieldOf(a, w) = 1 /\ PlaceOfBit(a, w) = a
    <3>1. (a - 1) \div w = 0 /\ (a - 1) % w = a - 1
      BY <1>1
    <3> QED BY <3>1 DEF FieldOf, PlaceOfBit
  <2>3. Join(one, w) = [a \in 1..w |-> one[FieldOf(a, w)][PlaceOfBit(a, w)]]
    BY <2>1 DEF Join
  <2>4. Join(one, w) = [a \in 1..w |-> chunk[a]]
    BY <1>2, <2>2, <2>3
  <2> QED BY <1>2, <2>4
<1>7. Join(C, w) \in Seq(Sample) /\ Len(Join(C, w)) = Len(C) * w
  BY <1>1, <1>2, JoinOfSeq
<1> QED BY <1>3, <1>4, <1>5, <1>6, <1>7, Zenon

(* The base a pair refers to and the deviation it brings make the chunk.   *)
Restores(B, pair, l_d, chunk) ==
  InverseTransformChunk(UnpackSamples(B[pair.base_id + 1]), pair.deviation_bits, l_d) = chunk

(* A chunk's base and deviation restore it.                                *)
LEMMA PairRestores ==
  ASSUME NEW l_d \in 0..ChunkBitLen, NEW chunk \in Chunk, NEW B, NEW pair \in Pair,
         B[pair.base_id + 1] = PackSamples(BaseSamples(chunk, l_d)),
         pair.deviation_bits = DeviationBits(chunk, l_d)
  PROVE  Restores(B, pair, l_d, chunk)
<1>1. BaseSamples(chunk, l_d) \in Chunk
  BY TransformType
<1>2. UnpackSamples(PackSamples(BaseSamples(chunk, l_d))) = BaseSamples(chunk, l_d)
  BY <1>1, UnpackOfPack
<1>3. InverseTransformChunk(BaseSamples(chunk, l_d), DeviationBits(chunk, l_d), l_d) = chunk
  BY InverseOfTransform
<1> QED BY <1>2, <1>3 DEF Restores

(* A base taken apart, bit by bit.                                         *)
LEMMA UnpackedBits ==
  ASSUME NEW base \in PackedBase
  PROVE  /\ UnpackSamples(base) \in Chunk
         /\ \A s \in 1..SamplesPerChunk : \A b \in 1..BitsPerSample :
              UnpackSamples(base)[s][b] = base[BitAt(s, b, BitsPerSample)]
<1>1. base \in [1..(SamplesPerChunk * BitsPerSample) -> Bit]
  BY Geometry DEF PackedBase, BitString
<1>2. Len(base) = ChunkBitLen
  BY FunctionIsSequence, Geometry DEF PackedBase, BitString
<1>3. ChunkBitLen \div BitsPerSample = SamplesPerChunk
  BY Geometry
<1>4. UnpackSamples(base) = [s \in 1..SamplesPerChunk |-> [b \in 1..BitsPerSample |->
                                base[BitAt(s, b, BitsPerSample)]]]
  <2>1. UnpackSamples(base) = [s \in 1..SamplesPerChunk |-> [b \in 1..BitsPerSample |->
                                  base[0 + BitAt(s, b, BitsPerSample)]]]
    BY <1>2, <1>3 DEF UnpackSamples, Cut
  <2>2. \A s \in 1..SamplesPerChunk, b \in 1..BitsPerSample :
           0 + BitAt(s, b, BitsPerSample) = BitAt(s, b, BitsPerSample)
    <3> SUFFICES ASSUME NEW s \in 1..SamplesPerChunk, NEW b \in 1..BitsPerSample
                 PROVE  0 + BitAt(s, b, BitsPerSample) = BitAt(s, b, BitsPerSample)
      OBVIOUS
    <3>1. BitAt(s, b, BitsPerSample) \in 1..(SamplesPerChunk * BitsPerSample)
      BY BitAtField, Geometry
    <3>2. SamplesPerChunk * BitsPerSample \in Nat
      BY Geometry
    <3> QED BY <3>1, <3>2
  <2> QED BY <2>1, <2>2, Zenon
<1>5. \A s \in 1..SamplesPerChunk, b \in 1..BitsPerSample :
         base[BitAt(s, b, BitsPerSample)] \in Bit
  <2>1. \A s \in 1..SamplesPerChunk, b \in 1..BitsPerSample :
           BitAt(s, b, BitsPerSample) \in 1..(SamplesPerChunk * BitsPerSample)
    BY BitAtField, Geometry
  <2> QED BY <1>1, <2>1
<1> QED BY <1>4, <1>5 DEF Chunk, Sample, BitString

(* Any base and any deviation of the right width make a chunk.             *)
LEMMA InverseIsChunk ==
  ASSUME NEW base \in PackedBase, NEW l_d \in 0..ChunkBitLen,
         NEW deviation_bits \in BitString(l_d)
  PROVE  InverseTransformChunk(UnpackSamples(base), deviation_bits, l_d) \in Chunk
<1>1. \A s \in 1..SamplesPerChunk, b \in 1..BitsPerSample :
         IsDeviationPosition(l_d, s, b) =>
           deviation_bits[DeviationBitOffset(l_d, s, b)] \in Bit
  <2> SUFFICES ASSUME NEW s \in 1..SamplesPerChunk, NEW b \in 1..BitsPerSample,
                      IsDeviationPosition(l_d, s, b)
               PROVE  DeviationBitOffset(l_d, s, b) \in 1..l_d
    BY DEF BitString
  <2> QED BY DeviationOffsetIsPlace
<1>2. \A s \in 1..SamplesPerChunk, b \in 1..BitsPerSample :
         UnpackSamples(base)[s][b] \in Bit
  BY UnpackedBits DEF Chunk, Sample, BitString
<1> QED BY <1>1, <1>2 DEF InverseTransformChunk, Chunk, Sample, BitString

----------------------------------------------------------------------------
(* The configuration and the adaptive parameters.                          *)

(* The types of the constants and of the numbers made from them.           *)
LEMMA ConfigConstants ==
  /\ ChunksPerSplit \in Nat \ {0} /\ ChunksPerSplit <= 65535
  /\ IdBits \in Nat \ {0} /\ IdBits <= 32
BY ConfigAssumption

(* The cap is a number or there is none.                                   *)
LEMMA MaxActiveBasesType ==
  MaxActiveBases \in Nat \/ MaxActiveBases = Unlimited
<1>1. CASE MaxActiveDictionaryBytes = Unlimited
  BY <1>1 DEF MaxActiveBases
<1>2. CASE MaxActiveDictionaryBytes # Unlimited
  <2>1. MaxActiveDictionaryBytes \in Nat
    BY <1>2, ConfigAssumption, SMTT(30)
  <2>2. ChunkByteLen \in Nat
    BY Geometry DEF ChunkByteLen, CeilDiv
  <2>3. MaxActiveDictionaryBytes \div (ChunkByteLen + 4) \in Nat
    BY <2>1, <2>2
  <2> QED BY <1>2, <2>3 DEF MaxActiveBases
<1> QED BY <1>1, <1>2

(* No ID exceeds 32 bits.                                                  *)
LEMMA MaxIdType == MaxId \in Nat /\ MaxId < Pow2[32]
<1>1. IdBits \in Nat /\ IdBits <= 32
  BY ConfigConstants
<1>2. Pow2[IdBits] \in Nat \ {0} /\ Pow2[IdBits] <= Pow2[32] /\ Pow2[32] \in Nat
  BY <1>1, Pow2Above, Pow2Monotone
<1> QED BY <1>2 DEF MaxId

(* 65535 < 2^16, so a split fits anything from 2^16 up.                    *)
LEMMA SplitFits32 == ChunksPerSplit <= Pow2[32]
<1>1. Pow2[4] = 16
  <2>1. Pow2[1] = 2 /\ Pow2[2] = 4
    <3>1. Pow2[0 + 1] = 2 * Pow2[0] /\ Pow2[1 + 1] = 2 * Pow2[1]
      BY Pow2Step
    <3> QED BY <3>1, Pow2Step
  <2>2. Pow2[2 + 1] = 2 * Pow2[2] /\ Pow2[3 + 1] = 2 * Pow2[3]
    BY Pow2Step
  <2> QED BY <2>1, <2>2
<1>2. Pow2[8] = 256
  <2>1. Pow2[4 + 1] = 2 * Pow2[4] /\ Pow2[5 + 1] = 2 * Pow2[5]
    BY Pow2Step
  <2>2. Pow2[6 + 1] = 2 * Pow2[6] /\ Pow2[7 + 1] = 2 * Pow2[7]
    BY Pow2Step
  <2> QED BY <1>1, <2>1, <2>2
<1>3. Pow2[12] = 4096
  <2>1. Pow2[8 + 1] = 2 * Pow2[8] /\ Pow2[9 + 1] = 2 * Pow2[9]
    BY Pow2Step
  <2>2. Pow2[10 + 1] = 2 * Pow2[10] /\ Pow2[11 + 1] = 2 * Pow2[11]
    BY Pow2Step
  <2> QED BY <1>2, <2>1, <2>2
<1>4. Pow2[16] = 65536
  <2>1. Pow2[12 + 1] = 2 * Pow2[12] /\ Pow2[13 + 1] = 2 * Pow2[13]
    BY Pow2Step
  <2>2. Pow2[14 + 1] = 2 * Pow2[14] /\ Pow2[15 + 1] = 2 * Pow2[15]
    BY Pow2Step
  <2> QED BY <1>3, <2>1, <2>2
<1>5. Pow2[16] <= Pow2[32] /\ Pow2[32] \in Nat
  BY Pow2Monotone, Pow2Above
<1> QED BY <1>4, <1>5, ConfigConstants

(* The deviation width stays within the chunk.                             *)
LEMMA LDType ==
  ASSUME NEW global_base_count, NEW old_base_count, NEW l_d \in 0..ChunkBitLen
  PROVE  UpdateLD(global_base_count, old_base_count, l_d) \in 0..ChunkBitLen
<1>1. LDMaximum \in Nat /\ LDMaximum <= ChunkBitLen
  BY Geometry DEF LDMaximum
<1> QED BY <1>1, Geometry DEF UpdateLD

(* The new ID width has room for a whole split, whatever the last split    *)
(* added: one more bit doubles the room, and the room was at least a split *)
(* before.                                                                 *)
LEMMA LIdHasRoom ==
  ASSUME NEW next_id \in Nat, next_id <= MaxId, NEW l_id \in Nat,
         next_id <= Pow2[l_id], ChunksPerSplit <= Pow2[l_id]
  PROVE  LET new_l_id == UpdateLId(next_id, l_id)
         IN  /\ new_l_id \in Nat
             /\ next_id + ChunksPerSplit <= Pow2[new_l_id]
             /\ ChunksPerSplit <= Pow2[new_l_id]
             /\ \/ new_l_id = l_id
                \/ new_l_id = l_id + 1 /\ next_id + ChunksPerSplit >= Pow2[l_id]
<1> DEFINE new_l_id == UpdateLId(next_id, l_id)
<1>1. Pow2[l_id] \in Nat /\ Pow2[l_id + 1] = 2 * Pow2[l_id]
  BY Pow2Above, Pow2Step
<1>2. CASE l_id < 64 /\ next_id + ChunksPerSplit >= Pow2[l_id]
  <2>1. new_l_id = l_id + 1
    BY <1>2 DEF UpdateLId, CapacityNeeded
  <2> HIDE DEF new_l_id
  <2>2. Pow2[new_l_id] = 2 * Pow2[l_id]
    BY <1>1, <2>1
  <2> QED BY <1>1, <1>2, <2>1, <2>2, ConfigConstants DEF new_l_id
<1>3. CASE l_id < 64 /\ ~ (next_id + ChunksPerSplit >= Pow2[l_id])
  <2>1. new_l_id = l_id
    BY <1>3 DEF UpdateLId, CapacityNeeded
  <2> QED BY <1>1, <1>3, <2>1, ConfigConstants
<1>4. CASE ~ (l_id < 64)
  <2>1. new_l_id = l_id
    BY <1>4 DEF UpdateLId, CapacityNeeded
  <2>2. Pow2[33] <= Pow2[l_id] /\ Pow2[33] = 2 * Pow2[32] /\ Pow2[32] \in Nat
    <3>1. Pow2[32 + 1] = 2 * Pow2[32]
      BY Pow2Step
    <3> QED BY <1>4, <3>1, Pow2Monotone, Pow2Above
  <2> QED BY <1>1, <2>1, <2>2, MaxIdType, SplitFits32, ConfigConstants
<1> QED BY <1>2, <1>3, <1>4

----------------------------------------------------------------------------
(* The dictionary.                                                         *)

(* IDs are assigned below next_id, and the active ones are among them.     *)
ActiveIdsAssigned(dictionary) ==
  \A i \in 1..Len(dictionary.active) : dictionary.active[i].id < dictionary.next_id

(* A list with an entry moved to the front has the entries it had.         *)
LEMMA TouchedType ==
  ASSUME NEW active \in Seq(Entry), NEW place \in 1..Len(active)
  PROVE  /\ Touched(active, place) \in Seq(Entry)
         /\ \A i \in 1..Len(Touched(active, place)) :
               \E j \in 1..Len(active) : Touched(active, place)[i] = active[j]
<1>1. Len(active) \in Nat /\ \A j \in 1..Len(active) : active[j] \in Entry
  OBVIOUS
<1>2. ASSUME NEW i \in 1..Len(active)
      PROVE  \E j \in 1..Len(active) : Touched(active, place)[i] = active[j]
  BY DEF Touched
<1>3. Touched(active, place) \in [1..Len(active) -> Entry]
  BY <1>1, <1>2 DEF Touched
<1>4. Touched(active, place) \in Seq(Entry) /\ Len(Touched(active, place)) = Len(active)
  BY <1>1, <1>3, FunctionIsSequence
<1> QED BY <1>2, <1>4

(* A list with an entry in front has that entry and entries it had.        *)
LEMMA AttachedType ==
  ASSUME NEW active \in Seq(Entry), NEW entry \in Entry
  PROVE  /\ Attached(active, entry) \in Seq(Entry)
         /\ \A i \in 1..Len(Attached(active, entry)) :
               \/ Attached(active, entry)[i] = entry
               \/ \E j \in 1..Len(active) : Attached(active, entry)[i] = active[j]
<1> DEFINE n == IF WithinCap(Len(active) + 1) THEN Len(active) + 1 ELSE MaxActiveBases
<1>1. Len(active) \in Nat /\ \A j \in 1..Len(active) : active[j] \in Entry
  OBVIOUS
<1>2. n \in Nat /\ n <= Len(active) + 1
  BY <1>1, MaxActiveBasesType DEF WithinCap
<1>3. Attached(active, entry) = [i \in 1..n |-> IF i = 1 THEN entry ELSE active[i - 1]]
  BY DEF Attached
<1> HIDE DEF n
<1>4. ASSUME NEW i \in 1..n
      PROVE  \/ Attached(active, entry)[i] = entry
             \/ \E j \in 1..Len(active) : Attached(active, entry)[i] = active[j]
  <2>1. CASE i = 1
    BY <1>3, <2>1
  <2>2. CASE i # 1
    <3>1. i - 1 \in 1..Len(active)
      BY <1>1, <1>2, <2>2
    <3> QED BY <1>3, <2>2, <3>1
  <2> QED BY <2>1, <2>2
<1>5. Attached(active, entry) \in [1..n -> Entry]
  BY <1>1, <1>3, <1>4
<1>6. Attached(active, entry) \in Seq(Entry) /\ Len(Attached(active, entry)) = n
  BY <1>2, <1>5, FunctionIsSequence
<1> QED BY <1>4, <1>6

(* A lookup that does not run out of IDs: the ID it answers is assigned,   *)
(* and a new one is the next one.                                          *)
LEMMA GetOrInsertSound ==
  ASSUME NEW dictionary \in DictionaryState, ActiveIdsAssigned(dictionary),
         NEW base \in PackedBase, ~ IdsExhausted(dictionary, base)
  PROVE  LET got == GetOrInsert(dictionary, base)
         IN  /\ got.dictionary \in DictionaryState
             /\ ActiveIdsAssigned(got.dictionary)
             /\ got.id \in Nat /\ got.id < got.dictionary.next_id
             /\ got.is_new \in BOOLEAN
             /\ dictionary.next_id <= got.dictionary.next_id
             /\ got.dictionary.next_id <= dictionary.next_id + 1
<1> DEFINE got == GetOrInsert(dictionary, base)
           active == dictionary.active
           next_id == dictionary.next_id
<1>1. /\ active \in Seq(Entry) /\ next_id \in 0..MaxId /\ MaxId \in Nat
      /\ \A j \in 1..Len(active) : active[j] \in Entry /\ active[j].id < next_id
      /\ \A j \in 1..Len(active) : active[j].id \in Nat
  <2>1. active \in Seq(Entry) /\ next_id \in 0..MaxId
    BY DEF DictionaryState
  <2>2. \A j \in 1..Len(active) : active[j] \in Entry
    BY <2>1
  <2>3. \A j \in 1..Len(active) : active[j].id \in Nat
    BY <2>2 DEF Entry
  <2>4. \A j \in 1..Len(active) : active[j].id < next_id
    BY DEF ActiveIdsAssigned
  <2> QED BY <2>1, <2>2, <2>3, <2>4, MaxIdType
<1>2. CASE IsActive(dictionary, base)
  <2> DEFINE place == PlaceOf(dictionary, base)
  <2>1. place \in 1..Len(active)
    BY <1>2 DEF IsActive, PlaceOf
  <2>2. got = [dictionary |-> [active |-> Touched(active, place), next_id |-> next_id],
               id |-> active[place].id, is_new |-> FALSE]
    BY <1>2 DEF GetOrInsert
  <2> HIDE DEF place, got
  <2>3. /\ Touched(active, place) \in Seq(Entry)
        /\ \A i \in 1..Len(Touched(active, place)) : Touched(active, place)[i].id < next_id
    BY <1>1, <2>1, TouchedType
  <2>4. got.dictionary \in DictionaryState /\ ActiveIdsAssigned(got.dictionary)
    BY <1>1, <2>2, <2>3 DEF DictionaryState, ActiveIdsAssigned
  <2>5. /\ got.id \in Nat /\ got.id < next_id /\ got.is_new = FALSE
        /\ got.dictionary.next_id = next_id
    BY <1>1, <2>1, <2>2
  <2> HIDE DEF active, next_id
  <2>6. /\ got.id < got.dictionary.next_id
        /\ next_id <= got.dictionary.next_id
        /\ got.dictionary.next_id <= next_id + 1
    <3>1. got.dictionary.next_id = next_id /\ got.id < next_id
      BY <2>5, Zenon
    <3> QED BY <1>1, <3>1
  <2>7. got.is_new \in BOOLEAN
    BY <2>5, Zenon
  <2> QED BY <2>4, <2>5, <2>6, <2>7, Zenon DEF got, next_id
<1>3. CASE ~ IsActive(dictionary, base)
  <2> DEFINE entry == [id |-> next_id, base |-> base]
  <2>1. next_id # MaxId
    BY <1>3 DEF IdsExhausted
  <2>2. entry \in Entry /\ entry.id = next_id
    BY <1>1 DEF Entry
  <2>3. got = [dictionary |-> [active |-> Attached(active, entry), next_id |-> next_id + 1],
               id |-> next_id, is_new |-> TRUE]
    BY <1>3 DEF GetOrInsert
  <2> HIDE DEF entry, got
  <2>4. Attached(active, entry) \in Seq(Entry)
    BY <1>1, <2>2, AttachedType
  <2>5. ASSUME NEW i \in 1..Len(Attached(active, entry))
        PROVE  Attached(active, entry)[i].id < next_id + 1
    <3>1. \/ Attached(active, entry)[i] = entry
          \/ \E j \in 1..Len(active) : Attached(active, entry)[i] = active[j]
      BY <1>1, <2>2, AttachedType
    <3> QED BY <1>1, <2>2, <3>1
  <2>6. got.dictionary \in DictionaryState /\ ActiveIdsAssigned(got.dictionary)
    BY <1>1, <2>1, <2>3, <2>4, <2>5 DEF DictionaryState, ActiveIdsAssigned
  <2>7. /\ got.id = next_id /\ got.is_new = TRUE
        /\ got.dictionary.next_id = next_id + 1
    BY <2>3
  <2> HIDE DEF active, next_id
  <2>8. /\ got.id \in Nat /\ got.id < got.dictionary.next_id
        /\ next_id <= got.dictionary.next_id
        /\ got.dictionary.next_id <= next_id + 1
    <3>1. got.dictionary.next_id = next_id + 1 /\ got.id = next_id
      BY <2>7, Zenon
    <3> QED BY <1>1, <3>1
  <2>9. got.is_new \in BOOLEAN
    BY <2>7, Zenon
  <2> QED BY <2>6, <2>8, <2>9, Zenon DEF got, next_id
<1> QED BY <1>2, <1>3

(* Each new base takes the next ID.                                        *)
LEMMA NewBaseTakesAnId ==
  ASSUME NEW dictionary, NEW base
  PROVE  LET got == GetOrInsert(dictionary, base)
         IN  /\ got.is_new \in BOOLEAN
             /\ got.dictionary.next_id
                  = IF got.is_new THEN dictionary.next_id + 1 ELSE dictionary.next_id
<1>1. CASE IsActive(dictionary, base)
  BY <1>1 DEF GetOrInsert
<1>2. CASE ~ IsActive(dictionary, base)
  BY <1>2 DEF GetOrInsert
<1> QED BY <1>1, <1>2

(* The active bases are found under their IDs.                             *)
ActiveAre(dictionary, B) ==
  \A i \in 1..Len(dictionary.active) :
     B[dictionary.active[i].id + 1] = dictionary.active[i].base

(* The bases after a look-up: one more if the base is new.                 *)
AddsBase(B, B2, base, is_new) ==
  /\ Continues(B, B2)
  /\ is_new => Len(B2) = Len(B) + 1 /\ B2[Len(B) + 1] = base
  /\ ~ is_new => B2 = B

Answers(got, base, B, B2) ==
  /\ AddsBase(B, B2, base, got.is_new)
  /\ Len(B2) = got.dictionary.next_id
  /\ ActiveAre(got.dictionary, B2)
  /\ got.id \in Nat /\ got.id < Len(B2)
  /\ B2[got.id + 1] = base

(* get_or_insert answers an ID under which the base is, or is next.        *)
LEMMA GetOrInsertMeans ==
  ASSUME NEW dictionary \in DictionaryState, ActiveIdsAssigned(dictionary),
         NEW base \in PackedBase, NEW B \in Seq(PackedBase),
         Len(B) = dictionary.next_id, ActiveAre(dictionary, B)
  PROVE  \E B2 \in Seq(PackedBase) : Answers(GetOrInsert(dictionary, base), base, B, B2)
<1> DEFINE got == GetOrInsert(dictionary, base)
           active == dictionary.active
           next_id == dictionary.next_id
<1>1. /\ active \in Seq(Entry) /\ next_id \in Nat
      /\ \A j \in 1..Len(active) : active[j].id \in Nat /\ active[j].id < next_id
      /\ \A j \in 1..Len(active) : B[active[j].id + 1] = active[j].base
  <2>1. active \in Seq(Entry) /\ next_id \in Nat
    BY MaxIdType DEF DictionaryState
  <2>2. \A j \in 1..Len(active) : active[j] \in Entry
    BY <2>1
  <2>3. \A j \in 1..Len(active) : active[j].id \in Nat
    BY <2>2 DEF Entry
  <2> QED BY <2>1, <2>3 DEF ActiveIdsAssigned, ActiveAre
<1>2. Len(B) = next_id /\ Len(B) \in Nat
  OBVIOUS
<1>3. CASE IsActive(dictionary, base)
  <2> DEFINE place == PlaceOf(dictionary, base)
  <2>1. place \in 1..Len(active) /\ active[place].base = base
    BY <1>3 DEF IsActive, PlaceOf
  <2>2. got = [dictionary |-> [active |-> Touched(active, place), next_id |-> next_id],
               id |-> active[place].id, is_new |-> FALSE]
    BY <1>3 DEF GetOrInsert
  <2> HIDE DEF place, got, active, next_id
  <2>3. /\ got.dictionary.active = Touched(active, place)
        /\ got.dictionary.next_id = next_id
        /\ got.id = active[place].id /\ got.is_new = FALSE
    BY <2>2
  <2>5. \A i \in 1..Len(Touched(active, place)) :
          \E j \in 1..Len(active) : Touched(active, place)[i] = active[j]
    BY <1>1, <2>1, TouchedType
  <2>6. ActiveAre(got.dictionary, B)
    BY ONLY <1>1, <2>3, <2>5 DEF ActiveAre
  <2>7. /\ got.id \in Nat /\ got.id < Len(B) /\ B[got.id + 1] = base
        /\ Len(B) = got.dictionary.next_id
    BY <1>1, <1>2, <2>1, <2>3
  <2>8. Continues(B, B)
    BY <1>2, ContinuesItself
  <2> QED BY <2>3, <2>6, <2>7, <2>8, Zenon DEF got, Answers, AddsBase
<1>4. CASE ~ IsActive(dictionary, base)
  <2> DEFINE entry == [id |-> next_id, base |-> base]
  <2>1. entry \in Entry /\ entry.id = next_id /\ entry.base = base
    BY <1>1 DEF Entry
  <2>2. got = [dictionary |-> [active |-> Attached(active, entry), next_id |-> next_id + 1],
               id |-> next_id, is_new |-> TRUE]
    BY <1>4 DEF GetOrInsert
  <2> HIDE DEF entry, got, active, next_id
  <2>3. /\ got.dictionary.active = Attached(active, entry)
        /\ got.dictionary.next_id = next_id + 1
        /\ got.id = next_id /\ got.is_new = TRUE
    BY <2>2
  <2> DEFINE B2 == Append(B, base)
  <2>5. /\ B2 \in Seq(PackedBase) /\ Continues(B, B2)
        /\ Len(B2) = next_id + 1 /\ B2[next_id + 1] = base
        /\ \A i \in 1..next_id : B2[i] = B[i]
    <3>1. B2 \in Seq(PackedBase) /\ Continues(B, B2)
      BY ContinuesByOne
    <3>2. /\ Len(B2) = next_id + 1 /\ B2[next_id + 1] = base
          /\ \A i \in 1..next_id : B2[i] = B[i]
      BY <1>2, AppendProperties
    <3> QED BY <3>1, <3>2
  <2> HIDE DEF B2
  <2>6. ASSUME NEW i \in 1..Len(Attached(active, entry))
        PROVE  B2[Attached(active, entry)[i].id + 1] = Attached(active, entry)[i].base
    <3>1. CASE Attached(active, entry)[i] = entry
      BY <2>1, <2>5, <3>1
    <3>2. CASE \E j \in 1..Len(active) : Attached(active, entry)[i] = active[j]
      <4>1. PICK j \in 1..Len(active) : Attached(active, entry)[i] = active[j]
        BY <3>2
      <4>2. active[j].id \in Nat /\ active[j].id < next_id
        BY <1>1
      <4>3. active[j].id + 1 \in 1..next_id
        BY <1>1, <4>2
      <4> QED BY <1>1, <2>5, <4>1, <4>3
    <3> QED BY <1>1, <2>1, <3>1, <3>2, AttachedType
  <2>7. ActiveAre(got.dictionary, B2)
    BY <2>3, <2>6 DEF ActiveAre
  <2>8. got.id \in Nat /\ got.id < Len(B2) /\ B2[got.id + 1] = base
    BY <1>1, <2>3, <2>5
  <2>9. Len(B2) = got.dictionary.next_id /\ Len(B2) = Len(B) + 1 /\ B2[Len(B) + 1] = base
    BY <1>2, <2>3, <2>5
  <2> QED BY <2>3, <2>5, <2>7, <2>8, <2>9, Zenon DEF got, Answers, AddsBase
<1> QED BY <1>3, <1>4

----------------------------------------------------------------------------
(* Beginnings of sequences.                                                *)

(* A beginning, place by place.                                            *)
LEMMA PrefixPlaces ==
  ASSUME NEW S, NEW s \in Seq(S), NEW m \in Nat, m <= Len(s)
  PROVE  /\ SubSeq(s, 1, m) \in Seq(S) /\ Len(SubSeq(s, 1, m)) = m
         /\ \A i \in 1..m : SubSeq(s, 1, m)[i] = s[i]
OBVIOUS

(* A beginning and what comes next.                                        *)
LEMMA PrefixGrows ==
  ASSUME NEW S, NEW s \in Seq(S), NEW m \in Nat, NEW t \in Seq(S), m + Len(t) <= Len(s),
         \A i \in 1..Len(t) : s[m + i] = t[i]
  PROVE  SubSeq(s, 1, m) \o t = SubSeq(s, 1, m + Len(t))
<1> DEFINE n == Len(t)
           before == SubSeq(s, 1, m)
           after == SubSeq(s, 1, m + n)
           both == before \o t
<1>1. n \in Nat /\ Len(s) \in Nat /\ m <= Len(s) /\ m + n \in Nat /\ m + n <= Len(s)
  OBVIOUS
<1>2. before \in Seq(S) /\ Len(before) = m /\ \A i \in 1..m : before[i] = s[i]
  BY <1>1, PrefixPlaces
<1>3. after \in Seq(S) /\ Len(after) = m + n /\ \A i \in 1..(m + n) : after[i] = s[i]
  BY <1>1, PrefixPlaces
<1> HIDE DEF before, after
<1>4. /\ both \in Seq(S) /\ Len(both) = m + n
      /\ \A i \in 1..m : both[i] = before[i]
      /\ \A i \in 1..n : both[m + i] = t[i]
  <2>1. Len(t) = n
    OBVIOUS
  <2>2. before \in Seq(S) /\ Len(before) = m
    BY <1>2
  <2> HIDE DEF n
  <2> QED BY <2>1, <2>2, ConcatPlaces
<1> HIDE DEF both, n
<1>5. ASSUME NEW i \in 1..(m + n) PROVE both[i] = after[i]
  <2>1. CASE i <= m
    BY <1>1, <1>2, <1>3, <1>4, <2>1
  <2>2. CASE ~ (i <= m)
    <3> DEFINE j == i - m
    <3>1. j \in 1..n /\ m + j = i
      BY <1>1, <2>2
    <3>2. \A k \in 1..n : s[m + k] = t[k]
      BY DEF n
    <3> HIDE DEF j
    <3>3. both[m + j] = t[j] /\ s[m + j] = t[j]
      BY <1>4, <3>1, <3>2, Zenon
    <3> QED BY <1>3, <3>1, <3>3
  <2> QED BY <2>1, <2>2
<1>6. both = after
  BY <1>3, <1>4, <1>5, SeqEqual
<1> QED BY <1>6 DEF both, before, after, n

(* What comes next, place by place.                                        *)
LEMMA MiddlePlaces ==
  ASSUME NEW S, NEW s \in Seq(S), NEW m \in Nat, NEW n \in Nat, m + n <= Len(s)
  PROVE  /\ SubSeq(s, m + 1, m + n) = [i \in 1..n |-> s[m + i]]
         /\ SubSeq(s, m + 1, m + n) \in Seq(S)
         /\ Len(SubSeq(s, m + 1, m + n)) = n
OBVIOUS

(* More does not change a beginning.                                       *)
LEMMA PrefixStays ==
  ASSUME NEW S, NEW s \in Seq(S), NEW t \in Seq(S), Continues(s, t),
         NEW m \in Nat, m <= Len(s)
  PROVE  SubSeq(t, 1, m) = SubSeq(s, 1, m)
<1> DEFINE p == SubSeq(s, 1, m)
           q == SubSeq(t, 1, m)
<1>1. /\ Len(s) \in Nat /\ Len(t) \in Nat /\ m <= Len(t)
      /\ \A i \in 1..m : t[i] = s[i]
  BY DEF Continues
<1>2. /\ p \in Seq(S) /\ Len(p) = m /\ \A i \in 1..m : p[i] = s[i]
      /\ q \in Seq(S) /\ Len(q) = m /\ \A i \in 1..m : q[i] = t[i]
  BY <1>1, PrefixPlaces
<1> HIDE DEF p, q
<1>3. \A i \in 1..Len(q) : q[i] = p[i]
  BY <1>1, <1>2
<1>4. q = p
  BY <1>2, <1>3, SeqEqual
<1> QED BY <1>4 DEF p, q

(* A sequence is a beginning and a rest.                                   *)
InTwo(s, S, m, first, rest) ==
  /\ first \in Seq(S) /\ Len(first) = m
  /\ rest \in Seq(S) /\ Len(s) = m + Len(rest)
  /\ s = first \o rest

(* Every sequence long enough can be taken apart.                          *)
LEMMA SplitInTwo ==
  ASSUME NEW S, NEW s \in Seq(S), NEW m \in Nat, m <= Len(s)
  PROVE  InTwo(s, S, m, SubSeq(s, 1, m), SubSeq(s, m + 1, Len(s)))
<1> DEFINE n == Len(s) - m
           rest == SubSeq(s, m + 1, m + n)
<1>1. n \in Nat /\ m + n = Len(s) /\ m + n <= Len(s)
  OBVIOUS
<1> HIDE DEF n
<1>2. rest \in Seq(S) /\ Len(rest) = n /\ rest = [i \in 1..n |-> s[m + i]]
  BY <1>1, MiddlePlaces
<1>3. SubSeq(s, 1, m + n) = s
  BY <1>1
<1> HIDE DEF rest
<1>4. \A i \in 1..Len(rest) : s[m + i] = rest[i]
  BY <1>2
<1>5. SubSeq(s, 1, m) \o rest = SubSeq(s, 1, m + Len(rest))
  BY <1>1, <1>2, <1>4, PrefixGrows
<1>6. SubSeq(s, m + 1, Len(s)) = rest
  BY <1>1 DEF rest
<1> QED BY <1>1, <1>2, <1>3, <1>5, <1>6, PrefixPlaces DEF InTwo

(* As many fields more, as many elements more.                             *)
LEMMA MoreFields ==
  ASSUME NEW m \in Nat, NEW n \in Nat, NEW w \in Nat
  PROVE  /\ m * w \in Nat /\ n * w \in Nat /\ (m + n) * w = m * w + n * w
         /\ m * w <= (m + n) * w
<1>1. m * w \in Nat /\ n * w \in Nat /\ (m + n) * w = m * w + n * w
  OBVIOUS
<1> QED BY <1>1

(* The beginning of a concatenation.                                       *)
LEMMA FirstOfTwo ==
  ASSUME NEW S, NEW x \in Seq(S), NEW y \in Seq(S)
  PROVE  SubSeq(x \o y, 1, Len(x)) = x
OBVIOUS

----------------------------------------------------------------------------
(* Sequences put one behind the other.                                     *)

(* The first n sequences of q, put one behind the other, for every n.      *)
Flattens(q, n, flat) ==
  flat = [i \in 1..n |-> IF i = 1 THEN q[i] ELSE flat[i - 1] \o q[i]]

(* Where each of the sequences begins.                                     *)
Starts(flat, n) == [i \in 1..(n + 1) |-> IF i = 1 THEN 0 ELSE Len(flat[i - 1])]

(* The first i sequences of q are the file, the k-th of them behind the    *)
(* first starts[k] bytes.                                                  *)
Placed(file, q, starts, i) ==
  /\ Len(file) = starts[i + 1]
  /\ \A k \in 1..i :
       /\ starts[k + 1] = starts[k] + Len(q[k])
       /\ starts[k + 1] <= Len(file)
       /\ \A j \in 1..Len(q[k]) : file[starts[k] + j] = q[k][j]

(* All of them are the file.                                               *)
LaysOut(file, q, starts) ==
  /\ starts \in [1..(Len(q) + 1) -> Nat]
  /\ starts[1] = 0
  /\ Placed(file, q, starts, Len(q))

(* The recursive equation of flattening has a solution.                    *)
LEMMA FlatteningExists ==
  ASSUME NEW q, NEW n \in Nat
  PROVE  \E flat : Flattens(q, n, flat)
<1> DEFINE Bad == {m \in Nat : ~ \E flat : Flattens(q, m, flat)}
<1>1. SUFFICES ASSUME Bad # {} PROVE FALSE
  OBVIOUS
<1>2. PICK m \in Bad : \A k \in Bad : m <= k
  BY <1>1, LeastElement
<1>3. m \in Nat /\ \A flat : ~ Flattens(q, m, flat)
  OBVIOUS
<1>4. m # 0
  <2>1. Flattens(q, 0, <<>>)
    BY DEF Flattens
  <2> QED BY <2>1, <1>3
<1>5. m - 1 \in Nat /\ m - 1 \notin Bad
  BY <1>2, <1>3, <1>4
<1>6. PICK flat : Flattens(q, m - 1, flat)
  BY <1>5
<1> DEFINE next == [i \in 1..m |-> IF i = 1 THEN q[i]
                                   ELSE IF i = m THEN flat[m - 1] \o q[m] ELSE flat[i]]
<1>7. ASSUME NEW i \in 1..m
      PROVE  next[i] = IF i = 1 THEN q[i] ELSE next[i - 1] \o q[i]
  <2>1. CASE i = 1
    BY <2>1
  <2>2. CASE i # 1
    <3>1. i - 1 \in 1..(m - 1) /\ i - 1 \in 1..m /\ i - 1 # m
      BY <2>2, <1>3
    <3>2. next[i - 1] = flat[i - 1]
      BY <3>1, <1>6 DEF Flattens
    <3>3. CASE i = m
      BY <2>2, <3>2, <3>3
    <3>4. CASE i # m
      <4>1. i \in 1..(m - 1)
        BY <3>4, <1>3
      <4>2. flat[i] = flat[i - 1] \o q[i]
        BY <2>2, <4>1, <1>6 DEF Flattens
      <4>3. next[i] = flat[i]
        BY <2>2, <3>4
      <4> QED BY <2>2, <3>2, <4>2, <4>3
    <3> QED BY <3>3, <3>4
  <2> QED BY <2>1, <2>2
<1>8. next = [i \in 1..m |-> next[i]]
  OBVIOUS
<1> HIDE DEF next
<1>9. Flattens(q, m, next)
  BY <1>7, <1>8 DEF Flattens
<1> QED BY <1>3, <1>9

(* One more sequence is placed behind the others.                          *)
LEMMA PlacedNext ==
  ASSUME NEW S, NEW q \in Seq(Seq(S)), NEW i \in 1..Len(q), i + 1 \in 1..Len(q),
         NEW starts \in [1..(Len(q) + 1) -> Nat],
         NEW file \in Seq(S), Placed(file, q, starts, i),
         starts[i + 2] = starts[i + 1] + Len(q[i + 1]),
         NEW longer, longer = file \o q[i + 1]
  PROVE  Placed(longer, q, starts, i + 1)
<1> DEFINE m == Len(file)
           t == q[i + 1]
<1>1. t \in Seq(S) /\ i \in Nat /\ Len(t) \in Nat
  BY LenProperties
<1>2. /\ m \in Nat /\ Len(longer) = m + Len(t)
      /\ \A a \in 1..m : longer[a] = file[a]
      /\ \A a \in 1..Len(t) : longer[m + a] = t[a]
  <2> HIDE DEF t
  <2>1. file \o t \in Seq(S) /\ longer = file \o t
    BY <1>1, ConcatProperties DEF t
  <2> QED BY ONLY <1>1, <2>1, ConcatPlaces, file \in Seq(S) DEF m
<1>3. m = starts[i + 1] /\ starts[i + 2] = m + Len(t)
  BY DEF Placed
<1>4. \A k \in 1..(i + 1) : k = i + 1 \/ k \in 1..i
  BY <1>1
<1>5. ASSUME NEW k \in 1..i
      PROVE  /\ starts[k + 1] = starts[k] + Len(q[k])
             /\ starts[k + 1] <= m
             /\ \A j \in 1..Len(q[k]) : file[starts[k] + j] = q[k][j]
  BY DEF Placed
<1> HIDE DEF m, t
<1>6. ASSUME NEW k \in 1..(i + 1)
      PROVE  /\ starts[k + 1] = starts[k] + Len(q[k])
             /\ starts[k + 1] <= Len(longer)
             /\ \A j \in 1..Len(q[k]) : longer[starts[k] + j] = q[k][j]
  <2>1. CASE k = i + 1
    <3>1. /\ k + 1 = i + 2 /\ q[k] = t /\ starts[k] = m
          /\ starts[k + 1] = m + Len(t) /\ starts[k + 1] <= Len(longer)
      BY <1>1, <1>2, <1>3, <2>1 DEF t
    <3>2. ASSUME NEW j \in 1..Len(t) PROVE longer[m + j] = t[j]
      BY <1>2
    <3> QED BY ONLY <3>1, <3>2, Zenon
  <2>2. CASE k \in 1..i
    <3>1. k \in 1..Len(q) /\ k + 1 \in 1..(Len(q) + 1) /\ k \in 1..(Len(q) + 1)
      BY <1>1, <2>2
    <3>2. q[k] \in Seq(S) /\ Len(q[k]) \in Nat /\ starts[k] \in Nat
      <4>1. q[k] \in Seq(S)
        BY ONLY <3>1, q \in Seq(Seq(S))
      <4>2. Len(q[k]) \in Nat
        BY ONLY <4>1, LenProperties
      <4>3. starts[k] \in Nat
        BY ONLY <3>1, starts \in [1..(Len(q) + 1) -> Nat]
      <4> QED BY <4>1, <4>2, <4>3
    <3>3. ASSUME NEW j \in 1..Len(q[k]) PROVE longer[starts[k] + j] = q[k][j]
      <4>1. starts[k] + j \in 1..m
        <5>1. starts[k] + Len(q[k]) <= m
          BY <1>5, <2>2
        <5> DEFINE from == starts[k]
                   len == Len(q[k])
        <5>2. from \in Nat /\ len \in Nat /\ m \in Nat /\ from + len <= m /\ j \in 1..len
          BY <1>2, <3>2, <5>1
        <5> HIDE DEF from, len
        <5>3. from + j \in 1..m
          BY ONLY <5>2
        <5> QED BY ONLY <5>3 DEF from
      <4>2. file[starts[k] + j] = q[k][j]
        BY <1>5, <2>2
      <4> QED BY <1>2, <4>1, <4>2
    <3>4. starts[k + 1] <= Len(longer)
      <4>1. starts[k + 1] <= m
        BY <1>5, <2>2
      <4>2. starts[k + 1] \in Nat
        BY ONLY <3>1, starts \in [1..(Len(q) + 1) -> Nat]
      <4> QED BY ONLY <1>1, <1>2, <4>1, <4>2
    <3> QED BY <1>5, <2>2, <3>3, <3>4
  <2> QED BY <1>4, <2>1, <2>2
<1>7. Len(longer) = starts[(i + 1) + 1]
  BY <1>1, <1>2, <1>3
<1> QED BY <1>6, <1>7 DEF Placed

(* What is flattened lies in the result, in order.                         *)
LEMMA FlattenedLies ==
  ASSUME NEW S, NEW q \in Seq(Seq(S)), Len(q) # 0, NEW f, Flattens(q, Len(q), f)
  PROVE  f[Len(q)] \in Seq(S) /\ \E starts : LaysOut(f[Len(q)], q, starts)
<1> DEFINE n == Len(q)
           starts == Starts(f, n)
<1>1. n \in Nat /\ 1 \in 1..n /\ \A i \in 1..n : q[i] \in Seq(S) /\ Len(q[i]) \in Nat
  BY LenProperties
<1>3. Flattens(q, n, f)
  OBVIOUS
<1>4. \A i \in 1..n : f[i] = IF i = 1 THEN q[i] ELSE f[i - 1] \o q[i]
  BY <1>3 DEF Flattens
<1> DEFINE Stray == {i \in 1..n : f[i] \notin Seq(S)}
<1>5. Stray = {}
  <2>1. SUFFICES ASSUME Stray # {} PROVE FALSE
    OBVIOUS
  <2>2. PICK i \in Stray : \A k \in Stray : i <= k
    <3>1. Stray \subseteq Nat
      BY <1>1
    <3> QED BY <2>1, <3>1, LeastElement
  <2>3. i # 1
    BY <1>1, <1>4
  <2>4. i - 1 \in 1..n /\ i - 1 \notin Stray
    BY <1>1, <2>2, <2>3
  <2>5. f[i - 1] \in Seq(S) /\ q[i] \in Seq(S)
    BY <1>1, <2>4
  <2>6. f[i] = f[i - 1] \o q[i]
    BY <1>4, <2>3
  <2> QED BY <2>5, <2>6, ConcatProperties
<1>6. \A i \in 1..n : f[i] \in Seq(S)
  BY <1>5
<1> HIDE DEF Stray
<1>7. /\ starts \in [1..(n + 1) -> Nat]
      /\ starts[1] = 0
      /\ \A i \in 1..n : starts[i + 1] = Len(f[i])
  <2>1. \A i \in 1..n : i + 1 \in 1..(n + 1) /\ i + 1 # 1 /\ (i + 1) - 1 = i
    BY <1>1
  <2>2. \A i \in 1..n : Len(f[i]) \in Nat
    BY <1>6, LenProperties
  <2>3. \A i \in 1..(n + 1) : i # 1 => i - 1 \in 1..n
    BY <1>1
  <2> QED BY <1>1, <2>1, <2>2, <2>3 DEF Starts
<1> HIDE DEF starts
<1> DEFINE Bad == {i \in 1..n : ~ Placed(f[i], q, starts, i)}
<1>8. Bad = {}
  <2>1. SUFFICES ASSUME Bad # {} PROVE FALSE
    OBVIOUS
  <2>2. PICK i \in Bad : \A k \in Bad : i <= k
    <3>1. Bad \subseteq Nat
      BY <1>1
    <3> QED BY <2>1, <3>1, LeastElement
  <2>3. i \in 1..n /\ ~ Placed(f[i], q, starts, i)
    OBVIOUS
  <2>4. CASE i = 1
    <3>1. f[1] = q[1] /\ starts[2] = Len(f[1]) /\ Len(q[1]) \in Nat
      <4>1. starts[1 + 1] = Len(f[1])
        BY <1>1, <1>7
      <4> QED BY <1>1, <1>4, <4>1
    <3>2. ASSUME NEW k \in 1..1
          PROVE  /\ starts[k + 1] = starts[k] + Len(q[k])
                 /\ starts[k + 1] <= Len(f[1])
                 /\ \A j \in 1..Len(q[k]) : f[1][starts[k] + j] = q[k][j]
      <4>1. k = 1
        OBVIOUS
      <4>2. /\ starts[1 + 1] = starts[1] + Len(q[1])
            /\ starts[1 + 1] <= Len(f[1])
        BY <1>7, <3>1
      <4>3. ASSUME NEW j \in 1..Len(q[1]) PROVE f[1][starts[1] + j] = q[1][j]
        BY <1>7, <3>1
      <4> QED BY <4>1, <4>2, <4>3
    <3>3. Placed(f[1], q, starts, 1)
      BY <3>1, <3>2 DEF Placed
    <3> QED BY <2>3, <2>4, <3>3
  <2>5. CASE i # 1
    <3> DEFINE p == i - 1
    <3>1. p \in 1..n /\ p \notin Bad /\ p + 1 = i /\ p + 2 = i + 1
      BY <1>1, <2>2, <2>5
    <3>2. Placed(f[p], q, starts, p) /\ f[p] \in Seq(S)
      BY <1>6, <3>1
    <3>3. f[i] = f[p] \o q[i] /\ q[i] \in Seq(S)
      BY <1>1, <1>4, <2>5
    <3>4. starts[p + 1] = Len(f[p]) /\ starts[p + 2] = Len(f[i])
      BY <1>7, <2>3, <3>1
    <3>5. Len(f[i]) = Len(f[p]) + Len(q[i])
      BY <3>2, <3>3, ConcatProperties
    <3> HIDE DEF p, Bad
    <3>6. /\ p \in 1..Len(q) /\ p + 1 \in 1..Len(q)
          /\ starts \in [1..(Len(q) + 1) -> Nat]
          /\ starts[p + 2] = starts[p + 1] + Len(q[p + 1])
          /\ f[i] = f[p] \o q[p + 1]
      BY <1>7, <2>3, <3>1, <3>3, <3>4, <3>5
    <3>7. Placed(f[i], q, starts, p + 1)
      BY ONLY <3>2, <3>6, PlacedNext, q \in Seq(Seq(S))
    <3> QED BY <2>3, <3>1, <3>7
  <2> QED BY <2>4, <2>5
<1>9. n \in 1..n
  BY <1>1
<1>10. f[n] \in Seq(S) /\ Placed(f[n], q, starts, n)
  BY <1>6, <1>8, <1>9
<1> QED BY <1>7, <1>10 DEF LaysOut
----------------------------------------------------------------------------
(* The bytes of a file.                                                    *)

(* A byte of an integer field, or eight bits.                              *)
FileByte ==
  [uint : {"TSTR", "TCHY", Unlimited} \cup Nat, byte : Nat, of : Nat] \cup [bits : Seq(Bit)]

(* The piece lies in the file from byte `offset` on.                       *)
LiesAt(file, offset, piece) ==
  /\ offset + Len(piece) <= Len(file)
  /\ \A j \in 1..Len(piece) : file[offset + j] = piece[j]

(* What is on disk when writing was cut off, or was not.                   *)
BeginningOf(bytes, file) ==
  /\ Len(bytes) <= Len(file)
  /\ \A j \in 1..Len(bytes) : bytes[j] = file[j]

(* The bytes of an integer.                                                *)
LEMMA UintBytes ==
  ASSUME NEW value \in {"TSTR", "TCHY", Unlimited} \cup Nat, NEW width \in Nat
  PROVE  /\ Uint(value, width) \in Seq(FileByte) /\ Len(Uint(value, width)) = width
         /\ \A k \in 1..width :
              Uint(value, width)[k] = [uint |-> value, byte |-> k, of |-> width]
<1>1. Uint(value, width) \in [1..width -> FileByte]
  BY DEF Uint, FileByte
<1>2. Uint(value, width) \in Seq(FileByte) /\ Len(Uint(value, width)) = width
  BY <1>1, FunctionIsSequence
<1> QED BY <1>2 DEF Uint

(* The bytes of a number.                                                  *)
LEMMA NumberBytes ==
  ASSUME NEW value \in Nat, NEW width \in Nat
  PROVE  Uint(value, width) \in Seq(FileByte) /\ Len(Uint(value, width)) = width
<1>1. value \in {"TSTR", "TCHY", Unlimited} \cup Nat
  OBVIOUS
<1> QED BY ONLY <1>1, width \in Nat, UintBytes

(* An integer of one byte.                                                 *)
LEMMA ByteIsWritten ==
  ASSUME NEW value \in {"TSTR", "TCHY", Unlimited} \cup Nat
  PROVE  /\ Uint(value, 1) \in Seq(FileByte) /\ Len(Uint(value, 1)) = 1
         /\ Uint(value, 1)[1].uint = value
<1>1. 1 \in 1..1
  OBVIOUS
<1>2. Uint(value, 1)[1] = [uint |-> value, byte |-> 1, of |-> 1]
  BY <1>1 DEF Uint
<1>3. Uint(value, 1)[1].uint = value
  BY <1>2
<1>4. Uint(value, 1) \in [1..1 -> FileByte]
  BY DEF Uint, FileByte
<1>5. 1 \in Nat
  OBVIOUS
<1>6. Uint(value, 1) \in Seq(FileByte) /\ Len(Uint(value, 1)) = 1
  BY ONLY <1>4, <1>5, FunctionIsSequence
<1> QED BY <1>3, <1>6

(* An integer is read where it lies.                                       *)
LEMMA UintIsRead ==
  ASSUME NEW value \in {"TSTR", "TCHY", Unlimited} \cup Nat, NEW width \in Nat \ {0},
         NEW file, NEW offset, LiesAt(file, offset, Uint(value, width))
  PROVE  UintAt(file, offset) = value /\ HasUint(file, offset, width)
<1>1. 1 \in 1..width /\ Len(Uint(value, width)) = width
  BY UintBytes
<1>2. Uint(value, width)[1] = [uint |-> value, byte |-> 1, of |-> width]
  BY <1>1, UintBytes
<1>3. file[offset + 1] = Uint(value, width)[1]
  BY <1>1 DEF LiesAt
<1>4. file[offset + 1].uint = value
  BY <1>2, <1>3
<1>5. ASSUME NEW k \in 1..width
      PROVE  /\ "uint" \in DOMAIN file[offset + k]
             /\ file[offset + k].byte = k /\ file[offset + k].of = width
  <2>1. Uint(value, width)[k] = [uint |-> value, byte |-> k, of |-> width]
    BY UintBytes
  <2>2. file[offset + k] = [uint |-> value, byte |-> k, of |-> width]
    BY <1>1, <2>1 DEF LiesAt
  <2> QED BY <2>2
<1>6. offset + width <= Len(file)
  BY <1>1 DEF LiesAt
<1> QED BY <1>4, <1>5, <1>6 DEF UintAt, HasUint

(* Packed bits: a byte for every eight of them, and no bit is lost.        *)
LEMMA PackedBytes ==
  ASSUME NEW bits \in Seq(Bit), NEW m \in Nat, Len(bits) = 8 * m
  PROVE  /\ Packed(bits) \in Seq(FileByte) /\ Len(Packed(bits)) = m
         /\ Join([k \in 1..m |-> Packed(bits)[k].bits], 8) = bits
<1>1. Len(bits) \div 8 = m
  OBVIOUS
<1> DEFINE part == [k \in 1..m |-> SubSeq(bits, 8 * k - 7, 8 * k)]
<1>2. ASSUME NEW k \in 1..m
      PROVE  /\ part[k] \in Seq(Bit) /\ Len(part[k]) = 8
             /\ \A i \in 1..8 : part[k][i] = bits[8 * k - 8 + i]
  <2> DEFINE a == 8 * k - 7
             b == 8 * k
  <2>1. a \in 1..Len(bits) /\ b \in 1..Len(bits) /\ a <= b /\ b - a + 1 = 8
    OBVIOUS
  <2>2. part[k] = SubSeq(bits, a, b)
    OBVIOUS
  <2> HIDE DEF a, b, part
  <2>3. SubSeq(bits, a, b) \in Seq(Bit) /\ Len(SubSeq(bits, a, b)) = 8
    BY <2>1, SubSeqProperties
  <2>4. \A i \in 1..8 : SubSeq(bits, a, b)[i] = bits[a + i - 1]
    BY <2>1, SubSeqProperties
  <2>5. \A i \in 1..8 : a + i - 1 = 8 * k - 8 + i
    BY DEF a
  <2> QED BY <2>2, <2>3, <2>4, <2>5
<1>3. Packed(bits) = [k \in 1..m |-> [bits |-> part[k]]]
  BY <1>1 DEF Packed
<1> HIDE DEF part
<1>4. Packed(bits) \in [1..m -> FileByte]
  <2>1. ASSUME NEW k \in 1..m PROVE [bits |-> part[k]] \in FileByte
    BY <1>2 DEF FileByte
  <2> QED BY <1>3, <2>1
<1>5. Packed(bits) \in Seq(FileByte) /\ Len(Packed(bits)) = m
  BY <1>4, FunctionIsSequence
<1> DEFINE fields == [k \in 1..m |-> Packed(bits)[k].bits]
<1>6. \A k \in 1..m : fields[k] = part[k]
  BY <1>3
<1>7. fields \in Seq(Seq(Bit)) /\ Len(fields) = m
  <2>1. fields \in [1..m -> Seq(Bit)]
    BY <1>2, <1>6
  <2> QED BY <2>1, FunctionIsSequence
<1> HIDE DEF fields
<1>8. Join(fields, 8) = [a \in 1..(m * 8) |-> fields[FieldOf(a, 8)][PlaceOfBit(a, 8)]]
  BY <1>7 DEF Join
<1>9. ASSUME NEW a \in 1..(m * 8)
      PROVE  fields[FieldOf(a, 8)][PlaceOfBit(a, 8)] = bits[a]
  <2> DEFINE k == FieldOf(a, 8)
             i == PlaceOfBit(a, 8)
  <2>1. k \in 1..m /\ i \in 1..8 /\ 8 * k - 8 + i = a
    BY DEF FieldOf, PlaceOfBit
  <2> HIDE DEF k, i
  <2>2. fields[k][i] = bits[8 * k - 8 + i]
    BY <1>2, <1>6, <2>1
  <2> QED BY <2>1, <2>2 DEF k, i
<1>10. Join(fields, 8) = [a \in 1..(m * 8) |-> bits[a]]
  BY <1>8, <1>9
<1>11. bits = [a \in 1..(m * 8) |-> bits[a]]
  <2>1. m * 8 = Len(bits)
    OBVIOUS
  <2> QED BY <2>1, LenProperties
<1> QED BY <1>5, <1>10, <1>11 DEF fields

(* Of two pieces one behind the other, both lie in the file.               *)
LEMMA BothLie ==
  ASSUME NEW S, NEW x \in Seq(S), NEW y \in Seq(S), NEW both, both = x \o y,
         NEW file, Len(file) \in Nat, NEW offset \in Nat, LiesAt(file, offset, both)
  PROVE  LiesAt(file, offset, x) /\ LiesAt(file, offset + Len(x), y)
<1> DEFINE m == Len(x)
           n == Len(y)
<1>1. /\ m \in Nat /\ n \in Nat /\ Len(both) = m + n
      /\ \A i \in 1..m : both[i] = x[i]
      /\ \A i \in 1..n : both[m + i] = y[i]
  BY ConcatPlaces
<1>2. offset + (m + n) <= Len(file)
  BY <1>1 DEF LiesAt
<1>3. \A j \in 1..(m + n) : file[offset + j] = both[j]
  BY <1>1 DEF LiesAt
<1> HIDE DEF m, n
<1>4. ASSUME NEW j \in 1..m PROVE file[offset + j] = x[j]
  <2>1. j \in 1..(m + n)
    BY <1>1
  <2>2. both[j] = x[j]
    BY <1>1
  <2> QED BY <1>3, <2>1, <2>2
<1>5. ASSUME NEW j \in 1..n PROVE file[(offset + m) + j] = y[j]
  <2>1. m + j \in 1..(m + n) /\ offset + (m + j) = (offset + m) + j
    BY <1>1
  <2>2. file[offset + (m + j)] = both[m + j]
    BY <1>3, <2>1
  <2> QED BY <1>1, <2>1, <2>2
<1>6. offset + m <= Len(file) /\ (offset + m) + n <= Len(file)
  BY <1>1, <1>2
<1> QED BY <1>4, <1>5, <1>6 DEF LiesAt, m, n

(* What lies in a file and does not reach beyond a beginning of it lies in *)
(* the beginning too.                                                      *)
LEMMA LiesInBeginning ==
  ASSUME NEW file, NEW bytes, Len(bytes) \in Nat, BeginningOf(bytes, file),
         NEW piece, Len(piece) \in Nat,
         NEW offset \in Nat, LiesAt(file, offset, piece), offset + Len(piece) <= Len(bytes)
  PROVE  LiesAt(bytes, offset, piece)
<1>1. ASSUME NEW j \in 1..Len(piece) PROVE bytes[offset + j] = piece[j]
  <2>1. offset + j \in 1..Len(bytes)
    OBVIOUS
  <2> QED BY <2>1 DEF LiesAt, BeginningOf
<1> QED BY <1>1 DEF LiesAt

(* Each of the sequences laid out lies where it starts.                    *)
LEMMA PiecesLie ==
  ASSUME NEW file, NEW q, NEW starts, LaysOut(file, q, starts)
  PROVE  \A i \in 1..Len(q) :
           LiesAt(file, starts[i], q[i]) /\ starts[i + 1] = starts[i] + Len(q[i])
BY DEF LaysOut, Placed, LiesAt

(* The pieces of one sequence before those of another.                     *)
LEMMA PiecesOfTwo ==
  ASSUME NEW S, NEW x \in Seq(S), NEW y \in Seq(S), NEW q, q = x \o y
  PROVE  /\ q \in Seq(S) /\ Len(q) = Len(x) + Len(y)
         /\ \A i \in 1..Len(x) : q[i] = x[i]
         /\ \A k \in 1..Len(y) : q[Len(x) + k] = y[k]
BY ConcatPlaces

=============================================================================
