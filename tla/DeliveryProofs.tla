--------------------------- MODULE DeliveryProofs ---------------------------
(***************************************************************************)
(* The packet codec for any tile, any headers and any base, and what it    *)
(* means for the clients: decode inverts encode just if every number fits  *)
(* its field, and a client that is served from the cache receives what     *)
(* another received from the upstream.                                     *)
(*                                                                         *)
(* What recursive functions compute is shown by induction over the sets of *)
(* numbers for which it holds.                                             *)
(***************************************************************************)
EXTENDS Delivery, FunctionTheorems, FiniteSetTheorems, SequenceTheorems,
        WellFoundedInduction, TLAPS

-----------------------------------------------------------------------------
(***************************************************************************)
(* Induction and recursion.                                                *)
(***************************************************************************)

\* A set that has zero and with a number the next one has all of them.
LEMMA InductiveSet ==
    ASSUME NEW S, 0 \in S, \A n \in Nat : n \in S => n + 1 \in S
    PROVE  Nat \subseteq S
<1> DEFINE R == OpToRel(<, Nat)
           T == Nat \ S
<1>1. IsWellFoundedOn(R, Nat)
    BY NatLessThanWellFounded
<1>2. \A x, y \in Nat : y < x => <<y, x>> \in R
    BY DEF OpToRel
<1> HIDE DEF R
<1>3. ASSUME T # {}
      PROVE  FALSE
  <2>1. T \subseteq Nat
      OBVIOUS
  <2>2. PICK x \in T : \A y \in T : ~(<<y, x>> \in R)
      BY <1>1, <1>3, <2>1, WFMin
  <2>3. x \in Nat /\ x # 0 /\ x \notin S
      OBVIOUS
  <2>4. x - 1 \in Nat /\ x - 1 < x /\ (x - 1) + 1 = x
      BY <2>3
  <2>5. x - 1 \notin T
      BY <1>2, <2>2, <2>3, <2>4
  <2> QED
      BY <2>3, <2>4, <2>5
<1> QED
    BY <1>3

\* The functions that begin with a and go on as F says, up to n.
Recursive(V, a, F, n) ==
    {g \in [0..n -> V] : g[0] = a /\ \A i \in 1..n : g[i] = F[<<i, g[i - 1]>>]}

\* There is one.
LEMMA RecursionDefines ==
    ASSUME NEW V, NEW a \in V, NEW F \in [Nat \X V -> V], NEW n \in Nat
    PROVE  \E g : g \in Recursive(V, a, F, n)
<1> DEFINE Good(m, g) == /\ g \in [0..m -> V]
                         /\ g[0] = a
                         /\ \A i \in 1..m : g[i] = F[<<i, g[i - 1]>>]
           S == {m \in Nat : \E g : Good(m, g)}
<1>1. 0 \in S
  <2> DEFINE g == [i \in 0..0 |-> a]
  <2>1. Good(0, g)
      OBVIOUS
  <2> QED
      BY <2>1
<1>2. ASSUME NEW m \in Nat, m \in S
      PROVE  m + 1 \in S
  <2>1. PICK g : Good(m, g)
      BY <1>2
  <2> DEFINE h == [i \in 0..(m + 1) |-> IF i = m + 1 THEN F[<<i, g[m]>>] ELSE g[i]]
  <2>2. g[m] \in V /\ F[<<m + 1, g[m]>>] \in V
      BY <2>1
  <2>3. h \in [0..(m + 1) -> V]
      BY <2>1, <2>2
  <2>4. h[0] = a
      BY <2>1
  <2>5. ASSUME NEW i \in 1..(m + 1)
        PROVE  h[i] = F[<<i, h[i - 1]>>]
    <3>1. i - 1 \in 0..m /\ h[i - 1] = g[i - 1]
        OBVIOUS
    <3>2. CASE i = m + 1
      <4>1. i - 1 = m
          BY <3>2
      <4> QED
          BY <3>1, <3>2, <4>1
    <3>3. CASE i # m + 1
      <4>1. i \in 1..m /\ h[i] = g[i]
          BY <3>3
      <4> QED
          BY <2>1, <3>1, <4>1
    <3> QED
        BY <3>2, <3>3
  <2>6. Good(m + 1, h)
    <3> HIDE DEF h
    <3> QED
        BY <2>3, <2>4, <2>5
  <2> HIDE DEF Good, h
  <2> QED
      BY <2>6
<1> HIDE DEF S
<1>3. n \in S
    BY <1>1, <1>2, InductiveSet
<1>4. PICK g : Good(n, g)
    BY <1>3 DEF S
<1>5. g \in Recursive(V, a, F, n)
    BY <1>4 DEF Recursive
<1> QED
    BY <1>5

\* Two functions begin alike and go on alike, up to n.
Alike(g, h, n) ==
    /\ g[0] = h[0]
    /\ \A i \in 1..n : g[i - 1] = h[i - 1] => g[i] = h[i]

\* They agree.
LEMMA SameRecursion ==
    ASSUME NEW n \in Nat, NEW g, NEW h, Alike(g, h, n)
    PROVE  \A i \in 0..n : g[i] = h[i]
<1>0. g[0] = h[0] /\ \A i \in 1..n : g[i - 1] = h[i - 1] => g[i] = h[i]
    BY DEF Alike
<1> DEFINE S == {m \in Nat : m \in 0..n => g[m] = h[m]}
<1>1. 0 \in S
    BY <1>0
<1>2. ASSUME NEW m \in Nat, m \in S
      PROVE  m + 1 \in S
  <2> SUFFICES ASSUME m + 1 \in 0..n
               PROVE  g[m + 1] = h[m + 1]
      OBVIOUS
  <2>1. m \in 0..n /\ m + 1 \in 1..n /\ (m + 1) - 1 = m
      OBVIOUS
  <2>2. g[m] = h[m]
      BY <1>2, <2>1
  <2> QED
      BY <1>0, <2>1, <2>2
<1>3. Nat \subseteq S
  <2> HIDE DEF S
  <2> QED
      BY <1>1, <1>2, InductiveSet
<1> QED
    BY <1>3

-----------------------------------------------------------------------------
(***************************************************************************)
(* Numbers as bytes.                                                       *)
(***************************************************************************)

\* The base, and what its digits are.
LEMMA Bases == Base \in Nat /\ Base >= 2 /\ Bytes = 0..(Base - 1)
BY BaseAssumption DEF Bytes

\* The weights are the powers of the base.
LEMMA Weights ==
    /\ Weight[0] = 1
    /\ Weight[1] = Base
    /\ Weight[2] = Base * Base
    /\ Weight[3] = Base * (Base * Base)
    /\ Weight[4] = Base * (Base * (Base * Base))
    /\ \A i \in 0..4 : Weight[i] \in Nat /\ Weight[i] >= 1
    /\ \A i \in 1..4 : Weight[i] = Base * Weight[i - 1]
<1> DEFINE W == [i \in 0..4 |-> IF i = 0 THEN 1
                                ELSE IF i = 1 THEN Base
                                ELSE IF i = 2 THEN Base * Base
                                ELSE IF i = 3 THEN Base * (Base * Base)
                                ELSE Base * (Base * (Base * Base))]
<1>1. Base \in Nat /\ Base >= 2
    BY Bases
<1>2. W = [i \in 0..4 |-> IF i = 0 THEN 1 ELSE Base * W[i - 1]]
    BY <1>1
<1>3. \E g : g = [i \in 0..SizeBytes |-> IF i = 0 THEN 1 ELSE Base * g[i - 1]]
  <2>1. WITNESS W
  <2> QED
      BY <1>2 DEF SizeBytes
<1>4. Weight = [i \in 0..SizeBytes |-> IF i = 0 THEN 1 ELSE Base * Weight[i - 1]]
    BY <1>3, Zenon DEF Weight
<1> HIDE DEF W
<1>5. Weight[0] = 1 /\ \A i \in 1..4 : Weight[i] = Base * Weight[i - 1]
    BY <1>4 DEF SizeBytes
<1>6. \A u \in Nat : u >= 1 => Base * u \in Nat /\ Base * u >= 1
    BY <1>1
<1>7. /\ Weight[1] = Base * Weight[0] /\ Weight[2] = Base * Weight[1]
      /\ Weight[3] = Base * Weight[2] /\ Weight[4] = Base * Weight[3]
    BY <1>5
<1>8. /\ Weight[0] \in Nat /\ Weight[0] >= 1
      /\ Weight[1] \in Nat /\ Weight[1] >= 1
      /\ Weight[2] \in Nat /\ Weight[2] >= 1
      /\ Weight[3] \in Nat /\ Weight[3] >= 1
      /\ Weight[4] \in Nat /\ Weight[4] >= 1
    BY <1>5, <1>6, <1>7
<1>9. \A i \in 0..4 : i = 0 \/ i = 1 \/ i = 2 \/ i = 3 \/ i = 4
    OBVIOUS
<1> QED
    BY <1>1, <1>5, <1>7, <1>8, <1>9

\* Division with remainder.
LEMMA Division ==
    ASSUME NEW n \in Nat, NEW b \in Nat \ {0}
    PROVE  n \div b \in Nat /\ n % b \in 0..(b - 1) /\ n = b * (n \div b) + (n % b)
OBVIOUS

\* Its quotient and remainder are the only ones.
LEMMA Quotient ==
    ASSUME NEW n \in Nat, NEW b \in Nat \ {0},
           NEW q \in Nat, NEW r \in 0..(b - 1), n = b * q + r
    PROVE  n \div b = q /\ n % b = r
OBVIOUS

\* A remainder is one digit more than the one before.
LEMMA RemainderSplits ==
    ASSUME NEW n \in Nat, NEW w \in Nat \ {0}
    PROVE  n % (Base * w) = (n % w) + ((n \div w) % Base) * w
<1> DEFINE q == n \div w
           u == q \div Base
           s == (n % w) + (q % Base) * w
<1>0. Base \in Nat \ {0}
    BY Bases
<1>1. q \in Nat /\ n % w \in 0..(w - 1) /\ n = w * q + (n % w)
    BY Division
<1>2. u \in Nat /\ q % Base \in 0..(Base - 1) /\ q = Base * u + (q % Base)
    BY <1>0, <1>1, Division
<1> HIDE DEF q, u
<1>3. n = (Base * w) * u + s
    BY <1>0, <1>1, <1>2
<1>4. s \in 0..((Base * w) - 1)
  <2>1. PICK d \in 0..(Base - 1) : d = q % Base
      BY <1>2
  <2>2. (d + 1) * w <= Base * w
      BY <1>0, <2>1
  <2>3. (d + 1) * w = d * w + w /\ d * w \in Nat /\ Base * w \in Nat
      BY <1>0, <2>1
  <2> QED
      BY <1>1, <2>1, <2>2, <2>3
<1> HIDE DEF s
<1>5. Base * w \in Nat \ {0}
    BY <1>0
<1>6. n % (Base * w) = s
    BY <1>2, <1>3, <1>4, <1>5, Quotient
<1> QED
    BY <1>6 DEF s, q

\* One digit more.
LEMMA OneDigitMore ==
    ASSUME NEW a \in Nat, NEW w \in Nat, a < w, NEW d \in Bytes
    PROVE  a + d * w \in Nat /\ a + d * w < Base * w
<1>1. Base \in Nat /\ d \in 0..(Base - 1)
    BY Bases
<1>2. (d + 1) * w <= Base * w
    BY <1>1
<1>3. (d + 1) * w = d * w + w /\ d * w \in Nat /\ Base * w \in Nat
    BY <1>1
<1> QED
    BY <1>1, <1>2, <1>3

\* The widths of the three fields.
Widths == {1, 2, 4}

\* Put fills a field with bytes.
LEMMA PutFills ==
    ASSUME NEW n \in Nat, NEW w \in Widths
    PROVE  /\ Put(n, w) \in Seq(Bytes) /\ Len(Put(n, w)) = w
           /\ \A i \in 1..w : Put(n, w)[i] = (n \div Weight[i - 1]) % Base
<1>1. w \in Nat /\ \A i \in 1..w : i - 1 \in 0..4
    BY DEF Widths
<1>2. \A i \in 1..w : (n \div Weight[i - 1]) % Base \in Bytes
  <2> SUFFICES ASSUME NEW i \in 1..w
               PROVE  (n \div Weight[i - 1]) % Base \in Bytes
      OBVIOUS
  <2>1. Weight[i - 1] \in Nat \ {0}
      BY <1>1, Weights
  <2>2. n \div Weight[i - 1] \in Nat
      BY <2>1, Division
  <2>3. PICK q \in Nat : q = n \div Weight[i - 1]
      BY <2>2
  <2>4. Base \in Nat \ {0}
      BY Bases
  <2>5. q % Base \in 0..(Base - 1)
      BY <2>4, Division
  <2> QED
      BY <2>3, <2>5 DEF Bytes
<1>3. Put(n, w) \in [1..w -> Bytes]
    BY <1>2 DEF Put
<1> QED
    BY <1>1, <1>3 DEF Put

\* Functions over the first numbers are sequences, and the other way round.
LEMMA SeqIsFunction ==
    ASSUME NEW S
    PROVE  /\ \A n \in Nat : \A s \in [1..n -> S] : s \in Seq(S) /\ Len(s) = n
           /\ \A s \in Seq(S) : Len(s) \in Nat /\ s \in [1..Len(s) -> S]
OBVIOUS

\* What Number computes.
LEMMA NumberIs ==
    ASSUME NEW n \in 0..4, NEW s \in [1..n -> Bytes]
    PROVE  \E g \in [0..n -> Nat] :
              /\ g[0] = 0
              /\ \A i \in 1..n : g[i] = g[i - 1] + s[i] * Weight[i - 1]
              /\ Number(s) = g[n]
<1> DEFINE F == [x \in Nat \X Nat |->
                    IF x[1] \in 1..n THEN x[2] + s[x[1]] * Weight[x[1] - 1] ELSE 0]
           value == CHOOSE g : g = [i \in 0..n |->
                                      IF i = 0 THEN 0 ELSE g[i - 1] + s[i] * Weight[i - 1]]
<1>0. n \in Nat
    OBVIOUS
<1>1. \A i \in 1..n : s[i] \in Nat /\ Weight[i - 1] \in Nat
  <2>1. \A i \in 1..n : s[i] \in Bytes /\ i - 1 \in 0..4
      OBVIOUS
  <2>2. \A d \in Bytes : d \in Nat
      BY Bases
  <2> QED
      BY <2>1, <2>2, Weights
<1>2. F \in [Nat \X Nat -> Nat]
  <2>1. ASSUME NEW x \in Nat \X Nat
        PROVE  F[x] \in Nat
    <3>1. CASE x[1] \in 1..n
      <4>1. PICK a, b, c \in Nat : a = x[2] /\ b = s[x[1]] /\ c = Weight[x[1] - 1]
          BY <1>1, <3>1
      <4>2. a + b * c \in Nat
          OBVIOUS
      <4> QED
          BY <3>1, <4>1, <4>2
    <3>2. CASE x[1] \notin 1..n
        BY <3>2
    <3> QED
        BY <3>1, <3>2
  <2> QED
      BY <2>1
<1>3. \A i \in 1..n, a \in Nat : F[<<i, a>>] = a + s[i] * Weight[i - 1]
    BY <1>1
<1> HIDE DEF F
<1>4. PICK g \in [0..n -> Nat] :
         g[0] = 0 /\ \A i \in 1..n : g[i] = F[<<i, g[i - 1]>>]
  <2>1. 0 \in Nat
      OBVIOUS
  <2>2. PICK g : g \in Recursive(Nat, 0, F, n)
      BY <1>0, <1>2, <2>1, RecursionDefines
  <2> QED
      BY <2>2 DEF Recursive
<1>5. \A i \in 1..n : g[i] = g[i - 1] + s[i] * Weight[i - 1]
  <2>1. \A i \in 1..n : i - 1 \in 0..n /\ g[i - 1] \in Nat
      BY <1>1
  <2> QED
      BY <1>3, <1>4, <2>1
<1>6. g = [i \in 0..n |-> IF i = 0 THEN 0 ELSE g[i - 1] + s[i] * Weight[i - 1]]
    BY <1>4, <1>5
<1>7. value = [i \in 0..n |-> IF i = 0 THEN 0 ELSE value[i - 1] + s[i] * Weight[i - 1]]
    BY <1>6, Zenon
<1>8. Len(s) = n
    BY <1>0, SeqIsFunction
<1>9. Number(s) = value[n]
    BY <1>8, Zenon DEF Number
<1> HIDE DEF value
<1>10. \A i \in 0..n :
          value[i] = IF i = 0 THEN 0 ELSE value[i - 1] + s[i] * Weight[i - 1]
    BY <1>7, Zenon
<1>11. value[0] = g[0]
    BY <1>1, <1>4, <1>10
<1>12. \A i \in 1..n : value[i - 1] = g[i - 1] => value[i] = g[i]
  <2> SUFFICES ASSUME NEW i \in 1..n, value[i - 1] = g[i - 1]
               PROVE  value[i] = g[i]
      OBVIOUS
  <2>1. i \in 0..n /\ i # 0
      BY <1>1
  <2>2. value[i] = value[i - 1] + s[i] * Weight[i - 1]
      BY <1>10, <2>1
  <2>3. g[i] = g[i - 1] + s[i] * Weight[i - 1]
      BY <1>5
  <2> QED
      BY <2>2, <2>3
<1>13. \A i \in 0..n : value[i] = g[i]
  <2>1. PICK v : v = value
      OBVIOUS
  <2>2. Alike(v, g, n)
      BY <1>11, <1>12, <2>1 DEF Alike
  <2>3. \A i \in 0..n : v[i] = g[i]
      BY <1>0, <2>2, SameRecursion
  <2> QED
      BY <2>1, <2>3
<1>14. value[n] = g[n]
    BY <1>1, <1>13
<1> QED
    BY <1>4, <1>5, <1>9, <1>14

\* A number of n bytes is below the weight of the next one.
LEMMA NumberFits ==
    ASSUME NEW n \in 0..4, NEW s \in [1..n -> Bytes]
    PROVE  Number(s) \in Nat /\ Number(s) < Weight[n]
<1>1. PICK g \in [0..n -> Nat] :
         /\ g[0] = 0
         /\ \A i \in 1..n : g[i] = g[i - 1] + s[i] * Weight[i - 1]
         /\ Number(s) = g[n]
    BY NumberIs
<1> DEFINE S == {i \in Nat : i \in 0..n => g[i] < Weight[i]}
<1>2. 0 \in S
    BY <1>1, Weights
<1>3. ASSUME NEW m \in Nat, m \in S
      PROVE  m + 1 \in S
  <2> SUFFICES ASSUME m + 1 \in 0..n
               PROVE  g[m + 1] < Weight[m + 1]
      OBVIOUS
  <2>1. m \in 0..n /\ m \in 0..4 /\ m + 1 \in 1..n /\ m + 1 \in 1..4 /\ (m + 1) - 1 = m
      OBVIOUS
  <2>2. g[m] < Weight[m] /\ g[m] \in Nat
      BY <1>3, <2>1
  <2>3. Weight[m] \in Nat /\ Weight[m + 1] = Base * Weight[m]
      BY <2>1, Weights
  <2>4. s[m + 1] \in Bytes
      BY <2>1
  <2>5. g[m + 1] = g[m] + s[m + 1] * Weight[m]
      BY <1>1, <2>1
  <2>6. PICK a, u, d : a = g[m] /\ u = Weight[m] /\ d = s[m + 1]
      OBVIOUS
  <2>7. a \in Nat /\ u \in Nat /\ a < u /\ d \in Bytes
      BY <2>2, <2>3, <2>4, <2>6
  <2>8. a + d * u < Base * u
      BY <2>7, OneDigitMore
  <2> QED
      BY <2>3, <2>5, <2>6, <2>8
<1>4. n \in S
  <2>1. n \in Nat
      OBVIOUS
  <2> HIDE DEF S
  <2> QED
      BY <1>2, <1>3, <2>1, InductiveSet
<1>5. g[n] \in Nat /\ g[n] < Weight[n]
    BY <1>4
<1> QED
    BY <1>1, <1>5

\* What is put into a field and read from it loses what the field cannot hold.
LEMMA NumberPut ==
    ASSUME NEW m \in Nat, NEW w \in Widths
    PROVE  Number(Put(m, w)) = m % Weight[w]
<1>1. w \in 0..4
    BY DEF Widths
<1>2. PICK s : s = Put(m, w)
    OBVIOUS
<1>3. s \in [1..w -> Bytes] /\ \A i \in 1..w : s[i] = (m \div Weight[i - 1]) % Base
    BY <1>1, <1>2, PutFills, SeqIsFunction
<1>4. PICK g \in [0..w -> Nat] :
         /\ g[0] = 0
         /\ \A i \in 1..w : g[i] = g[i - 1] + s[i] * Weight[i - 1]
         /\ Number(s) = g[w]
    BY <1>1, <1>3, NumberIs
<1> DEFINE S == {i \in Nat : i \in 0..w => g[i] = m % Weight[i]}
<1>5. 0 \in S
  <2>1. m % 1 = 0
      OBVIOUS
  <2> QED
      BY <1>4, <2>1, Weights
<1>6. ASSUME NEW k \in Nat, k \in S
      PROVE  k + 1 \in S
  <2> SUFFICES ASSUME k + 1 \in 0..w
               PROVE  g[k + 1] = m % Weight[k + 1]
      OBVIOUS
  <2>1. k \in 0..w /\ k \in 0..4 /\ k + 1 \in 1..w /\ k + 1 \in 1..4 /\ (k + 1) - 1 = k
      BY <1>1
  <2>2. g[k] = m % Weight[k]
      BY <1>6, <2>1
  <2>3. Weight[k] \in Nat \ {0} /\ Weight[k + 1] = Base * Weight[k]
    <3>1. Weight[k] \in Nat /\ Weight[k] >= 1
        BY <2>1, Weights
    <3>2. Weight[k + 1] = Base * Weight[(k + 1) - 1]
        BY <2>1, Weights
    <3> QED
        BY <2>1, <3>1, <3>2
  <2>4. g[k + 1] = g[k] + s[k + 1] * Weight[k] /\ s[k + 1] = (m \div Weight[k]) % Base
      BY <1>3, <1>4, <2>1
  <2>5. PICK u : u = Weight[k]
      OBVIOUS
  <2>6. u \in Nat \ {0}
      BY <2>3, <2>5
  <2>7. m % (Base * u) = (m % u) + ((m \div u) % Base) * u
      BY <2>6, RemainderSplits
  <2> QED
      BY <2>2, <2>3, <2>4, <2>5, <2>7
<1>7. w \in S
  <2>1. w \in Nat
      BY <1>1
  <2> HIDE DEF S
  <2> QED
      BY <1>5, <1>6, <2>1, InductiveSet
<1>8. g[w] = m % Weight[w]
    BY <1>1, <1>7
<1> QED
    BY <1>2, <1>4, <1>8

\* What the field can hold is not lost.
LEMMA NumberPutFits ==
    ASSUME NEW m \in Nat, NEW w \in Widths
    PROVE  /\ Number(Put(m, w)) \in Nat
           /\ Number(Put(m, w)) < Weight[w]
           /\ m < Weight[w] => Number(Put(m, w)) = m
<1>1. w \in 0..4
    BY DEF Widths
<1>2. Weight[w] \in Nat /\ Weight[w] >= 1
    BY <1>1, Weights
<1>3. PICK u : u = Weight[w]
    OBVIOUS
<1>4. u \in Nat \ {0}
    BY <1>2, <1>3
<1>5. m % u \in 0..(u - 1)
    BY <1>4, Division
<1>6. m < u => m % u = m
  <2>1. m < u => m = u * 0 + m /\ m \in 0..(u - 1)
      BY <1>4
  <2>2. 0 \in Nat
      OBVIOUS
  <2> QED
      BY <1>4, <2>1, <2>2, Quotient
<1> QED
    BY <1>3, <1>4, <1>5, <1>6, NumberPut

-----------------------------------------------------------------------------
(***************************************************************************)
(* What Encode writes.                                                     *)
(***************************************************************************)

\* Concatenation.
LEMMA Joins ==
    ASSUME NEW S, NEW s \in Seq(S), NEW t \in Seq(S)
    PROVE  /\ s \o t \in Seq(S) /\ Len(s \o t) = Len(s) + Len(t)
           /\ \A j \in 1..Len(s) : (s \o t)[j] = s[j]
           /\ \A j \in 1..Len(t) : (s \o t)[Len(s) + j] = t[j]
OBVIOUS

\* A text as it stands among the headers.
Chunked(text) == Put(Len(text), LengthBytes) \o text

\* Its length, and then itself.
LEMMA ChunkedIs ==
    ASSUME NEW text \in Seq(Bytes)
    PROVE  /\ Chunked(text) \in Seq(Bytes) /\ Len(Chunked(text)) = 2 + Len(text)
           /\ \A j \in 1..2 : Chunked(text)[j] = Put(Len(text), 2)[j]
           /\ \A j \in 1..Len(text) : Chunked(text)[2 + j] = text[j]
<1>1. Len(text) \in Nat /\ 2 \in Widths
    BY DEF Widths
<1>2. PICK p : p = Put(Len(text), 2)
    OBVIOUS
<1>3. p \in Seq(Bytes) /\ Len(p) = 2
    BY <1>1, <1>2, PutFills
<1>4. Chunked(text) = p \o text
    BY <1>2 DEF Chunked, LengthBytes
<1>5. /\ p \o text \in Seq(Bytes) /\ Len(p \o text) = 2 + Len(text)
      /\ \A j \in 1..2 : (p \o text)[j] = p[j]
      /\ \A j \in 1..Len(text) : (p \o text)[2 + j] = text[j]
    BY <1>3, Joins
<1> QED
    BY <1>2, <1>4, <1>5

\* L holds the headers that Encode has written after each of them.
Lines(L, headers, order) ==
    /\ L \in [0..Len(order) -> Seq(Bytes)]
    /\ L[0] = <<>>
    /\ \A i \in 1..Len(order) :
          L[i] = (L[i - 1] \o Chunked(order[i])) \o Chunked(headers[order[i]])

\* There is such an L, and it ends up in the packet.
LEMMA LinesAre ==
    ASSUME NEW n \in Nat, NEW order \in [1..n -> Seq(Bytes)], NEW headers,
           \A i \in 1..n : headers[order[i]] \in Seq(Bytes)
    PROVE  \E L : /\ Lines(L, headers, order)
                  /\ \A tile : Encode(tile, headers, order) =
                        Sealed(((Put(Len(tile), SizeBytes) \o Put(n, CountBytes))
                                  \o L[n]) \o tile)
<1> DEFINE T == Seq(Bytes)
           F == [x \in Nat \X T |->
                    IF x[1] \in 1..n
                      THEN (x[2] \o Chunked(order[x[1]])) \o Chunked(headers[order[x[1]]])
                      ELSE <<>>]
           lines == CHOOSE g : g = [i \in 0..n |->
                       IF i = 0 THEN <<>>
                       ELSE (g[i - 1] \o (Put(Len(order[i]), LengthBytes) \o order[i]))
                              \o (Put(Len(headers[order[i]]), LengthBytes) \o headers[order[i]])]
<1>0. <<>> \in T /\ Len(order) = n
    OBVIOUS
<1>1. \A i \in 1..n : Chunked(order[i]) \in T /\ Chunked(headers[order[i]]) \in T
    BY ChunkedIs
<1>2. \A i \in 1..n, s \in T :
          (s \o Chunked(order[i])) \o Chunked(headers[order[i]]) \in T
  <2> SUFFICES ASSUME NEW i \in 1..n, NEW s \in T
               PROVE  (s \o Chunked(order[i])) \o Chunked(headers[order[i]]) \in T
      OBVIOUS
  <2>1. s \o Chunked(order[i]) \in Seq(Bytes)
      BY <1>1, Joins
  <2> QED
      BY <1>1, <2>1, Joins
<1>3. F \in [Nat \X T -> T]
  <2> HIDE DEF T
  <2> QED
      BY <1>0, <1>2
<1>4. \A i \in 1..n, s \in T :
          F[<<i, s>>] = (s \o Chunked(order[i])) \o Chunked(headers[order[i]])
  <2> HIDE DEF T
  <2> SUFFICES ASSUME NEW i \in 1..n, NEW s \in T
               PROVE  F[<<i, s>>] = (s \o Chunked(order[i])) \o Chunked(headers[order[i]])
      OBVIOUS
  <2>1. PICK x \in Nat \X T : x = <<i, s>>
    <3> HIDE DEF F, lines
    <3>1. i \in Nat
        OBVIOUS
    <3>2. <<i, s>> \in Nat \X T
        BY <3>1
    <3> QED
        BY <3>2
  <2>2. x[1] = i /\ x[2] = s
      BY <2>1
  <2>3. F[x] = (x[2] \o Chunked(order[x[1]])) \o Chunked(headers[order[x[1]]])
      BY <2>2
  <2> QED
      BY <2>1, <2>2, <2>3
<1> HIDE DEF T, F
<1>5. PICK L : L \in Recursive(T, <<>>, F, n)
    BY <1>0, <1>3, RecursionDefines
<1>6. /\ L \in [0..n -> T] /\ L[0] = <<>>
      /\ \A i \in 1..n : L[i] = F[<<i, L[i - 1]>>]
    BY <1>5 DEF Recursive
<1>7. \A i \in 1..n :
          L[i] = (L[i - 1] \o Chunked(order[i])) \o Chunked(headers[order[i]])
  <2>1. \A i \in 1..n : L[i - 1] \in T
      BY <1>6
  <2> QED
      BY <1>4, <1>6, <2>1
<1>8. Lines(L, headers, order)
    BY <1>0, <1>6, <1>7 DEF Lines, T
<1>9. L = [i \in 0..n |->
              IF i = 0 THEN <<>>
              ELSE (L[i - 1] \o (Put(Len(order[i]), LengthBytes) \o order[i]))
                     \o (Put(Len(headers[order[i]]), LengthBytes) \o headers[order[i]])]
  <2>1. L = [i \in 0..n |->
                IF i = 0 THEN <<>>
                ELSE (L[i - 1] \o Chunked(order[i])) \o Chunked(headers[order[i]])]
    <3> HIDE DEF lines
    <3>1. \A i \in 0..n : L[i] =
             IF i = 0 THEN <<>>
             ELSE (L[i - 1] \o Chunked(order[i])) \o Chunked(headers[order[i]])
      <4>1. \A i \in 0..n : i = 0 \/ (i # 0 /\ i \in 1..n)
          OBVIOUS
      <4> QED
          BY <1>6, <1>7, <4>1, Zenon
    <3>2. L = [i \in 0..n |-> L[i]]
        BY <1>6
    <3> QED
        BY <3>1, <3>2, Zenon
  <2> QED
      BY <2>1, Zenon DEF Chunked
<1>10. lines = [i \in 0..n |->
              IF i = 0 THEN <<>>
              ELSE (lines[i - 1] \o (Put(Len(order[i]), LengthBytes) \o order[i]))
                     \o (Put(Len(headers[order[i]]), LengthBytes) \o headers[order[i]])]
    BY <1>9, Zenon
<1>11. ASSUME NEW tile
       PROVE  Encode(tile, headers, order) =
                 Sealed(((Put(Len(tile), SizeBytes) \o Put(n, CountBytes))
                           \o lines[n]) \o tile)
    BY <1>0, Zenon DEF Encode
<1> HIDE DEF lines
<1>12. \A i \in 0..n : lines[i] =
              IF i = 0 THEN <<>>
              ELSE (lines[i - 1] \o Chunked(order[i])) \o Chunked(headers[order[i]])
    BY <1>10, Zenon DEF Chunked
<1>13. PICK v : v = lines
    OBVIOUS
<1>14. v[0] = L[0]
    BY <1>6, <1>12, <1>13
<1>15. \A i \in 1..n : v[i - 1] = L[i - 1] => v[i] = L[i]
  <2> SUFFICES ASSUME NEW i \in 1..n, v[i - 1] = L[i - 1]
               PROVE  v[i] = L[i]
      OBVIOUS
  <2>1. i \in 0..n /\ i # 0
      OBVIOUS
  <2>2. v[i] = (v[i - 1] \o Chunked(order[i])) \o Chunked(headers[order[i]])
      BY <1>12, <1>13, <2>1
  <2> QED
      BY <1>7, <2>2
<1>16. \A i \in 0..n : v[i] = L[i]
  <2>1. Alike(v, L, n)
      BY <1>14, <1>15, Zenon DEF Alike
  <2> QED
      BY <2>1, SameRecursion
<1>17. lines[n] = L[n]
    BY <1>13, <1>16
<1>18. \A tile : Encode(tile, headers, order) =
          Sealed(((Put(Len(tile), SizeBytes) \o Put(n, CountBytes)) \o L[n]) \o tile)
    BY <1>11, <1>17
<1> QED
    BY <1>8, <1>18

\* t holds the first m elements of c behind a.
Holds(t, a, m, c) == a + m <= Len(t) /\ \A j \in 1..m : t[a + j] = c[j]

\* s is the beginning of t.
Begins(s, t) == Len(s) <= Len(t) /\ \A j \in 1..Len(s) : t[j] = s[j]

\* What is written stays what is written before it.
LEMMA BeginsOn ==
    ASSUME NEW s \in Seq(Bytes), NEW t \in Seq(Bytes), NEW u \in Seq(Bytes)
    PROVE  /\ Begins(s, s)
           /\ Begins(s, t) => Begins(s, t \o u)
<1>1. Begins(s, s)
    BY DEF Begins
<1>2. ASSUME Begins(s, t)
      PROVE  Begins(s, t \o u)
  <2>1. Len(s) <= Len(t) /\ \A j \in 1..Len(s) : t[j] = s[j]
      BY <1>2 DEF Begins
  <2>2. /\ Len(t \o u) = Len(t) + Len(u)
        /\ \A j \in 1..Len(t) : (t \o u)[j] = t[j]
      BY Joins
  <2>3. Len(s) \in Nat /\ Len(t) \in Nat /\ Len(u) \in Nat
      OBVIOUS
  <2>4. Len(s) <= Len(t \o u)
      BY <2>1, <2>2, <2>3
  <2>5. \A j \in 1..Len(s) : j \in 1..Len(t)
      BY <2>1, <2>3
  <2>6. \A j \in 1..Len(s) : (t \o u)[j] = s[j]
      BY <2>1, <2>2, <2>5
  <2> QED
      BY <2>4, <2>6 DEF Begins
<1> QED
    BY <1>1, <1>2

\* The headers are texts.
Texts(headers, order) ==
    /\ order \in [1..Len(order) -> Seq(Bytes)] /\ Len(order) \in Nat
    /\ \A i \in 1..Len(order) : headers[order[i]] \in Seq(Bytes)

\* Where header i stands among the headers.
LEMMA LineIs ==
    ASSUME NEW headers, NEW order, NEW L, Texts(headers, order), Lines(L, headers, order),
           NEW i \in 1..Len(order)
    PROVE  LET k == order[i]
               v == headers[order[i]]
           IN  /\ k \in Seq(Bytes) /\ v \in Seq(Bytes)
               /\ L[i - 1] \in Seq(Bytes) /\ L[i] \in Seq(Bytes)
               /\ Len(L[i]) = Len(L[i - 1]) + (2 + Len(k)) + (2 + Len(v))
               /\ Holds(L[i], Len(L[i - 1]), 2 + Len(k), Chunked(k))
               /\ Holds(L[i], Len(L[i - 1]) + (2 + Len(k)), 2 + Len(v), Chunked(v))
               /\ Begins(L[i - 1], L[i])
<1>1. /\ order[i] \in Seq(Bytes) /\ headers[order[i]] \in Seq(Bytes)
      /\ i \in 0..Len(order) /\ i - 1 \in 0..Len(order)
    BY DEF Texts
<1>2. L[i - 1] \in Seq(Bytes) /\ L[i] \in Seq(Bytes)
    BY <1>1 DEF Lines
<1>3. L[i] = (L[i - 1] \o Chunked(order[i])) \o Chunked(headers[order[i]])
    BY DEF Lines
<1>4. PICK k, v, a, c, d :
         /\ k = order[i] /\ v = headers[order[i]] /\ a = L[i - 1]
         /\ c = Chunked(k) /\ d = Chunked(v)
    OBVIOUS
<1>5. k \in Seq(Bytes) /\ v \in Seq(Bytes) /\ a \in Seq(Bytes)
    BY <1>1, <1>2, <1>4
<1>6. c \in Seq(Bytes) /\ d \in Seq(Bytes) /\ Len(c) = 2 + Len(k) /\ Len(d) = 2 + Len(v)
    BY <1>4, <1>5, ChunkedIs
<1>7. PICK b : b = a \o c
    OBVIOUS
<1>8. /\ b \in Seq(Bytes) /\ Len(b) = Len(a) + Len(c)
      /\ \A j \in 1..Len(a) : b[j] = a[j]
      /\ \A j \in 1..Len(c) : b[Len(a) + j] = c[j]
  <2>1. a \in Seq(Bytes)
      BY <1>5
  <2>2. c \in Seq(Bytes)
      BY <1>6
  <2> QED
      BY <1>7, <2>1, <2>2, Joins
<1>9. /\ Len(b \o d) = Len(b) + Len(d)
      /\ \A j \in 1..Len(b) : (b \o d)[j] = b[j]
      /\ \A j \in 1..Len(d) : (b \o d)[Len(b) + j] = d[j]
  <2>1. b \in Seq(Bytes)
      BY <1>8
  <2>2. d \in Seq(Bytes)
      BY <1>6
  <2> QED
      BY <2>1, <2>2, Joins
<1>10. L[i] = b \o d
    BY <1>3, <1>4, <1>7
<1>11. Len(a) \in Nat /\ Len(c) \in Nat /\ Len(d) \in Nat /\ Len(k) \in Nat /\ Len(v) \in Nat
    BY <1>5, <1>6
<1>12. Len(b \o d) = Len(a) + (2 + Len(k)) + (2 + Len(v))
    BY <1>6, <1>8, <1>9, <1>11
<1>13. \A j \in 1..(2 + Len(k)) : (b \o d)[Len(a) + j] = c[j]
  <2>1. \A j \in 1..(2 + Len(k)) : j \in 1..Len(c) /\ Len(a) + j \in 1..Len(b)
      BY <1>6, <1>8, <1>11
  <2> QED
      BY <1>8, <1>9, <2>1
<1>14. \A j \in 1..(2 + Len(v)) : (b \o d)[(Len(a) + (2 + Len(k))) + j] = d[j]
    BY <1>6, <1>8, <1>9, <1>11
<1>15. Begins(a, b \o d)
    BY <1>5, <1>6, <1>7, <1>8, BeginsOn
<1>16. /\ Holds(b \o d, Len(a), 2 + Len(k), c)
       /\ Holds(b \o d, Len(a) + (2 + Len(k)), 2 + Len(v), d)
  <2>1. /\ Len(a) + (2 + Len(k)) <= Len(b \o d)
        /\ (Len(a) + (2 + Len(k))) + (2 + Len(v)) <= Len(b \o d)
      BY <1>11, <1>12
  <2> QED
      BY <1>13, <1>14, <2>1 DEF Holds
<1> QED
    BY <1>4, <1>5, <1>2, <1>10, <1>12, <1>15, <1>16

\* All that is written before is the beginning of what is written in the end.
LEMMA LinesBegin ==
    ASSUME NEW headers, NEW order, NEW L, Texts(headers, order), Lines(L, headers, order)
    PROVE  \A i \in 0..Len(order) : L[i] \in Seq(Bytes) /\ Begins(L[i], L[Len(order)])
<1>1. Len(order) \in Nat /\ L \in [0..Len(order) -> Seq(Bytes)]
    BY DEF Texts, Lines
<1>2. PICK n \in Nat : n = Len(order)
    BY <1>1
<1> DEFINE S == {m \in Nat : m \in 0..n => \A i \in 0..m : Begins(L[i], L[m])}
<1>3. 0 \in S
  <2>1. L[0] \in Seq(Bytes)
      BY <1>1
  <2>2. Begins(L[0], L[0])
      BY <2>1, BeginsOn
  <2> QED
      BY <2>2
<1>4. ASSUME NEW m \in Nat, m \in S
      PROVE  m + 1 \in S
  <2> SUFFICES ASSUME m + 1 \in 0..n, NEW i \in 0..(m + 1)
               PROVE  Begins(L[i], L[m + 1])
      OBVIOUS
  <2>1. m \in 0..n /\ m + 1 \in 1..n /\ (m + 1) - 1 = m
      OBVIOUS
  <2>2. \A j \in 0..m : Begins(L[j], L[m])
      BY <1>4, <2>1
  <2>3. L[m + 1] = (L[m] \o Chunked(order[m + 1])) \o Chunked(headers[order[m + 1]])
      BY <1>2, <2>1 DEF Lines
  <2>4. order[m + 1] \in Seq(Bytes) /\ headers[order[m + 1]] \in Seq(Bytes)
      BY <1>2, <2>1 DEF Texts
  <2>5. i \in 0..n /\ L[i] \in Seq(Bytes) /\ L[m] \in Seq(Bytes) /\ L[m + 1] \in Seq(Bytes)
      BY <1>1, <1>2, <2>1
  <2>6. CASE i = m + 1
      BY <2>5, <2>6, BeginsOn
  <2>7. CASE i # m + 1
    <3>1. i \in 0..m
        BY <2>7
    <3>2. PICK a, b, c, d : /\ a = L[i] /\ b = L[m] /\ c = Chunked(order[m + 1])
                            /\ d = Chunked(headers[order[m + 1]])
        OBVIOUS
    <3>3. a \in Seq(Bytes) /\ b \in Seq(Bytes) /\ c \in Seq(Bytes) /\ d \in Seq(Bytes)
        BY <2>4, <2>5, <3>2, ChunkedIs
    <3>4. Begins(a, b)
        BY <2>2, <3>1, <3>2
    <3>5. Begins(a, b \o c)
        BY <3>3, <3>4, BeginsOn
    <3>6. b \o c \in Seq(Bytes)
        BY <3>3, Joins
    <3>7. Begins(a, (b \o c) \o d)
        BY <3>3, <3>5, <3>6, BeginsOn
    <3> QED
        BY <2>3, <3>2, <3>7
  <2> QED
      BY <2>6, <2>7
<1>5. n \in S
  <2> HIDE DEF S
  <2> QED
      BY <1>3, <1>4, InductiveSet
<1> QED
    BY <1>1, <1>2, <1>5

\* A sequence is known by its elements.
LEMMA SameSequence ==
    ASSUME NEW U, NEW V, NEW s \in Seq(U), NEW t \in Seq(V), Len(s) = Len(t),
           \A j \in 1..Len(t) : s[j] = t[j]
    PROVE  s = t
OBVIOUS

\* So is a piece of one.
LEMMA Slice ==
    ASSUME NEW U, NEW t \in Seq(U), NEW V, NEW s \in Seq(V), NEW from \in Nat,
           from + Len(s) <= Len(t),
           \A j \in 1..Len(s) : t[from + j] = s[j]
    PROVE  SubSeq(t, from + 1, from + Len(s)) = s
<1> DEFINE u == SubSeq(t, from + 1, from + Len(s))
<1>1. u \in Seq(U) /\ Len(u) = Len(s)
    OBVIOUS
<1>2. \A j \in 1..Len(s) : u[j] = s[j]
    OBVIOUS
<1> HIDE DEF u
<1>3. u = s
    BY <1>1, <1>2
<1> QED
    BY <1>3 DEF u

\* What is left without the first element.
LEMMA Tails ==
    ASSUME NEW U, NEW t \in Seq(U), Len(t) >= 1
    PROVE  /\ Tail(t) \in Seq(U) /\ Len(Tail(t)) = Len(t) - 1
           /\ \A j \in 1..(Len(t) - 1) : Tail(t)[j] = t[1 + j]
OBVIOUS

\* A checksum, and bytes behind it.
IsPacket(t) ==
    /\ t \in Seq(Bytes \cup {t[1]})
    /\ Len(t) >= 1
    /\ \A j \in 2..Len(t) : t[j] \in Bytes

\* The layout of a packet.
Laid(t, tile, n, l) ==
    t = Sealed(((Put(Len(tile), SizeBytes) \o Put(n, CountBytes)) \o l) \o tile)

\* What Encode returns, part by part: it is valid.
LEMMA PacketIs ==
    ASSUME NEW n \in Nat, NEW l \in Seq(Bytes), NEW tile \in Seq(Bytes), NEW t,
           Laid(t, tile, n, l)
    PROVE  /\ IsPacket(t) /\ Validate(t)
           /\ t[1] = [sum |-> Tail(t)] /\ Tail(t) \in Seq(Bytes)
           /\ Len(t) = (6 + Len(l)) + Len(tile)
           /\ SubSeq(t, 2, 5) = Put(Len(tile), 4)
           /\ SubSeq(t, 6, 6) = Put(n, 1)
           /\ Holds(t, 6, Len(l), l)
           /\ Holds(t, 6 + Len(l), Len(tile), tile)
<1>1. PICK p, q : p = Put(Len(tile), 4) /\ q = Put(n, 1)
    OBVIOUS
<1>2. p \in Seq(Bytes) /\ Len(p) = 4
  <2>1. Len(tile) \in Nat /\ 4 \in Widths
      BY DEF Widths
  <2> QED
      BY <1>1, <2>1, PutFills
<1>3. q \in Seq(Bytes) /\ Len(q) = 1
  <2>1. 1 \in Widths
      BY DEF Widths
  <2> QED
      BY <1>1, <2>1, PutFills
<1>4. PICK a, b, c : a = p \o q /\ b = a \o l /\ c = b \o tile
    OBVIOUS
<1>5. /\ a \in Seq(Bytes) /\ Len(a) = 5
      /\ \A j \in 1..4 : a[j] = p[j]
      /\ a[5] = q[1]
  <2>1. p \in Seq(Bytes)
      BY <1>2
  <2>2. q \in Seq(Bytes)
      BY <1>3
  <2>3. /\ p \o q \in Seq(Bytes) /\ Len(p \o q) = Len(p) + Len(q)
        /\ \A j \in 1..Len(p) : (p \o q)[j] = p[j]
        /\ \A j \in 1..Len(q) : (p \o q)[Len(p) + j] = q[j]
      BY <2>1, <2>2, Joins
  <2>4. a = p \o q /\ Len(p) = 4 /\ Len(q) = 1 /\ 1 \in 1..1 /\ 4 + 1 = 5
      BY <1>2, <1>3, <1>4
  <2>5. a[4 + 1] = q[1]
      BY <2>3, <2>4
  <2> QED
      BY <2>3, <2>4, <2>5
<1>6. /\ b \in Seq(Bytes) /\ Len(b) = 5 + Len(l)
      /\ \A j \in 1..5 : b[j] = a[j]
      /\ \A j \in 1..Len(l) : b[5 + j] = l[j]
  <2>1. a \in Seq(Bytes)
      BY <1>5
  <2>2. /\ a \o l \in Seq(Bytes) /\ Len(a \o l) = Len(a) + Len(l)
        /\ \A j \in 1..Len(a) : (a \o l)[j] = a[j]
        /\ \A j \in 1..Len(l) : (a \o l)[Len(a) + j] = l[j]
      BY <2>1, Joins
  <2>3. b = a \o l /\ Len(a) = 5
      BY <1>4, <1>5
  <2> QED
      BY <2>2, <2>3
<1>7. /\ c \in Seq(Bytes) /\ Len(c) = Len(b) + Len(tile)
      /\ \A j \in 1..Len(b) : c[j] = b[j]
      /\ \A j \in 1..Len(tile) : c[Len(b) + j] = tile[j]
  <2>1. b \in Seq(Bytes)
      BY <1>6
  <2>2. /\ b \o tile \in Seq(Bytes) /\ Len(b \o tile) = Len(b) + Len(tile)
        /\ \A j \in 1..Len(b) : (b \o tile)[j] = b[j]
        /\ \A j \in 1..Len(tile) : (b \o tile)[Len(b) + j] = tile[j]
      BY <2>1, Joins
  <2>3. c = b \o tile
      BY <1>4
  <2> QED
      BY <2>2, <2>3
<1>8. PICK m : m = [sum |-> c]
    OBVIOUS
<1>9. t = <<m>> \o c
    BY <1>1, <1>4, <1>8 DEF Laid, Sealed, SizeBytes, CountBytes
<1>10. /\ t \in Seq(Bytes \cup {m}) /\ Len(t) = 1 + Len(c)
       /\ t[1] = m
       /\ \A j \in 1..Len(c) : t[1 + j] = c[j]
  <2>1. <<m>> \in Seq(Bytes \cup {m}) /\ c \in Seq(Bytes \cup {m})
      BY <1>7
  <2> QED
      BY <1>9, <2>1
<1>11. Len(l) \in Nat /\ Len(tile) \in Nat /\ Len(c) = (5 + Len(l)) + Len(tile)
    BY <1>6, <1>7
<1>12. IsPacket(t)
  <2>1. \A j \in 2..Len(t) : t[j] \in Bytes
    <3> SUFFICES ASSUME NEW j \in 2..Len(t)
                 PROVE  t[j] \in Bytes
        OBVIOUS
    <3>1. j - 1 \in 1..Len(c) /\ 1 + (j - 1) = j
        BY <1>10, <1>11
    <3>2. t[j] = c[j - 1] /\ c[j - 1] \in Bytes
        BY <1>7, <1>10, <3>1
    <3> QED
        BY <3>2
  <2> QED
      BY <1>10, <1>11, <2>1 DEF IsPacket
<1>13. Tail(t) = c
  <2>0. t \in Seq(Bytes \cup {m})
      BY <1>10
  <2>1. Len(t) >= 1 /\ Len(t) - 1 = Len(c)
      BY <1>10, <1>11
  <2>2. Tail(t) \in Seq(Bytes \cup {m}) /\ Len(Tail(t)) = Len(c)
      BY <2>0, <2>1, Tails
  <2>3. \A j \in 1..Len(c) : Tail(t)[j] = t[1 + j]
      BY <2>0, <2>1, Tails
  <2>4. \A j \in 1..Len(c) : Tail(t)[j] = c[j]
      BY <1>10, <2>3
  <2>5. c \in Seq(Bytes)
      BY <1>7
  <2>6. PICK u : u = Tail(t)
      OBVIOUS
  <2>7. u = c
    <3>1. u \in Seq(Bytes \cup {m})
        BY <2>2, <2>6
    <3>2. Len(u) = Len(c) /\ \A j \in 1..Len(c) : u[j] = c[j]
        BY <2>2, <2>4, <2>6
    <3> QED
        BY <2>5, <3>1, <3>2, SameSequence
  <2> QED
      BY <2>6, <2>7
<1>14. Validate(t) /\ t[1] = [sum |-> Tail(t)]
  <2>1. Len(t) >= 1
      BY <1>10, <1>11
  <2>2. t[1] = [sum |-> Tail(t)]
      BY <1>8, <1>10, <1>13, Zenon
  <2> QED
      BY <2>1, <2>2, Zenon DEF Validate
<1>15. Len(t) = (6 + Len(l)) + Len(tile)
    BY <1>10, <1>11
<1>16. SubSeq(t, 2, 5) = p
  <2>1. \A j \in 1..4 : t[1 + j] = p[j]
    <3>1. \A j \in 1..4 : j \in 1..5 /\ j \in 1..Len(b) /\ j \in 1..Len(c)
        BY <1>6, <1>7, <1>11
    <3> QED
        BY <1>5, <1>6, <1>7, <1>10, <3>1
  <2>2. 1 + Len(p) <= Len(t)
      BY <1>2, <1>11, <1>15
  <2>3. SubSeq(t, 1 + 1, 1 + Len(p)) = p
      BY <1>2, <1>10, <2>1, <2>2, Slice
  <2> QED
      BY <1>2, <2>3
<1>17. SubSeq(t, 6, 6) = q
  <2>1. t[6] = q[1]
    <3>1. 5 \in 1..5 /\ 5 \in 1..Len(b) /\ 5 \in 1..Len(c) /\ 1 + 5 = 6
        BY <1>6, <1>7, <1>11
    <3> QED
        BY <1>5, <1>6, <1>7, <1>10, <3>1
  <2>2. \A j \in 1..Len(q) : t[5 + j] = q[j]
      BY <1>3, <2>1
  <2>3. 5 + Len(q) <= Len(t)
      BY <1>3, <1>11, <1>15
  <2>4. SubSeq(t, 5 + 1, 5 + Len(q)) = q
      BY <1>3, <1>10, <2>2, <2>3, Slice
  <2> QED
      BY <1>3, <2>4
<1>18. \A j \in 1..Len(l) : t[6 + j] = l[j]
  <2> SUFFICES ASSUME NEW j \in 1..Len(l)
               PROVE  t[6 + j] = l[j]
      OBVIOUS
  <2>1. 5 + j \in 1..Len(b) /\ 5 + j \in 1..Len(c) /\ 1 + (5 + j) = 6 + j
      BY <1>6, <1>11
  <2> QED
      BY <1>6, <1>7, <1>10, <2>1
<1>19. \A j \in 1..Len(tile) : t[(6 + Len(l)) + j] = tile[j]
  <2> SUFFICES ASSUME NEW j \in 1..Len(tile)
               PROVE  t[(6 + Len(l)) + j] = tile[j]
      OBVIOUS
  <2>1. Len(b) + j \in 1..Len(c) /\ 1 + (Len(b) + j) = (6 + Len(l)) + j
      BY <1>6, <1>11
  <2>2. t[1 + (Len(b) + j)] = c[Len(b) + j]
      BY <1>10, <2>1
  <2> QED
      BY <1>7, <2>1, <2>2
<1>20. 6 + Len(l) <= Len(t) /\ (6 + Len(l)) + Len(tile) <= Len(t)
    BY <1>11, <1>15
<1>21. Holds(t, 6, Len(l), l) /\ Holds(t, 6 + Len(l), Len(tile), tile)
    BY <1>18, <1>19, <1>20 DEF Holds
<1> QED
    BY <1>1, <1>7, <1>12, <1>13, <1>14, <1>15, <1>16, <1>17, <1>21

-----------------------------------------------------------------------------
(***************************************************************************)
(* What Headers reads.                                                     *)
(***************************************************************************)

\* Texts whose length the field can hold.
Short == {s \in Seq(Bytes) : Len(s) < Weight[LengthBytes]}

\* What is behind the checksum is bytes, piece by piece.
LEMMA PieceIs ==
    ASSUME NEW t, IsPacket(t), NEW from \in Nat, from >= 1, NEW n \in Nat,
           from + n <= Len(t)
    PROVE  /\ SubSeq(t, from + 1, from + n) \in Seq(Bytes)
           /\ SubSeq(t, from + 1, from + n) \in [1..n -> Bytes]
           /\ Len(SubSeq(t, from + 1, from + n)) = n
<1>1. PICK U : t \in Seq(U)
    BY DEF IsPacket
<1>2. Len(t) \in Nat
    BY <1>1
<1>3. PICK s : s = SubSeq(t, from + 1, from + n)
    OBVIOUS
<1>4. /\ s \in [1..n -> U]
      /\ \A j \in 1..n : s[j] = t[from + j]
  <2>1. s \in Seq(U) /\ Len(s) = n
      BY <1>1, <1>2, <1>3
  <2>2. \A j \in 1..n : s[j] = t[from + j]
      BY <1>1, <1>2, <1>3
  <2> QED
      BY <2>1, <2>2
<1>5. \A j \in 1..n : s[j] \in Bytes
  <2>1. \A j \in 1..n : from + j \in 2..Len(t)
      BY <1>2
  <2> QED
      BY <1>4, <2>1 DEF IsPacket
<1>6. s \in [1..n -> Bytes]
    BY <1>4, <1>5
<1>7. s \in Seq(Bytes) /\ Len(s) = n
    BY <1>6, SeqIsFunction
<1> QED
    BY <1>3, <1>6, <1>7

\* The empty text is short.
LEMMA EmptyIsShort == <<>> \in Short
BY Weights DEF Short, LengthBytes

\* Whatever a chunk holds, it is short, and Chunk goes on.
LEMMA ChunkIs ==
    ASSUME NEW t, IsPacket(t), NEW offset \in Nat, offset >= 1
    PROVE  /\ Chunk(t, offset) \in [fit : BOOLEAN, offset : Nat, text : Short]
           /\ Chunk(t, offset).offset >= 1
<1>1. CASE offset + 2 <= Len(t)
  <2>1. PICK f \in Nat : f = offset + 2
      OBVIOUS
  <2>2. PICK n : n = Number(SubSeq(t, offset + 1, f))
      OBVIOUS
  <2>3. n \in Nat /\ n < Weight[2]
    <3>1. SubSeq(t, offset + 1, offset + 2) \in [1..2 -> Bytes]
        BY <1>1, PieceIs
    <3>2. PICK w \in 0..4 : w = 2
        OBVIOUS
    <3>3. PICK s : s = SubSeq(t, offset + 1, offset + 2)
        OBVIOUS
    <3>4. s \in [1..w -> Bytes]
        BY <3>1, <3>2, <3>3
    <3>5. Number(s) \in Nat /\ Number(s) < Weight[w]
        BY <3>4, NumberFits
    <3> QED
        BY <2>1, <2>2, <3>2, <3>3, <3>5
  <2>4. CASE f + n <= Len(t)
    <3>1. PICK s : s = SubSeq(t, f + 1, f + n)
        OBVIOUS
    <3>2. s \in Seq(Bytes) /\ Len(s) = n
      <4>1. f >= 1
          BY <2>1
      <4>2. n \in Nat
          BY <2>3
      <4> QED
          BY <2>4, <3>1, <4>1, <4>2, PieceIs
    <3>3. s \in Short
        BY <2>3, <3>2 DEF Short, LengthBytes
    <3>4. Chunk(t, offset) = [fit |-> TRUE, offset |-> f + n, text |-> s]
        BY <1>1, <2>1, <2>2, <2>4, <3>1 DEF Chunk, LengthBytes
    <3>5. f + n \in Nat /\ f + n >= 1
        BY <2>1, <2>3
    <3> QED
        BY <3>3, <3>4, <3>5
  <2>5. CASE ~(f + n <= Len(t))
    <3>1. Chunk(t, offset) = [fit |-> FALSE, offset |-> offset, text |-> <<>>]
        BY <1>1, <2>1, <2>2, <2>5 DEF Chunk, LengthBytes
    <3> QED
        BY <3>1, EmptyIsShort
  <2> QED
      BY <2>4, <2>5
<1>2. CASE ~(offset + 2 <= Len(t))
  <2>1. Chunk(t, offset) = [fit |-> FALSE, offset |-> offset, text |-> <<>>]
      BY <1>2 DEF Chunk, LengthBytes
  <2> QED
      BY <2>1, EmptyIsShort
<1> QED
    BY <1>1, <1>2

\* A short text that has been written is read.
LEMMA ChunkReads ==
    ASSUME NEW t, IsPacket(t), NEW offset \in Nat, offset >= 1,
           NEW text \in Short, Holds(t, offset, 2 + Len(text), Chunked(text))
    PROVE  Chunk(t, offset) =
              [fit |-> TRUE, offset |-> offset + (2 + Len(text)), text |-> text]
<1>0. /\ offset + (2 + Len(text)) <= Len(t)
      /\ \A j \in 1..(2 + Len(text)) : t[offset + j] = Chunked(text)[j]
    BY DEF Holds
<1>1. text \in Seq(Bytes) /\ Len(text) < Weight[2] /\ Len(text) \in Nat
    BY DEF Short, LengthBytes
<1>2. PICK n \in Nat : n = Len(text)
    BY <1>1
<1>3. PICK U : t \in Seq(U) /\ Len(t) \in Nat
    BY DEF IsPacket
<1>4. PICK p : p = Put(n, 2)
    OBVIOUS
<1>5. 2 \in Widths
    BY DEF Widths
<1>6. p \in Seq(Bytes) /\ Len(p) = 2
    BY <1>4, <1>5, PutFills
<1>7. /\ \A j \in 1..2 : Chunked(text)[j] = p[j]
      /\ \A j \in 1..n : Chunked(text)[2 + j] = text[j]
    BY <1>1, <1>2, <1>4, ChunkedIs
<1>8. SubSeq(t, offset + 1, offset + 2) = p
  <2>1. \A j \in 1..2 : t[offset + j] = p[j]
    <3>1. \A j \in 1..2 : j \in 1..(2 + Len(text))
        BY <1>1
    <3> QED
        BY <1>0, <1>7, <3>1
  <2>2. offset + 2 <= Len(t)
      BY <1>0, <1>1, <1>3
  <2>3. SubSeq(t, offset + 1, offset + Len(p)) = p
      BY <1>3, <1>6, <2>1, <2>2, Slice
  <2> QED
      BY <1>6, <2>3
<1>9. Number(p) = n
    BY <1>1, <1>2, <1>4, <1>5, NumberPutFits
<1>10. SubSeq(t, (offset + 2) + 1, (offset + 2) + n) = text
  <2>1. \A j \in 1..n : t[(offset + 2) + j] = text[j]
    <3> SUFFICES ASSUME NEW j \in 1..n
                 PROVE  t[(offset + 2) + j] = text[j]
        OBVIOUS
    <3>1. 2 + j \in 1..(2 + Len(text)) /\ offset + (2 + j) = (offset + 2) + j
        BY <1>2
    <3>2. t[offset + (2 + j)] = Chunked(text)[2 + j]
        BY <1>0, <3>1
    <3> QED
        BY <1>7, <3>1, <3>2
  <2>2. (offset + 2) + n <= Len(t) /\ offset + 2 \in Nat
      BY <1>0, <1>2, <1>3
  <2>3. PICK from \in Nat : from = offset + 2
      BY <2>2
  <2>4. SubSeq(t, from + 1, from + Len(text)) = text
      BY <1>1, <1>2, <1>3, <2>1, <2>2, <2>3, Slice
  <2> QED
      BY <1>2, <2>3, <2>4
<1>11. offset + 2 <= Len(t) /\ (offset + 2) + n <= Len(t) /\ (offset + 2) + n = offset + (2 + n)
    BY <1>0, <1>2, <1>3
<1> QED
    BY <1>2, <1>8, <1>9, <1>10, <1>11 DEF Chunk, LengthBytes

\* Maps from short texts to short texts.
Maps == UNION {[d -> Short] : d \in SUBSET Short}

\* One header more.
LEMMA MapMore ==
    ASSUME NEW m \in Maps, NEW k \in Short, NEW v \in Short
    PROVE  /\ SetHeader(m, k, v) \in Maps
           /\ DOMAIN SetHeader(m, k, v) = {k} \cup DOMAIN m
           /\ SetHeader(m, k, v)[k] = v
           /\ \A x \in DOMAIN m \ {k} : SetHeader(m, k, v)[x] = m[x]
<1>1. PICK d \in SUBSET Short : m \in [d -> Short]
    BY DEF Maps
<1>2. PICK g : g = [x \in {k} \cup d |-> IF x = k THEN v ELSE m[x]]
    OBVIOUS
<1>3. SetHeader(m, k, v) = g
    BY <1>1, <1>2 DEF SetHeader
<1>4. /\ g \in [({k} \cup d) -> Short]
      /\ g[k] = v
      /\ \A x \in d \ {k} : g[x] = m[x]
    BY <1>1, <1>2
<1>5. g \in Maps
  <2>1. {k} \cup d \in SUBSET Short
      BY <1>1
  <2> QED
      BY <1>4, <2>1 DEF Maps
<1> QED
    BY <1>1, <1>3, <1>4, <1>5

\* What the loop of Headers keeps.
Progress ==
    {r \in [fit : BOOLEAN, offset : Nat, map : Maps] : r.offset >= 1}

Start == [fit |-> TRUE, offset |-> HeaderAt, map |-> <<>>]

\* One round of it.
Round(t, r) ==
    LET key == Chunk(t, r.offset)
        val == Chunk(t, key.offset)
    IN  [fit |-> r.fit /\ key.fit /\ val.fit,
         offset |-> val.offset,
         map |-> SetHeader(r.map, key.text, val.text)]

\* It goes on, and adds at most one header.
LEMMA RoundIs ==
    ASSUME NEW t, IsPacket(t), NEW r \in Progress
    PROVE  /\ Round(t, r) \in Progress
           /\ \E k \in Short : DOMAIN Round(t, r).map = {k} \cup DOMAIN r.map
<1>1. r.offset \in Nat /\ r.offset >= 1 /\ r.map \in Maps /\ r.fit \in BOOLEAN
    BY DEF Progress
<1>2. PICK o, m, f : o = r.offset /\ m = r.map /\ f = r.fit
    OBVIOUS
<1>3. o \in Nat /\ o >= 1
    BY <1>1, <1>2
<1>4. PICK key : key = Chunk(t, o)
    OBVIOUS
<1>5. key \in [fit : BOOLEAN, offset : Nat, text : Short] /\ key.offset >= 1
    BY <1>3, <1>4, ChunkIs
<1>6. PICK val : val = Chunk(t, key.offset)
    OBVIOUS
<1>7. val \in [fit : BOOLEAN, offset : Nat, text : Short] /\ val.offset >= 1
  <2>1. key.offset \in Nat
      BY <1>5
  <2> QED
      BY <1>5, <1>6, <2>1, ChunkIs
<1>8. Round(t, r) = [fit |-> f /\ key.fit /\ val.fit, offset |-> val.offset,
                     map |-> SetHeader(m, key.text, val.text)]
    BY <1>2, <1>4, <1>6 DEF Round
<1>9. key.text \in Short /\ val.text \in Short /\ m \in Maps
    BY <1>1, <1>2, <1>5, <1>7
<1>10. PICK g : g = SetHeader(m, key.text, val.text)
    OBVIOUS
<1>11. g \in Maps /\ DOMAIN g = {key.text} \cup DOMAIN m
    BY <1>9, <1>10, MapMore
<1>12. /\ Round(t, r) \in [fit : BOOLEAN, offset : Nat, map : Maps]
       /\ Round(t, r).offset >= 1
  <2>1. PICK b \in BOOLEAN : b = (f /\ key.fit /\ val.fit)
      OBVIOUS
  <2>2. Round(t, r) = [fit |-> b, offset |-> val.offset, map |-> g]
      BY <1>8, <1>10, <2>1
  <2> QED
      BY <1>7, <1>11, <2>2
<1>13. Round(t, r).map = g
    BY <1>8, <1>10
<1> QED
    BY <1>2, <1>9, <1>11, <1>12, <1>13 DEF Progress

\* The rounds of the loop, and what comes of them.
LEMMA ReadIs ==
    ASSUME NEW t, IsPacket(t), NEW n \in Nat, LenHeaders(t) = n
    PROVE  \E R \in [0..n -> Progress] :
              /\ R[0] = Start
              /\ \A i \in 1..n : R[i] = Round(t, R[i - 1])
              /\ Headers(t) = R[n]
<1> DEFINE F == [x \in Nat \X Progress |-> Round(t, x[2])]
           read == CHOOSE g : g = [i \in 0..n |-> IF i = 0 THEN Start ELSE Round(t, g[i - 1])]
<1>1. Start \in Progress
  <2>1. <<>> \in Maps
    <3>1. <<>> \in [{} -> Short]
        OBVIOUS
    <3> QED
        BY <3>1 DEF Maps
  <2>2. HeaderAt \in Nat /\ HeaderAt >= 1
      BY DEF HeaderAt, SizeBytes, CountBytes
  <2> QED
      BY <2>1, <2>2 DEF Start, Progress
<1>2. F \in [Nat \X Progress -> Progress]
  <2>1. ASSUME NEW x \in Nat \X Progress
        PROVE  Round(t, x[2]) \in Progress
    <3>1. x[2] \in Progress
        OBVIOUS
    <3> QED
        BY <3>1, RoundIs
  <2> QED
      BY <2>1
<1>3. \A i \in 1..n, r \in Progress : F[<<i, r>>] = Round(t, r)
  <2> SUFFICES ASSUME NEW i \in 1..n, NEW r \in Progress
               PROVE  F[<<i, r>>] = Round(t, r)
      OBVIOUS
  <2>1. i \in Nat
      OBVIOUS
  <2>2. PICK x \in Nat \X Progress : x = <<i, r>>
      BY <2>1
  <2>3. F[x] = Round(t, x[2]) /\ x[2] = r
      BY <2>2
  <2> QED
      BY <2>2, <2>3
<1> HIDE DEF F
<1>4. PICK R : R \in Recursive(Progress, Start, F, n)
    BY <1>1, <1>2, RecursionDefines
<1>5. /\ R \in [0..n -> Progress] /\ R[0] = Start
      /\ \A i \in 1..n : R[i] = F[<<i, R[i - 1]>>]
    BY <1>4 DEF Recursive
<1>6. \A i \in 1..n : R[i] = Round(t, R[i - 1])
  <2>1. \A i \in 1..n : R[i - 1] \in Progress
      BY <1>5
  <2> QED
      BY <1>3, <1>5, <2>1
<1>7. R = [i \in 0..n |-> IF i = 0 THEN Start ELSE Round(t, R[i - 1])]
  <2> HIDE DEF read
  <2>1. \A i \in 0..n : R[i] = IF i = 0 THEN Start ELSE Round(t, R[i - 1])
    <3>1. \A i \in 0..n : i = 0 \/ (i # 0 /\ i \in 1..n)
        OBVIOUS
    <3> QED
        BY <1>5, <1>6, <3>1, Zenon
  <2>2. R = [i \in 0..n |-> R[i]]
      BY <1>5
  <2> QED
      BY <2>1, <2>2, Zenon
<1>8. read = [i \in 0..n |-> IF i = 0 THEN Start ELSE Round(t, read[i - 1])]
    BY <1>7, Zenon
<1>9. Headers(t) = read[n]
    BY Zenon DEF Headers, Round, Start
<1> HIDE DEF read
<1>10. \A i \in 0..n : read[i] = IF i = 0 THEN Start ELSE Round(t, read[i - 1])
    BY <1>8, Zenon
<1>11. Alike(read, R, n)
  <2>1. read[0] = R[0]
      BY <1>5, <1>10
  <2>2. ASSUME NEW i \in 1..n, read[i - 1] = R[i - 1]
        PROVE  read[i] = R[i]
    <3>1. i \in 0..n /\ i # 0
        OBVIOUS
    <3>2. read[i] = Round(t, read[i - 1])
        BY <1>10, <3>1
    <3> QED
        BY <1>6, <2>2, <3>2
  <2> QED
      BY <2>1, <2>2, Zenon DEF Alike
<1>12. read[n] = R[n]
    BY <1>11, SameRecursion
<1> QED
    BY <1>5, <1>6, <1>9, <1>12

\* Not more headers are read than the packet says, and no longer ones than their
\* fields can say.
LEMMA HeadersAre ==
    ASSUME NEW t, IsPacket(t), NEW n \in Nat, LenHeaders(t) = n
    PROVE  /\ Headers(t).map \in Maps
           /\ IsFiniteSet(DOMAIN Headers(t).map)
           /\ Cardinality(DOMAIN Headers(t).map) <= n
<1>1. PICK R \in [0..n -> Progress] :
         /\ R[0] = Start
         /\ \A i \in 1..n : R[i] = Round(t, R[i - 1])
         /\ Headers(t) = R[n]
    BY ReadIs
<1> DEFINE Few(i) == /\ IsFiniteSet(DOMAIN R[i].map)
                     /\ Cardinality(DOMAIN R[i].map) <= i
           S == {i \in Nat : i \in 0..n => Few(i)}
<1>2. 0 \in S
  <2>1. DOMAIN R[0].map = {}
      BY <1>1 DEF Start
  <2>2. IsFiniteSet({}) /\ Cardinality({}) = 0
      BY FS_EmptySet
  <2>3. Few(0)
      BY <2>1, <2>2
  <2> QED
      BY <2>3
<1>3. ASSUME NEW m \in Nat, m \in S
      PROVE  m + 1 \in S
  <2> SUFFICES ASSUME m + 1 \in 0..n
               PROVE  Few(m + 1)
      OBVIOUS
  <2>1. m \in 0..n /\ m + 1 \in 1..n /\ (m + 1) - 1 = m
      OBVIOUS
  <2>2. Few(m)
      BY <1>3, <2>1
  <2>3. R[m] \in Progress /\ R[m + 1] = Round(t, R[m])
      BY <1>1, <2>1
  <2>4. PICK k : DOMAIN R[m + 1].map = {k} \cup DOMAIN R[m].map
      BY <2>3, RoundIs
  <2>5. PICK d, e : d = DOMAIN R[m].map /\ e = DOMAIN R[m + 1].map
      OBVIOUS
  <2>6. IsFiniteSet(d) /\ Cardinality(d) <= m
      BY <2>2, <2>5
  <2>7. e = d \cup {k}
      BY <2>4, <2>5
  <2>8. /\ IsFiniteSet(e)
        /\ Cardinality(e) = IF k \in d THEN Cardinality(d) ELSE Cardinality(d) + 1
      BY <2>6, <2>7, FS_AddElement
  <2>9. Cardinality(d) \in Nat
      BY <2>6, FS_CardinalityType
  <2>10. Cardinality(e) <= m + 1
      BY <2>6, <2>8, <2>9
  <2> QED
      BY <2>5, <2>8, <2>10
<1>4. n \in S
  <2> HIDE DEF S
  <2> QED
      BY <1>2, <1>3, InductiveSet
<1>5. Few(n)
    BY <1>4
<1>6. R[n].map \in Maps
    BY DEF Progress
<1> QED
    BY <1>1, <1>5, <1>6

\* What stands in the headers stands in the packet.
LEMMA Stands ==
    ASSUME NEW t, IsPacket(t), NEW l \in Seq(Bytes), Holds(t, 6, Len(l), l),
           NEW s \in Seq(Bytes), Begins(s, l),
           NEW a \in Nat, NEW m \in Nat, NEW c, Holds(s, a, m, c)
    PROVE  Holds(t, 6 + a, m, c)
<1>1. Len(s) <= Len(l) /\ \A j \in 1..Len(s) : l[j] = s[j]
    BY DEF Begins
<1>2. Len(s) \in Nat /\ Len(l) \in Nat /\ Len(t) \in Nat
    BY DEF IsPacket
<1>3. 6 + Len(l) <= Len(t) /\ \A j \in 1..Len(l) : t[6 + j] = l[j]
    BY DEF Holds
<1>4. a + m <= Len(s) /\ \A j \in 1..m : s[a + j] = c[j]
    BY DEF Holds
<1>5. (6 + a) + m <= Len(t)
    BY <1>1, <1>2, <1>3, <1>4
<1>6. ASSUME NEW j \in 1..m
      PROVE  t[(6 + a) + j] = c[j]
  <2>1. a + j \in 1..Len(s) /\ a + j \in 1..Len(l) /\ 6 + (a + j) = (6 + a) + j
      BY <1>1, <1>2, <1>4
  <2>2. t[6 + (a + j)] = l[a + j]
      BY <1>3, <2>1
  <2>3. l[a + j] = s[a + j] /\ s[a + j] = c[j]
      BY <1>1, <1>4, <2>1
  <2> QED
      BY <2>1, <2>2, <2>3
<1> QED
    BY <1>5, <1>6 DEF Holds

\* A round of the loop that comes to a short header reads it.
LEMMA RoundReads ==
    ASSUME NEW headers, NEW order, NEW L, Texts(headers, order), Lines(L, headers, order),
           NEW t, IsPacket(t), NEW l, l = L[Len(order)], Holds(t, 6, Len(l), l),
           NEW i \in 1..Len(order), order[i] \in Short, headers[order[i]] \in Short,
           NEW m
    PROVE  Round(t, [fit |-> TRUE, offset |-> 6 + Len(L[i - 1]), map |-> m]) =
              [fit |-> TRUE, offset |-> 6 + Len(L[i]),
               map |-> SetHeader(m, order[i], headers[order[i]])]
<1>1. PICK k, v, a, s, b : /\ k = order[i] /\ v = headers[order[i]]
                           /\ b = L[i - 1] /\ a = Len(b) /\ s = L[i]
    OBVIOUS
<1>2. /\ k \in Seq(Bytes) /\ v \in Seq(Bytes) /\ b \in Seq(Bytes) /\ s \in Seq(Bytes)
      /\ Len(s) = a + (2 + Len(k)) + (2 + Len(v))
      /\ Holds(s, a, 2 + Len(k), Chunked(k))
      /\ Holds(s, a + (2 + Len(k)), 2 + Len(v), Chunked(v))
    BY <1>1, LineIs
<1>3. l \in Seq(Bytes) /\ Begins(s, l)
  <2>1. i \in 0..Len(order) /\ Len(order) \in 0..Len(order)
      BY DEF Texts
  <2> QED
      BY <1>1, <2>1, LinesBegin
<1>4. k \in Short /\ v \in Short
    BY <1>1
<1>5. Len(k) \in Nat /\ Len(v) \in Nat /\ a \in Nat
    BY <1>1, <1>2
<1>6. PICK x \in Nat, y \in Nat : x = 2 + Len(k) /\ y = 2 + Len(v)
    BY <1>5
<1>7. PICK e \in Nat : e = a + x
    BY <1>5
<1>8. Len(s) = e + y
    BY <1>2, <1>5, <1>6, <1>7
<1>9. PICK c, d : c = Chunked(k) /\ d = Chunked(v)
    OBVIOUS
<1>10. Holds(s, a, x, c) /\ Holds(s, e, y, d)
    BY <1>2, <1>6, <1>7, <1>9
<1>11. l \in Seq(Bytes)
    BY <1>3
<1>12. s \in Seq(Bytes)
    BY <1>2
<1>13. a \in Nat
    BY <1>5
<1>14. Holds(t, 6 + a, x, c)
    BY <1>3, <1>10, <1>11, <1>12, <1>13, Stands
<1>15. Holds(t, 6 + e, y, d)
    BY <1>3, <1>10, <1>11, <1>12, Stands
<1>16. PICK o \in Nat, p \in Nat : o = 6 + a /\ p = 6 + e
    BY <1>5
<1>17. o >= 1 /\ p >= 1 /\ p = o + x
    BY <1>5, <1>7, <1>16
<1>18. Chunk(t, o) = [fit |-> TRUE, offset |-> p, text |-> k]
  <2>1. Holds(t, o, 2 + Len(k), Chunked(k))
      BY <1>6, <1>9, <1>14, <1>16
  <2>2. k \in Short /\ o >= 1
      BY <1>4, <1>17
  <2>3. Chunk(t, o) = [fit |-> TRUE, offset |-> o + (2 + Len(k)), text |-> k]
      BY <2>1, <2>2, ChunkReads
  <2>4. o + (2 + Len(k)) = p
      BY <1>6, <1>17
  <2> QED
      BY <2>3, <2>4
<1>19. Chunk(t, p) = [fit |-> TRUE, offset |-> p + y, text |-> v]
  <2>1. Holds(t, p, 2 + Len(v), Chunked(v))
      BY <1>6, <1>9, <1>15, <1>16
  <2>2. v \in Short /\ p >= 1
      BY <1>4, <1>17
  <2>3. Chunk(t, p) = [fit |-> TRUE, offset |-> p + (2 + Len(v)), text |-> v]
      BY <2>1, <2>2, ChunkReads
  <2> QED
      BY <1>6, <2>3
<1>20. p + y = 6 + Len(s)
    BY <1>8, <1>16
<1>21. Round(t, [fit |-> TRUE, offset |-> o, map |-> m]) =
          [fit |-> TRUE, offset |-> p + y, map |-> SetHeader(m, k, v)]
  <2>1. PICK r : r = [fit |-> TRUE, offset |-> o, map |-> m]
      OBVIOUS
  <2>2. r.fit = TRUE /\ r.offset = o /\ r.map = m
      BY <2>1
  <2>3. PICK key, val : key = Chunk(t, o) /\ val = Chunk(t, p)
      OBVIOUS
  <2>4. /\ key.fit = TRUE /\ key.offset = p /\ key.text = k
        /\ val.fit = TRUE /\ val.offset = p + y /\ val.text = v
      BY <1>18, <1>19, <2>3
  <2>5. Round(t, r) = [fit |-> r.fit /\ key.fit /\ val.fit, offset |-> val.offset,
                       map |-> SetHeader(r.map, key.text, val.text)]
      BY <2>2, <2>3, <2>4 DEF Round
  <2> QED
      BY <2>1, <2>2, <2>4, <2>5
<1> QED
    BY <1>1, <1>16, <1>20, <1>21

\* The headers that have been read after i rounds.
Known(headers, order, i) == [k \in {order[j] : j \in 1..i} |-> headers[k]]

\* One more round, one more header.
LEMMA KnownMore ==
    ASSUME NEW headers, NEW order, NEW i \in Nat
    PROVE  SetHeader(Known(headers, order, i), order[i + 1], headers[order[i + 1]])
              = Known(headers, order, i + 1)
<1>1. PICK d, e : d = {order[j] : j \in 1..i} /\ e = {order[j] : j \in 1..(i + 1)}
    OBVIOUS
<1>2. e = {order[i + 1]} \cup d
  <2>1. \A j \in 1..(i + 1) : j = i + 1 \/ j \in 1..i
      OBVIOUS
  <2>2. i + 1 \in 1..(i + 1) /\ \A j \in 1..i : j \in 1..(i + 1)
      OBVIOUS
  <2> QED
      BY <1>1, <2>1, <2>2
<1>3. PICK a, k : a = [x \in d |-> headers[x]] /\ k = order[i + 1]
    OBVIOUS
<1>4. SetHeader(a, k, headers[k]) = [x \in {k} \cup d |-> IF x = k THEN headers[k] ELSE a[x]]
    BY <1>3 DEF SetHeader
<1>5. [x \in {k} \cup d |-> IF x = k THEN headers[k] ELSE a[x]]
         = [x \in {k} \cup d |-> headers[x]]
    BY <1>3
<1> QED
    BY <1>1, <1>2, <1>3, <1>4, <1>5 DEF Known

\* All short headers are read.
LEMMA HeadersRead ==
    ASSUME NEW headers, NEW order, NEW L, Texts(headers, order), Lines(L, headers, order),
           NEW t, IsPacket(t), NEW l, l = L[Len(order)], Holds(t, 6, Len(l), l),
           LenHeaders(t) = Len(order),
           \A i \in 1..Len(order) : order[i] \in Short /\ headers[order[i]] \in Short
    PROVE  /\ Headers(t).fit = TRUE
           /\ Headers(t).map = Known(headers, order, Len(order))
<1>1. PICK n \in Nat : n = Len(order)
    BY DEF Texts
<1>2. PICK R \in [0..n -> Progress] :
         /\ R[0] = Start
         /\ \A i \in 1..n : R[i] = Round(t, R[i - 1])
         /\ Headers(t) = R[n]
    BY <1>1, ReadIs
<1> DEFINE Read(i) == [fit |-> TRUE, offset |-> 6 + Len(L[i]),
                       map |-> Known(headers, order, i)]
           S == {i \in Nat : i \in 0..n => R[i] = Read(i)}
<1>3. 0 \in S
  <2>1. 6 + Len(L[0]) = HeaderAt
      BY DEF Lines, HeaderAt, SizeBytes, CountBytes
  <2>2. Known(headers, order, 0) = <<>>
      BY DEF Known
  <2>3. R[0] = Read(0)
      BY <1>2, <2>1, <2>2 DEF Start
  <2> QED
      BY <2>3
<1>4. ASSUME NEW m \in Nat, m \in S
      PROVE  m + 1 \in S
  <2> SUFFICES ASSUME m + 1 \in 0..n
               PROVE  R[m + 1] = Read(m + 1)
      OBVIOUS
  <2>1. m \in 0..n /\ m + 1 \in 1..n /\ (m + 1) - 1 = m
      OBVIOUS
  <2>2. R[m] = Read(m)
      BY <1>4, <2>1
  <2>3. R[m + 1] = Round(t, R[m])
      BY <1>2, <2>1
  <2>4. PICK i \in 1..Len(order) : i = m + 1
      BY <1>1, <2>1
  <2>5. PICK k : k = Known(headers, order, m)
      OBVIOUS
  <2>6. Round(t, [fit |-> TRUE, offset |-> 6 + Len(L[i - 1]), map |-> k]) =
              [fit |-> TRUE, offset |-> 6 + Len(L[i]),
               map |-> SetHeader(k, order[i], headers[order[i]])]
      BY RoundReads
  <2>7. SetHeader(k, order[i], headers[order[i]]) = Known(headers, order, i)
      BY <2>4, <2>5, KnownMore
  <2>8. i - 1 = m
      BY <2>1, <2>4
  <2>9. R[m] = [fit |-> TRUE, offset |-> 6 + Len(L[i - 1]), map |-> k]
      BY <2>2, <2>5, <2>8
  <2> QED
      BY <2>3, <2>4, <2>6, <2>7, <2>9
<1>5. n \in S
  <2> HIDE DEF S
  <2> QED
      BY <1>3, <1>4, InductiveSet
<1>6. R[n] = Read(n)
    BY <1>5
<1> QED
    BY <1>1, <1>2, <1>6

\* The orders in which a map of headers can be visited.
LEMMA OrdersAre ==
    ASSUME NEW s, IsFiniteSet(s), s \subseteq Seq(Bytes), NEW headers \in [s -> Seq(Bytes)],
           NEW order \in Orders(headers)
    PROVE  /\ Len(order) = Cardinality(s)
           /\ order \in [1..Cardinality(s) -> s]
           /\ Texts(headers, order)
           /\ \A i \in 1..Len(order) : order[i] \in s
           /\ Known(headers, order, Len(order)) = headers
<1>1. PICK n \in Nat : n = Cardinality(s)
    BY FS_CardinalityType
<1>2. order \in [1..n -> s] /\ \A i, j \in 1..n : order[i] = order[j] => i = j
    BY <1>1 DEF Orders
<1>3. Len(order) = n
    BY <1>2
<1>4. Texts(headers, order)
  <2>1. \A i \in 1..n : order[i] \in s /\ order[i] \in Seq(Bytes)
      BY <1>2
  <2>2. order \in [1..n -> Seq(Bytes)]
      BY <1>2, <2>1
  <2> QED
      BY <1>3, <2>1, <2>2 DEF Texts
<1>5. ASSUME NEW x \in s
      PROVE  \E i \in 1..n : order[i] = x
  <2> SUFFICES ASSUME \A i \in 1..n : order[i] # x
               PROVE  FALSE
      OBVIOUS
  <2>1. PICK r : r = s \ {x}
      OBVIOUS
  <2>2. IsFiniteSet(r) /\ Cardinality(r) = n - 1
      BY <1>1, <2>1, FS_RemoveElement
  <2>3. order \in [1..n -> r]
      BY <1>2, <2>1
  <2>4. IsFiniteSet(1..n) /\ Cardinality(1..n) = n
    <3>1. 1 \in Int /\ n \in Int
        OBVIOUS
    <3>2. /\ IsFiniteSet(1..n)
          /\ Cardinality(1..n) = IF 1 > n THEN 0 ELSE n - 1 + 1
        BY <3>1, FS_Interval
    <3> QED
        BY <3>2
  <2>5. PICK d : d = 1..n
      OBVIOUS
  <2>6. \E i, j \in d : i # j /\ order[i] = order[j]
    <3>1. IsFiniteSet(d) /\ Cardinality(r) < Cardinality(d)
        BY <2>2, <2>4, <2>5
    <3>2. order \in [d -> r]
        BY <2>3, <2>5
    <3> QED
        BY <2>2, <3>1, <3>2, FS_PigeonHole
  <2> QED
      BY <1>2, <2>5, <2>6
<1>6. {order[j] : j \in 1..n} = s
    BY <1>2, <1>5
<1>7. Known(headers, order, n) = headers
    BY <1>6 DEF Known
<1> QED
    BY <1>1, <1>2, <1>3, <1>4, <1>7

-----------------------------------------------------------------------------
(***************************************************************************)
(* Decode and Encode.                                                      *)
(***************************************************************************)

\* t is a valid packet that holds the tile and the headers.
Written(t, tile, headers, order) ==
    /\ IsPacket(t) /\ Validate(t)
    /\ t[1] = [sum |-> Tail(t)] /\ Tail(t) \in Seq(Bytes)
    /\ TileDataSize(t) = Number(Put(Len(tile), 4))
    /\ LenHeaders(t) = Number(Put(Len(order), 1))
    /\ \E L, l : /\ Lines(L, headers, order) /\ l = L[Len(order)] /\ l \in Seq(Bytes)
                 /\ Len(t) = (6 + Len(l)) + Len(tile)
                 /\ Holds(t, 6, Len(l), l)
                 /\ Holds(t, 6 + Len(l), Len(tile), tile)

\* Encode writes such packets.
LEMMA EncodeIs ==
    ASSUME NEW s, IsFiniteSet(s), s \subseteq Seq(Bytes), NEW headers \in [s -> Seq(Bytes)],
           NEW order \in Orders(headers), NEW tile \in Seq(Bytes)
    PROVE  Written(Encode(tile, headers, order), tile, headers, order)
<1>0. PICK t : t = Encode(tile, headers, order)
    OBVIOUS
<1>1. /\ Len(order) = Cardinality(s) /\ order \in [1..Cardinality(s) -> s]
      /\ Texts(headers, order) /\ \A i \in 1..Len(order) : order[i] \in s
    BY OrdersAre
<1>2. PICK n \in Nat : n = Cardinality(s)
    BY FS_CardinalityType
<1>3. PICK L : /\ Lines(L, headers, order)
               /\ \A text : Encode(text, headers, order) =
                     Sealed(((Put(Len(text), SizeBytes) \o Put(n, CountBytes))
                               \o L[n]) \o text)
  <2>1. order \in [1..n -> Seq(Bytes)] /\ \A i \in 1..n : headers[order[i]] \in Seq(Bytes)
      BY <1>1, <1>2 DEF Texts
  <2>2. order \in [1..n -> Seq(Bytes)]
      BY <2>1
  <2> QED
      BY <2>1, <2>2, LinesAre
<1>4. PICK l : l = L[n]
    OBVIOUS
<1>5. l \in Seq(Bytes)
    BY <1>1, <1>2, <1>3, <1>4 DEF Lines
<1>6. Laid(t, tile, n, l)
    BY <1>0, <1>3, <1>4 DEF Laid
<1>7. /\ IsPacket(t) /\ Validate(t)
      /\ t[1] = [sum |-> Tail(t)] /\ Tail(t) \in Seq(Bytes)
      /\ Len(t) = (6 + Len(l)) + Len(tile)
      /\ SubSeq(t, 2, 5) = Put(Len(tile), 4)
      /\ SubSeq(t, 6, 6) = Put(n, 1)
      /\ Holds(t, 6, Len(l), l)
      /\ Holds(t, 6 + Len(l), Len(tile), tile)
    BY <1>5, <1>6, PacketIs
<1>8. TileDataSize(t) = Number(Put(Len(tile), 4))
  <2>1. 1 + SizeBytes = 5
      BY DEF SizeBytes
  <2> QED
      BY <1>7, <2>1, Zenon DEF TileDataSize
<1>9. LenHeaders(t) = Number(Put(n, 1))
  <2>1. 2 + SizeBytes = 6 /\ HeaderAt = 6
      BY DEF HeaderAt, SizeBytes, CountBytes
  <2> QED
      BY <1>7, <2>1, Zenon DEF LenHeaders
<1>10. l = L[Len(order)] /\ Len(order) = n
    BY <1>1, <1>2, <1>4
<1>11. Written(t, tile, headers, order)
    BY <1>3, <1>5, <1>7, <1>8, <1>9, <1>10, Zenon DEF Written
<1> QED
    BY <1>0, <1>11

\* What fits its fields is decoded.
LEMMA DecodeFits ==
    ASSUME NEW s, IsFiniteSet(s), s \subseteq Seq(Bytes), NEW headers \in [s -> Seq(Bytes)],
           NEW order \in Orders(headers), NEW tile \in Seq(Bytes),
           Encodable(tile, headers)
    PROVE  Decoded(Encode(tile, headers, order)) =
              [fit |-> TRUE, tile |-> tile, headers |-> headers]
<1>1. PICK t : t = Encode(tile, headers, order)
    OBVIOUS
<1>0. Written(t, tile, headers, order)
    BY <1>1, EncodeIs
<1>2. /\ IsPacket(t) /\ TileDataSize(t) = Number(Put(Len(tile), 4))
      /\ LenHeaders(t) = Number(Put(Cardinality(s), 1))
  <2>1. Len(order) = Cardinality(s)
      BY OrdersAre
  <2> QED
      BY <1>0, <2>1 DEF Written
<1>3. PICK L, l : /\ Lines(L, headers, order) /\ l = L[Len(order)] /\ l \in Seq(Bytes)
                  /\ Len(t) = (6 + Len(l)) + Len(tile)
                  /\ Holds(t, 6, Len(l), l)
                  /\ Holds(t, 6 + Len(l), Len(tile), tile)
    BY <1>0 DEF Written
<1>4. /\ Len(order) = Cardinality(s) /\ Texts(headers, order)
      /\ \A i \in 1..Len(order) : order[i] \in s
      /\ Known(headers, order, Len(order)) = headers
    BY OrdersAre
<1>5. PICK n \in Nat : n = Cardinality(s)
    BY FS_CardinalityType
<1>6. /\ Len(tile) < Weight[4] /\ n < Weight[1]
      /\ \A k \in s : Len(k) < Weight[2] /\ Len(headers[k]) < Weight[2]
  <2>1. DOMAIN headers = s
      OBVIOUS
  <2> QED
      BY <1>5, <2>1 DEF Encodable, SizeBytes, CountBytes, LengthBytes
<1>7. Len(tile) \in Nat /\ Len(l) \in Nat
    BY <1>3
<1>8. 1 \in Widths /\ 4 \in Widths
    BY DEF Widths
<1>9. TileDataSize(t) = Len(tile)
  <2>1. Len(tile) \in Nat
      BY <1>7
  <2>2. Number(Put(Len(tile), 4)) = Len(tile)
      BY <1>6, <1>8, <2>1, NumberPutFits
  <2> QED
      BY <1>2, <2>2
<1>10. LenHeaders(t) = Len(order)
  <2>1. Number(Put(n, 1)) = n
      BY <1>6, <1>8, NumberPutFits
  <2> QED
      BY <1>2, <1>4, <1>5, <2>1
<1>11. \A i \in 1..Len(order) : order[i] \in Short /\ headers[order[i]] \in Short
    BY <1>4, <1>6 DEF Short, LengthBytes
<1>12. Headers(t).fit = TRUE /\ Headers(t).map = headers
  <2>1. Headers(t).fit = TRUE /\ Headers(t).map = Known(headers, order, Len(order))
      BY <1>2, <1>3, <1>4, <1>10, <1>11, HeadersRead
  <2> QED
      BY <1>4, <2>1
<1>13. TileData(t) = tile
  <2>1. PICK from \in Nat : from = 6 + Len(l)
      BY <1>7
  <2>2. from + Len(tile) = Len(t) /\ Len(t) - Len(tile) = from
      BY <1>3, <1>7, <2>1
  <2>3. /\ from + Len(tile) <= Len(t)
        /\ \A j \in 1..Len(tile) : t[from + j] = tile[j]
      BY <1>3, <2>1 DEF Holds
  <2>4. PICK U : t \in Seq(U)
      BY <1>2 DEF IsPacket
  <2>5. SubSeq(t, from + 1, from + Len(tile)) = tile
      BY <2>3, <2>4, Slice
  <2> QED
      BY <1>9, <2>2, <2>5 DEF TileData
<1>14. ~(Len(t) < HeaderAt) /\ ~(TileDataSize(t) > Len(t)) /\ Headers(t).fit
    BY <1>3, <1>7, <1>9, <1>12 DEF HeaderAt, SizeBytes, CountBytes
<1> QED
    BY <1>1, <1>12, <1>13, <1>14 DEF Decoded

\* And nothing else.
LEMMA DecodeLoses ==
    ASSUME NEW s, IsFiniteSet(s), s \subseteq Seq(Bytes), NEW headers \in [s -> Seq(Bytes)],
           NEW order \in Orders(headers), NEW tile \in Seq(Bytes),
           Decoded(Encode(tile, headers, order)) =
              [fit |-> TRUE, tile |-> tile, headers |-> headers]
    PROVE  Encodable(tile, headers)
<1>1. PICK t : t = Encode(tile, headers, order)
    OBVIOUS
<1>0. Written(t, tile, headers, order)
    BY <1>1, EncodeIs
<1>2. /\ IsPacket(t) /\ TileDataSize(t) = Number(Put(Len(tile), 4))
      /\ LenHeaders(t) = Number(Put(Cardinality(s), 1))
  <2>1. Len(order) = Cardinality(s)
      BY OrdersAre
  <2> QED
      BY <1>0, <2>1 DEF Written
<1>3. PICK n \in Nat : n = Cardinality(s)
    BY FS_CardinalityType
<1>4. PICK z, h : z = TileDataSize(t) /\ h = LenHeaders(t)
    OBVIOUS
<1>5. z \in Nat /\ z < Weight[4]
  <2>1. Len(tile) \in Nat /\ 4 \in Widths
      BY DEF Widths
  <2> QED
      BY <1>2, <1>4, <2>1, NumberPutFits
<1>6. h \in Nat /\ h < Weight[1]
  <2>1. 1 \in Widths
      BY DEF Widths
  <2> QED
      BY <1>2, <1>3, <1>4, <2>1, NumberPutFits
<1>7. ~(Len(t) < HeaderAt \/ TileDataSize(t) > Len(t) \/ ~Headers(t).fit)
  <2> SUFFICES ASSUME Len(t) < HeaderAt \/ TileDataSize(t) > Len(t) \/ ~Headers(t).fit
               PROVE  FALSE
      OBVIOUS
  <2>1. Decoded(t) = [fit |-> FALSE, tile |-> <<>>, headers |-> <<>>]
      BY DEF Decoded
  <2>2. Decoded(t).fit = FALSE
      BY <2>1
  <2>3. Decoded(t).fit = TRUE
      BY <1>1
  <2> QED
      BY <2>2, <2>3
<1>8. Decoded(t) = [fit |-> TRUE, tile |-> TileData(t), headers |-> Headers(t).map]
    BY <1>7 DEF Decoded
<1>9. TileData(t) = tile /\ Headers(t).map = headers
  <2>1. Decoded(t).tile = TileData(t) /\ Decoded(t).headers = Headers(t).map
      BY <1>8
  <2>2. Decoded(t).tile = tile /\ Decoded(t).headers = headers
      BY <1>1
  <2> QED
      BY <2>1, <2>2
<1>10. Len(tile) < Weight[4]
  <2>1. PICK U : t \in Seq(U)
      BY <1>2 DEF IsPacket
  <2>2. PICK m \in Nat : m = Len(t)
      BY <2>1
  <2>3. z <= m
      BY <1>4, <1>5, <1>7, <2>2
  <2>4. TileData(t) = SubSeq(t, m - z + 1, m)
      BY <1>4, <2>2 DEF TileData
  <2>5. Len(SubSeq(t, m - z + 1, m)) = z
      BY <1>5, <2>1, <2>2, <2>3
  <2> QED
      BY <1>5, <1>9, <2>4, <2>5
<1>11. DOMAIN headers = s
    OBVIOUS
<1>12. headers \in Maps /\ Cardinality(s) <= h
  <2>1. h \in Nat
      BY <1>6
  <2>2. Headers(t).map \in Maps /\ Cardinality(DOMAIN Headers(t).map) <= h
      BY <1>2, <1>4, <2>1, HeadersAre
  <2> QED
      BY <1>9, <1>11, <2>2
<1>13. Cardinality(s) < Weight[1]
  <2>1. Weight[1] \in Nat
      BY Weights
  <2> QED
      BY <1>3, <1>6, <1>12, <2>1
<1>14. \A k \in s : k \in Short /\ headers[k] \in Short
    BY <1>11, <1>12 DEF Maps
<1> QED
    BY <1>10, <1>11, <1>13, <1>14 DEF Encodable, Short, SizeBytes, CountBytes, LengthBytes

-----------------------------------------------------------------------------
(***************************************************************************)
(* The codec never fails silently.                                         *)
(***************************************************************************)

\* What the codec is judged by.
Samples == {None} \cup [tile : Bodies, headers : UNION {[s -> Values] : s \in SUBSET Names}]

\* Names, values and tiles are texts, and there are finitely many names.
LEMMA NamesAre ==
    /\ IsFiniteSet(Names) /\ Names \subseteq Seq(Bytes)
    /\ Values \subseteq Seq(Bytes) /\ Bodies \subseteq Seq(Bytes)
    /\ ContentType \in Names /\ Pulled \subseteq Names
    /\ DefaultType \in Values /\ <<>> \in Values /\ <<>> \in Bodies
BY NamesAssumption

\* It stays the same.
LEMMA SampleStays == sample \in Samples /\ [Next]_vars => (sample \in Samples)'
<1> SUFFICES ASSUME sample \in Samples, [Next]_vars
             PROVE  sample' = sample
    BY DEF Samples
<1>1. CASE UNCHANGED vars
    BY <1>1 DEF vars
<1>2. ASSUME Serve
      PROVE  sample' = sample
    BY <1>2 DEF Serve, Hit, Miss, ProcessResponse, FetchUpstream, EncodeSet, Damage
<1> QED
    BY <1>1, <1>2 DEF Next

\* A tile comes through the codec just if it fits.
LEMMA SampleRoundTrips == sample \in Samples => RoundTrip
<1> SUFFICES ASSUME sample \in Samples, sample # None, NEW order \in Orders(sample.headers)
             PROVE  LET packet == Encode(sample.tile, sample.headers, order)
                    IN  /\ Validate(packet)
                        /\ (Decoded(packet) = [fit |-> TRUE, tile |-> sample.tile,
                                               headers |-> sample.headers])
                              = Encodable(sample.tile, sample.headers)
    BY DEF RoundTrip
<1>1. PICK tile, headers : tile = sample.tile /\ headers = sample.headers
    OBVIOUS
<1>2. tile \in Bodies /\ headers \in UNION {[s -> Values] : s \in SUBSET Names}
    BY <1>1 DEF Samples
<1>3. PICK s \in SUBSET Names : headers \in [s -> Values]
    BY <1>2
<1>4. IsFiniteSet(s)
    BY NamesAre, FS_Subset
<1>5. s \subseteq Seq(Bytes) /\ headers \in [s -> Seq(Bytes)] /\ tile \in Seq(Bytes)
    BY <1>2, <1>3, NamesAre
<1>6. order \in Orders(headers)
    BY <1>1
<1>7. Validate(Encode(tile, headers, order))
    BY <1>4, <1>5, <1>6, EncodeIs DEF Written
<1>8. Encodable(tile, headers) =>
         Decoded(Encode(tile, headers, order)) = [fit |-> TRUE, tile |-> tile, headers |-> headers]
    BY <1>4, <1>5, <1>6, DecodeFits
<1>9. Decoded(Encode(tile, headers, order)) = [fit |-> TRUE, tile |-> tile, headers |-> headers]
         => Encodable(tile, headers)
    BY <1>4, <1>5, <1>6, DecodeLoses
<1>10. Encodable(tile, headers) \in BOOLEAN
    BY DEF Encodable
<1> QED
    BY <1>1, <1>7, <1>8, <1>9, <1>10

\* What is encoded is decoded just if every number fits its field (encode.go:24),
\* for any base, any tile, any headers and any order in which they are visited.
THEOREM CodecRoundTrips == Spec => []RoundTrip
<1>1. Init => sample \in Samples
    BY DEF Init, Samples
<1> QED
    BY <1>1, SampleStays, SampleRoundTrips, PTL DEF Spec

-----------------------------------------------------------------------------
(***************************************************************************)
(* What the clients receive.                                               *)
(***************************************************************************)

\* What the upstream sends fits the size field, and fasthttp's default header its
\* two; encode.go checks neither.
Fitting ==
    /\ \A a \in Answers : Len(a.body) < Weight[SizeBytes]
    /\ Len(ContentType) < Weight[LengthBytes]
    /\ Len(DefaultType) < Weight[LengthBytes]

\* The headers that are stored with a tile: whatever is pulled, the default at most.
LEMMA PulledAre ==
    \E s \in SUBSET {ContentType} :
        /\ IsFiniteSet(s) /\ s \subseteq Pulled /\ s \subseteq Seq(Bytes)
        /\ PullHeaders(NoHeaders) = [n \in s |-> DefaultType]
        /\ PullHeaders(NoHeaders) \in [s -> Seq(Bytes)]
<1> DEFINE s == {m \in Pulled : NoHeaders[m] # <<>>}
<1>1. s \subseteq {ContentType}
    BY NamesAre DEF NoHeaders
<1>2. \A m \in s : NoHeaders[m] = DefaultType
    BY <1>1, NamesAre DEF NoHeaders
<1>3. PullHeaders(NoHeaders) = [n \in s |-> DefaultType]
    BY <1>2 DEF PullHeaders
<1>4. IsFiniteSet(s)
  <2>1. s \in SUBSET Names
      BY NamesAre
  <2> HIDE DEF s
  <2> QED
      BY <2>1, NamesAre, FS_Subset
<1>5. s \subseteq Pulled /\ s \subseteq Seq(Bytes)
    BY NamesAre
<1>6. PullHeaders(NoHeaders) \in [s -> Seq(Bytes)]
    BY <1>3, NamesAre
<1> HIDE DEF s
<1> QED
    BY <1>1, <1>3, <1>4, <1>5, <1>6

\* What is stored can be decoded.
LEMMA StoredFits ==
    ASSUME Fitting, NEW a \in Answers
    PROVE  Encodable(a.body, PullHeaders(NoHeaders))
<1>1. PICK s \in SUBSET {ContentType} :
         IsFiniteSet(s) /\ PullHeaders(NoHeaders) = [n \in s |-> DefaultType]
    BY PulledAre
<1>2. PICK h : h = PullHeaders(NoHeaders)
    OBVIOUS
<1>3. DOMAIN h = s /\ \A k \in s : k = ContentType /\ h[k] = DefaultType
    BY <1>1, <1>2
<1>4. Cardinality(s) < Weight[CountBytes]
  <2>1. IsFiniteSet({ContentType}) /\ Cardinality({ContentType}) = 1
      BY FS_Singleton
  <2>2. Cardinality(s) <= Cardinality({ContentType}) /\ Cardinality(s) \in Nat
      BY <1>1, <2>1, FS_Subset, FS_CardinalityType
  <2>3. Weight[CountBytes] = Base /\ Base \in Nat /\ Base >= 2
      BY Weights, Bases DEF CountBytes
  <2> QED
      BY <2>1, <2>2, <2>3
<1> QED
    BY <1>2, <1>3, <1>4 DEF Fitting, Encodable

\* Nothing changes the headers of a reply.
LEMMA HeadersStay ==
    /\ NoHeaders \in [Names -> Values]
    /\ Without(NoHeaders, Deleted) = NoHeaders
    /\ Without(With(NoHeaders, PullHeaders(NoHeaders)), Deleted) = NoHeaders
<1>1. NoHeaders \in [Names -> Values]
    BY NamesAre DEF NoHeaders
<1>2. Without(NoHeaders, Deleted) = NoHeaders
    BY <1>1 DEF Without
<1>3. With(NoHeaders, PullHeaders(NoHeaders)) = NoHeaders
  <2>1. \A n \in DOMAIN PullHeaders(NoHeaders) : PullHeaders(NoHeaders)[n] = NoHeaders[n]
      BY DEF PullHeaders
  <2>2. \A n \in Names : (IF n \in DOMAIN PullHeaders(NoHeaders)
                            THEN PullHeaders(NoHeaders)[n] ELSE NoHeaders[n]) = NoHeaders[n]
      BY <2>1
  <2> QED
      BY <1>1, <2>2 DEF With
<1> QED
    BY <1>1, <1>2, <1>3

\* A result is one of the upstream's answers.
LEMMA ResultsAre ==
    /\ None \notin Results
    /\ \A r \in Results :
          /\ r.code \in Codes /\ r.body \in Bodies /\ r.resp = NoHeaders
          /\ \E a \in Answers : r.body = a.body
<1>1. \A a \in Answers : a.code \in Codes /\ a.body \in Bodies
    BY AnswersAssumption
<1>2. \A r \in Results : \E a \in Answers : r = [code |-> a.code, body |-> a.body, resp |-> NoHeaders]
    BY DEF Results
<1>3. \A r \in Results : r \in [code : Codes, body : Bodies, resp : [Names -> Values]]
    BY <1>1, <1>2, HeadersStay
<1>4. None \notin Results
    BY <1>3, NoneAssumption
<1> QED
    BY <1>1, <1>2, <1>4

\* The replies that there are.
Replies == [status : Codes, headers : {NoHeaders}, body : Bodies]

\* What is sent is one of them.
LEMMA SentIs ==
    /\ None \notin Replies
    /\ \A r \in Results : Sent(r) \in Replies
    /\ \A tile \in Bodies : [status |-> 200, headers |-> NoHeaders, body |-> tile] \in Replies
<1>1. \A r \in Replies : r \in [status : Codes, headers : [Names -> Values], body : Bodies]
    BY HeadersStay DEF Replies
<1>2. None \notin Replies
    BY <1>1, NoneAssumption
<1>3. 200 \in Codes /\ 500 \in Codes
    BY DEF Codes
<1>4. ASSUME NEW r \in Results
      PROVE  Sent(r) \in Replies
    BY <1>3, ResultsAre, NamesAre DEF Sent, Replies
<1> QED
    BY <1>2, <1>3, <1>4 DEF Replies

\* Who is done stays done, with what was received.
Kept == \A d \in Clients : pc[d] = "done" => pc'[d] = "done" /\ result'[d] = result[d]

\* A tile that was received once remains one that was.
LEMMA PassedStays ==
    ASSUME Kept, NEW tile, Passed(tile)
    PROVE  Passed(tile)'
BY DEF Kept, Passed

\* The invariant survives a step that changes who has been served.
LEMMA RepliesStay ==
    ASSUME RepliesKnown, Kept,
           \A c \in Clients : pc'[c] = "done" /\ pc[c] = "done" => reply'[c] = reply[c],
           \A c \in Clients : pc'[c] = "done" /\ pc[c] # "done" =>
              \/ result'[c] # None /\ reply'[c] = Sent(result'[c])
              \/ /\ result'[c] = None
                 /\ \E tile \in Bodies :
                       /\ Passed(tile)
                       /\ reply'[c] = [status |-> 200, headers |-> NoHeaders, body |-> tile]
    PROVE  RepliesKnown'
<1> SUFFICES ASSUME NEW c \in Clients, pc'[c] = "done"
             PROVE  \/ result'[c] # None /\ reply'[c] = Sent(result'[c])
                    \/ /\ result'[c] = None
                       /\ \E tile \in Bodies :
                             /\ Passed(tile)'
                             /\ reply'[c] = [status |-> 200, headers |-> NoHeaders, body |-> tile]
    BY DEF RepliesKnown, Sent, Accepts
<1>1. \/ result'[c] # None /\ reply'[c] = Sent(result'[c])
      \/ /\ result'[c] = None
         /\ \E tile \in Bodies :
               /\ Passed(tile)
               /\ reply'[c] = [status |-> 200, headers |-> NoHeaders, body |-> tile]
  <2>1. CASE pc[c] # "done"
      BY <2>1
  <2>2. CASE pc[c] = "done"
    <3>1. result'[c] = result[c] /\ reply'[c] = reply[c]
        BY <2>2 DEF Kept
    <3> QED
        BY <2>2, <3>1 DEF RepliesKnown
  <2> QED
      BY <2>1, <2>2
<1> QED
    BY <1>1, PassedStays

\* And one that changes what is stored.
LEMMA StoredStays ==
    ASSUME StoredKnown, Kept,
           \A w \in pending' : \/ w \in pending
                               \/ \E tile \in Bodies :
                                     /\ Passed(tile)'
                                     /\ w = [tile |-> tile, headers |-> PullHeaders(NoHeaders)],
           \/ entry' = entry
           \/ entry' = None
           \/ ~Validate(entry')
           \/ \E tile \in Bodies : \E order \in Orders(PullHeaders(NoHeaders)) :
                 Passed(tile) /\ entry' = Encode(tile, PullHeaders(NoHeaders), order)
    PROVE  StoredKnown'
<1>1. ASSUME NEW w \in pending'
      PROVE  \E tile \in Bodies :
                Passed(tile)' /\ w = [tile |-> tile, headers |-> PullHeaders(NoHeaders)]
    BY PassedStays DEF StoredKnown
<1>2. ASSUME entry' # None, Validate(entry')
      PROVE  \E tile \in Bodies : \E order \in Orders(PullHeaders(NoHeaders)) :
                Passed(tile)' /\ entry' = Encode(tile, PullHeaders(NoHeaders), order)
    BY <1>2, PassedStays DEF StoredKnown
<1> QED
    BY <1>1, <1>2 DEF StoredKnown

\* What DeliveryInv says of the variables.
LEMMA StagesAre ==
    ASSUME DeliveryInv
    PROVE  /\ pc \in [Clients -> {"arriving", "flight", "process", "done"}]
           /\ result \in [Clients -> Results \cup {None}]
           /\ reply \in [Clients -> Replies \cup {None}]
           /\ \A c \in Clients : (reply[c] # None) = (pc[c] = "done")
           /\ \A c \in Clients : pc[c] \in {"arriving", "flight"} => result[c] = None
           /\ \A c \in Clients : pc[c] = "process" => result[c] # None
BY DEF DeliveryInv, Stages, Replies

\* A valid entry is what was received, and readers get it back.
LEMMA EntryIs ==
    ASSUME DeliveryInv, Fitting, entry # None, Validate(entry)
    PROVE  \E tile \in Bodies :
              /\ Passed(tile)
              /\ Decoded(entry) =
                    [fit |-> TRUE, tile |-> tile, headers |-> PullHeaders(NoHeaders)]
<1>1. PICK tile \in Bodies : \E order \in Orders(PullHeaders(NoHeaders)) :
         Passed(tile) /\ entry = Encode(tile, PullHeaders(NoHeaders), order)
    BY DEF DeliveryInv, StoredKnown
<1>2. PICK order \in Orders(PullHeaders(NoHeaders)) :
         Passed(tile) /\ entry = Encode(tile, PullHeaders(NoHeaders), order)
    BY <1>1
<1>3. \E a \in Answers : tile = a.body
  <2>1. PICK c \in Clients : result[c] # None /\ result[c].body = tile
      BY <1>2 DEF Passed
  <2>2. result[c] \in Results
      BY <2>1, StagesAre
  <2> QED
      BY <2>1, <2>2, ResultsAre
<1>4. Encodable(tile, PullHeaders(NoHeaders))
    BY <1>3, StoredFits
<1>5. PICK s \in SUBSET {ContentType} :
         /\ IsFiniteSet(s) /\ s \subseteq Seq(Bytes)
         /\ PullHeaders(NoHeaders) \in [s -> Seq(Bytes)]
    BY PulledAre
<1>6. PICK h : h = PullHeaders(NoHeaders)
    OBVIOUS
<1>7. h \in [s -> Seq(Bytes)] /\ order \in Orders(h) /\ tile \in Seq(Bytes) /\ Encodable(tile, h)
    BY <1>4, <1>5, <1>6, NamesAre
<1>8. Decoded(Encode(tile, h, order)) = [fit |-> TRUE, tile |-> tile, headers |-> h]
    BY <1>5, <1>7, DecodeFits
<1> QED
    BY <1>2, <1>6, <1>8

\* At the beginning nobody has received anything.
LEMMA InitDelivers == Init => DeliveryInv
<1> SUFFICES ASSUME Init
             PROVE  DeliveryInv
    OBVIOUS
<1>1. Stages
    BY DEF Init, Stages
<1>2. RepliesKnown
    BY DEF Init, RepliesKnown
<1>3. StoredKnown
    BY DEF Init, StoredKnown
<1> QED
    BY <1>1, <1>2, <1>3 DEF DeliveryInv

\* A hit is sent what another client received.
LEMMA HitDelivers ==
    ASSUME DeliveryInv, Fitting, NEW c \in Clients, Hit(c)
    PROVE  DeliveryInv'
<1>1. PICK tile \in Bodies :
         /\ Passed(tile)
         /\ Decoded(entry) = [fit |-> TRUE, tile |-> tile, headers |-> PullHeaders(NoHeaders)]
    BY EntryIs DEF Hit
<1>2. Respond(c, 200, NoHeaders, tile)
  <2>1. /\ Decoded(entry).fit /\ Decoded(entry).tile = tile
        /\ Decoded(entry).headers = PullHeaders(NoHeaders)
      BY <1>1
  <2>2. Respond(c, 200, Without(With(NoHeaders, Decoded(entry).headers), Deleted),
                Decoded(entry).tile)
      BY <2>1 DEF Hit
  <2> QED
      BY <2>1, <2>2, HeadersStay
<1>3. PICK r : r = [status |-> 200, headers |-> NoHeaders, body |-> tile]
    OBVIOUS
<1>4. r \in Replies /\ r # None
    BY <1>3, SentIs
<1>5. reply' = [reply EXCEPT ![c] = r]
    BY <1>2, <1>3 DEF Respond
<1>6. /\ pc[c] = "arriving" /\ pc' = [pc EXCEPT ![c] = "done"]
      /\ result' = result /\ pending' = pending /\ entry' = entry
    BY DEF Hit
<1>7. result[c] = None
    BY <1>6, StagesAre
<1>8. Kept
    BY <1>6, StagesAre DEF Kept
<1>9. Stages'
    BY <1>4, <1>5, <1>6, StagesAre DEF Stages, Replies
<1>10. RepliesKnown'
  <2>1. ASSUME NEW d \in Clients, pc'[d] = "done", pc[d] = "done"
        PROVE  reply'[d] = reply[d]
      BY <1>5, <1>6, <2>1, StagesAre
  <2>2. ASSUME NEW d \in Clients, pc'[d] = "done", pc[d] # "done"
        PROVE  d = c
      BY <1>6, <2>2, StagesAre
  <2>3. reply'[c] = r
      BY <1>5, StagesAre
  <2>4. RepliesKnown
      BY DEF DeliveryInv
  <2> QED
      BY <1>1, <1>3, <1>6, <1>7, <1>8, <2>1, <2>2, <2>3, <2>4, RepliesStay
<1>11. StoredKnown'
  <2>1. StoredKnown
      BY DEF DeliveryInv
  <2> QED
      BY <1>6, <1>8, <2>1, StoredStays
<1> QED
    BY <1>9, <1>10, <1>11 DEF DeliveryInv

\* A miss wipes an entry that is damaged, if there is one.
LEMMA MissDelivers ==
    ASSUME DeliveryInv, NEW c \in Clients, Miss(c)
    PROVE  DeliveryInv'
<1>1. /\ pc[c] = "arriving" /\ pc' = [pc EXCEPT ![c] = "flight"]
      /\ result' = result /\ reply' = reply /\ pending' = pending /\ entry' = None
    BY DEF Miss
<1>2. Kept
    BY <1>1, StagesAre DEF Kept
<1>3. Stages'
    BY <1>1, StagesAre DEF Stages, Replies
<1>4. RepliesKnown'
  <2>1. ASSUME NEW d \in Clients, pc'[d] = "done"
        PROVE  pc[d] = "done"
      BY <1>1, <2>1, StagesAre
  <2>2. RepliesKnown
      BY DEF DeliveryInv
  <2> QED
      BY <1>1, <1>2, <2>1, <2>2, RepliesStay
<1>5. StoredKnown'
  <2>1. StoredKnown
      BY DEF DeliveryInv
  <2> QED
      BY <1>1, <1>2, <2>1, StoredStays
<1> QED
    BY <1>3, <1>4, <1>5 DEF DeliveryInv

\* All who share a flight are given its result.
LEMMA FetchDelivers ==
    ASSUME DeliveryInv, NEW group \in SUBSET Clients, FetchUpstream(group)
    PROVE  DeliveryInv'
<1>1. PICK a \in Answers :
         result' = [c \in Clients |->
            IF c \in group THEN [code |-> a.code, body |-> a.body, resp |-> NoHeaders]
            ELSE result[c]]
    BY DEF FetchUpstream
<1>2. PICK r : r = [code |-> a.code, body |-> a.body, resp |-> NoHeaders]
    OBVIOUS
<1>3. r \in Results /\ r # None
  <2>1. r \in Results
      BY <1>2 DEF Results
  <2> QED
      BY <2>1, ResultsAre
<1>4. result' = [c \in Clients |-> IF c \in group THEN r ELSE result[c]]
    BY <1>1, <1>2
<1>5. /\ \A c \in group : pc[c] = "flight"
      /\ pc' = [c \in Clients |-> IF c \in group THEN "process" ELSE pc[c]]
      /\ reply' = reply /\ pending' = pending /\ entry' = entry
    BY DEF FetchUpstream
<1>6. Kept
    BY <1>4, <1>5 DEF Kept
<1>7. Stages'
  <2>1. pc' \in [Clients -> {"arriving", "flight", "process", "done"}]
      BY <1>5, StagesAre
  <2>2. result' \in [Clients -> Results \cup {None}]
      BY <1>3, <1>4, StagesAre
  <2>3. ASSUME NEW c \in Clients
        PROVE  /\ (reply'[c] # None) = (pc'[c] = "done")
               /\ pc'[c] \in {"arriving", "flight"} => result'[c] = None
               /\ pc'[c] = "process" => result'[c] # None
    <3>1. CASE c \in group
        BY <1>3, <1>4, <1>5, <3>1, StagesAre
    <3>2. CASE c \notin group
        BY <1>4, <1>5, <3>2, StagesAre
    <3> QED
        BY <3>1, <3>2
  <2> QED
      BY <1>5, <2>1, <2>2, <2>3, StagesAre DEF Stages, Replies
<1>8. RepliesKnown'
  <2>1. ASSUME NEW d \in Clients, pc'[d] = "done"
        PROVE  pc[d] = "done"
      BY <1>5, <2>1
  <2>2. RepliesKnown
      BY DEF DeliveryInv
  <2> QED
      BY <1>5, <1>6, <2>1, <2>2, RepliesStay
<1>9. StoredKnown'
  <2>1. StoredKnown
      BY DEF DeliveryInv
  <2> QED
      BY <1>5, <1>6, <2>1, StoredStays
<1> QED
    BY <1>7, <1>8, <1>9 DEF DeliveryInv

\* What is processed is sent and, if it is accepted, waits to be stored.
LEMMA ProcessDelivers ==
    ASSUME DeliveryInv, NEW c \in Clients, ProcessResponse(c)
    PROVE  DeliveryInv'
<1>1. /\ pc[c] = "process" /\ pc' = [pc EXCEPT ![c] = "done"]
      /\ result' = result /\ entry' = entry
    BY DEF ProcessResponse
<1>2. PICK r \in Results : r = result[c] /\ r # None
    BY <1>1, StagesAre
<1>3. Sent(r) \in Replies /\ Sent(r) # None
    BY SentIs
<1>4. reply' = [reply EXCEPT ![c] = Sent(r)]
  <2>1. CASE Accepts(r)
    <3>1. Respond(c, r.code, Without(NoHeaders, Deleted), r.body)
        BY <1>2, <2>1 DEF ProcessResponse
    <3>2. Sent(r) = [status |-> r.code, headers |-> NoHeaders, body |-> r.body]
        BY <2>1 DEF Sent
    <3> QED
        BY <3>1, <3>2, HeadersStay DEF Respond
  <2>2. CASE ~Accepts(r)
    <3>1. Respond(c, 500, NoHeaders, <<>>)
        BY <1>2, <2>2 DEF ProcessResponse
    <3>2. Sent(r) = [status |-> 500, headers |-> NoHeaders, body |-> <<>>]
        BY <2>2 DEF Sent
    <3> QED
        BY <3>1, <3>2 DEF Respond
  <2> QED
      BY <2>1, <2>2
<1>5. Kept
    BY <1>1, StagesAre DEF Kept
<1>6. Stages'
  <2>1. reply' \in [Clients -> Replies \cup {None}]
      BY <1>3, <1>4, StagesAre
  <2>2. ASSUME NEW d \in Clients
        PROVE  /\ (reply'[d] # None) = (pc'[d] = "done")
               /\ pc'[d] \in {"arriving", "flight"} => result'[d] = None
               /\ pc'[d] = "process" => result'[d] # None
    <3>1. CASE d = c
        BY <1>1, <1>3, <1>4, <3>1, StagesAre
    <3>2. CASE d # c
        BY <1>1, <1>4, <3>2, StagesAre
    <3> QED
        BY <3>1, <3>2
  <2>3. pc' \in [Clients -> {"arriving", "flight", "process", "done"}]
      BY <1>1, StagesAre
  <2> QED
      BY <1>1, <2>1, <2>2, <2>3, StagesAre DEF Stages, Replies
<1>7. RepliesKnown'
  <2>1. ASSUME NEW d \in Clients, pc'[d] = "done", pc[d] = "done"
        PROVE  reply'[d] = reply[d]
      BY <1>1, <1>4, <2>1, StagesAre
  <2>2. ASSUME NEW d \in Clients, pc'[d] = "done", pc[d] # "done"
        PROVE  d = c
      BY <1>1, <2>2, StagesAre
  <2>3. result'[c] # None /\ reply'[c] = Sent(result'[c])
      BY <1>1, <1>2, <1>4, StagesAre
  <2>4. RepliesKnown
      BY DEF DeliveryInv
  <2> QED
      BY <1>5, <2>1, <2>2, <2>3, <2>4, RepliesStay
<1>8. StoredKnown'
  <2>1. CASE Accepts(r)
    <3>1. Passed(r.body)'
        BY <1>1, <1>2, <2>1, StagesAre DEF Passed, Accepts
    <3>2. r.body \in Bodies /\ r.resp = NoHeaders
        BY ResultsAre
    <3>3. pending' = pending \cup {[tile |-> r.body, headers |-> PullHeaders(NoHeaders)]}
        BY <1>2, <2>1, <3>2 DEF ProcessResponse
    <3>4. \A w \in pending' : \/ w \in pending
                              \/ \E tile \in Bodies :
                                    /\ Passed(tile)'
                                    /\ w = [tile |-> tile, headers |-> PullHeaders(NoHeaders)]
        BY <3>1, <3>2, <3>3
    <3>5. StoredKnown
        BY DEF DeliveryInv
    <3> QED
        BY <1>1, <1>5, <3>4, <3>5, StoredStays
  <2>2. CASE ~Accepts(r)
    <3>1. pending' = pending
        BY <1>2, <2>2 DEF ProcessResponse
    <3>2. StoredKnown
        BY DEF DeliveryInv
    <3> QED
        BY <1>1, <1>5, <3>1, <3>2, StoredStays
  <2> QED
      BY <2>1, <2>2
<1> QED
    BY <1>6, <1>7, <1>8 DEF DeliveryInv

\* A step of the cache alone leaves the clients' part as it was.
LEMMA ClientsStay ==
    ASSUME DeliveryInv, UNCHANGED <<pc, result, reply>>
    PROVE  Kept /\ Stages' /\ RepliesKnown' /\ StoredKnown
<1>1. Stages' /\ Kept /\ StoredKnown
    BY StagesAre DEF DeliveryInv, Stages, Replies, Kept
<1>2. RepliesKnown
    BY DEF DeliveryInv
<1>3. RepliesKnown'
    BY <1>1, <1>2, RepliesStay
<1> QED
    BY <1>1, <1>3

\* What is stored waited to be.
LEMMA EncodeSetDelivers ==
    ASSUME DeliveryInv, NEW w \in pending, EncodeSet(w)
    PROVE  DeliveryInv'
<1>1. pending' \subseteq pending /\ UNCHANGED <<pc, result, reply>>
    BY DEF EncodeSet
<1>2. PICK tile \in Bodies :
         Passed(tile) /\ w = [tile |-> tile, headers |-> PullHeaders(NoHeaders)]
    BY DEF DeliveryInv, StoredKnown
<1>3. \E order \in Orders(PullHeaders(NoHeaders)) :
         entry' = Encode(tile, PullHeaders(NoHeaders), order)
    BY <1>2 DEF EncodeSet
<1>4. Kept /\ Stages' /\ RepliesKnown' /\ StoredKnown
    BY <1>1, ClientsStay
<1>5. \A v \in pending' : v \in pending
    BY <1>1
<1>6. StoredKnown'
    BY <1>2, <1>3, <1>4, <1>5, StoredStays
<1> QED
    BY <1>4, <1>6 DEF DeliveryInv

\* A packet that was cut off is not valid.
LEMMA CutIsInvalid ==
    ASSUME NEW t, IsPacket(t), t[1] = [sum |-> Tail(t)], NEW n \in 0..(Len(t) - 1)
    PROVE  ~Validate(SubSeq(t, 1, n))
<1>1. PICK u : u = SubSeq(t, 1, n)
    OBVIOUS
<1>2. PICK U : t \in Seq(U) /\ Len(t) \in Nat /\ Len(t) >= 1
    BY DEF IsPacket
<1>3. u \in Seq(U) /\ Len(u) = n /\ \A j \in 1..n : u[j] = t[j]
    BY <1>1, <1>2
<1>4. ASSUME Validate(u)
      PROVE  FALSE
  <2>1. Len(u) >= 1 /\ u[1] = [sum |-> Tail(u)]
      BY <1>4 DEF Validate
  <2>2. u[1] = t[1]
      BY <1>3, <2>1
  <2>3. Tail(u) = Tail(t)
    <3>1. PICK a, b : a = Tail(u) /\ b = Tail(t)
        OBVIOUS
    <3>2. [sum |-> a] = [sum |-> b]
        BY <2>1, <2>2, <3>1
    <3>3. [sum |-> a].sum = a /\ [sum |-> b].sum = b
        OBVIOUS
    <3> QED
        BY <3>1, <3>2, <3>3
  <2>4. u \in Seq(U)
      BY <1>3
  <2>5. Len(Tail(u)) = Len(u) - 1
      BY <2>1, <2>4, Tails
  <2>6. Len(Tail(t)) = Len(t) - 1
      BY <1>2, Tails
  <2> QED
      BY <1>2, <1>3, <2>3, <2>5, <2>6
<1> QED
    BY <1>1, <1>4

\* Nor is one in which a byte has changed.
LEMMA ChangedIsInvalid ==
    ASSUME NEW t, IsPacket(t), t[1] = [sum |-> Tail(t)],
           NEW i \in 2..Len(t), NEW b \in Bytes \ {t[i]}
    PROVE  ~Validate([t EXCEPT ![i] = b])
<1>1. PICK u : u = [t EXCEPT ![i] = b]
    OBVIOUS
<1>2. PICK U : U = Bytes \cup {t[1]}
    OBVIOUS
<1>3. t \in Seq(U) /\ Len(t) \in Nat /\ Len(t) >= 1
    BY <1>2 DEF IsPacket
<1>4. u \in Seq(U) /\ Len(u) = Len(t) /\ u[1] = t[1] /\ u[i] = b
    BY <1>1, <1>2, <1>3
<1>5. ASSUME Validate(u)
      PROVE  FALSE
  <2>1. Len(u) >= 1 /\ u[1] = [sum |-> Tail(u)]
      BY <1>5 DEF Validate
  <2>2. Tail(u) = Tail(t)
    <3>1. PICK x, y : x = Tail(u) /\ y = Tail(t)
        OBVIOUS
    <3>2. [sum |-> x] = [sum |-> y]
        BY <1>4, <2>1, <3>1
    <3>3. [sum |-> x].sum = x /\ [sum |-> y].sum = y
        OBVIOUS
    <3> QED
        BY <3>1, <3>2, <3>3
  <2>3. i - 1 \in 1..(Len(t) - 1) /\ 1 + (i - 1) = i
      BY <1>3
  <2>4. Tail(t)[i - 1] = t[1 + (i - 1)]
      BY <1>3, <2>3, Tails
  <2>5. Tail(u)[i - 1] = u[1 + (i - 1)]
    <3>1. u \in Seq(U)
        BY <1>4
    <3>2. i - 1 \in 1..(Len(u) - 1)
        BY <1>4, <2>3
    <3> QED
        BY <2>1, <3>1, <3>2, Tails
  <2> QED
      BY <1>4, <2>2, <2>3, <2>4, <2>5
<1> QED
    BY <1>1, <1>5

\* Damage leaves nothing, or nothing valid.
LEMMA DamageDelivers ==
    ASSUME DeliveryInv, Damage
    PROVE  DeliveryInv'
<1>1. entry # None /\ Validate(entry) /\ UNCHANGED <<pc, result, reply, pending>>
    BY DEF Damage
<1>2. PICK tile \in Bodies : \E order \in Orders(PullHeaders(NoHeaders)) :
         entry = Encode(tile, PullHeaders(NoHeaders), order)
    BY <1>1 DEF DeliveryInv, StoredKnown
<1>3. PICK h : h = PullHeaders(NoHeaders)
    OBVIOUS
<1>4. PICK order \in Orders(h) : entry = Encode(tile, h, order)
    BY <1>2, <1>3
<1>5. PICK s : IsFiniteSet(s) /\ s \subseteq Seq(Bytes) /\ h \in [s -> Seq(Bytes)]
    BY <1>3, PulledAre
<1>6. Written(entry, tile, h, order)
  <2>1. tile \in Seq(Bytes)
      BY NamesAre
  <2>2. h \in [s -> Seq(Bytes)]
      BY <1>5
  <2>3. Written(Encode(tile, h, order), tile, h, order)
      BY <1>5, <2>1, <2>2, EncodeIs
  <2> QED
      BY <1>4, <2>3
<1>7. IsPacket(entry) /\ entry[1] = [sum |-> Tail(entry)]
    BY <1>6 DEF Written
<1>8. entry' = None \/ ~Validate(entry')
  <2>1. \/ entry' = None
        \/ \E n \in 0..(Len(entry) - 1) : entry' = SubSeq(entry, 1, n)
        \/ \E i \in 2..Len(entry) : \E b \in Bytes \ {entry[i]} :
              entry' = [entry EXCEPT ![i] = b]
      BY DEF Damage
  <2>2. ASSUME NEW n \in 0..(Len(entry) - 1), entry' = SubSeq(entry, 1, n)
        PROVE  ~Validate(entry')
      BY <1>7, <2>2, CutIsInvalid
  <2>3. ASSUME NEW i \in 2..Len(entry), NEW b \in Bytes \ {entry[i]},
               entry' = [entry EXCEPT ![i] = b]
        PROVE  ~Validate(entry')
      BY <1>7, <2>3, ChangedIsInvalid
  <2> QED
      BY <2>1, <2>2, <2>3
<1>9. Kept /\ Stages' /\ RepliesKnown' /\ StoredKnown
    BY <1>1, ClientsStay
<1>10. StoredKnown'
    BY <1>1, <1>8, <1>9, StoredStays
<1> QED
    BY <1>9, <1>10 DEF DeliveryInv

\* Every step keeps the invariant.
LEMMA NextDelivers ==
    ASSUME Fitting
    PROVE  DeliveryInv /\ [Next]_vars => DeliveryInv'
<1> SUFFICES ASSUME DeliveryInv, [Next]_vars
             PROVE  DeliveryInv'
    OBVIOUS
<1>1. ASSUME NEW c \in Clients, Hit(c)
      PROVE  DeliveryInv'
    BY <1>1, HitDelivers
<1>2. ASSUME NEW c \in Clients, Miss(c)
      PROVE  DeliveryInv'
    BY <1>2, MissDelivers
<1>3. ASSUME NEW c \in Clients, ProcessResponse(c)
      PROVE  DeliveryInv'
    BY <1>3, ProcessDelivers
<1>4. ASSUME NEW group \in SUBSET Clients, FetchUpstream(group)
      PROVE  DeliveryInv'
    BY <1>4, FetchDelivers
<1>5. ASSUME NEW w \in pending, EncodeSet(w)
      PROVE  DeliveryInv'
    BY <1>5, EncodeSetDelivers
<1>6. CASE Damage
    BY <1>6, DamageDelivers
<1>7. CASE UNCHANGED vars
  <2>1. UNCHANGED <<pc, result, reply, pending, entry>>
      BY <1>7 DEF vars
  <2>2. Kept /\ Stages' /\ RepliesKnown' /\ StoredKnown
      BY <2>1, ClientsStay
  <2>3. StoredKnown'
      BY <2>1, <2>2, StoredStays
  <2> QED
      BY <2>2, <2>3 DEF DeliveryInv
<1> QED
    BY <1>1, <1>2, <1>3, <1>4, <1>5, <1>6, <1>7 DEF Next, Serve

\* What is stored was sent to a client to whom the upstream answered, and what a
\* client has was sent for its own answer or for a stored tile.
THEOREM DeliveryInvariant ==
    ASSUME Fitting
    PROVE  Spec => []DeliveryInv
<1>1. DeliveryInv /\ [Next]_vars => DeliveryInv'
    BY NextDelivers
<1> QED
    BY <1>1, InitDelivers, PTL DEF Spec

\* Every reply is whole, and no reader indexes a valid packet beyond its end
\* (packet.go:75).
THEOREM DeliveryTypeCorrect ==
    ASSUME Fitting
    PROVE  Spec => []TypeOK
<1>1. ASSUME DeliveryInv
      PROVE  TypeOK
  <2>1. ASSUME NEW c \in Clients, reply[c] # None
        PROVE  reply[c].status \in Codes /\ DOMAIN reply[c].headers = Names
    <3>1. reply[c] \in Replies
        BY <1>1, <2>1, StagesAre
    <3>2. reply[c].status \in Codes /\ reply[c].headers = NoHeaders
        BY <3>1 DEF Replies
    <3> QED
        BY <3>2, HeadersStay
  <2>2. ASSUME NEW w \in pending
        PROVE  w.tile \in Bodies /\ DOMAIN w.headers \subseteq Pulled
    <3>1. PICK tile \in Bodies : w = [tile |-> tile, headers |-> PullHeaders(NoHeaders)]
        BY <1>1 DEF DeliveryInv, StoredKnown
    <3>2. DOMAIN PullHeaders(NoHeaders) \subseteq Pulled
        BY PulledAre
    <3> QED
        BY <3>1, <3>2
  <2>3. ASSUME entry # None, Validate(entry)
        PROVE  Decoded(entry).fit
    <3>1. PICK tile : Decoded(entry) =
             [fit |-> TRUE, tile |-> tile, headers |-> PullHeaders(NoHeaders)]
        BY <1>1, <2>3, EntryIs
    <3> QED
        BY <3>1
  <2> QED
      BY <1>1, <2>1, <2>2, <2>3, StagesAre DEF TypeOK
<1>2. Spec => []DeliveryInv
    BY DeliveryInvariant
<1> QED
    BY <1>1, <1>2, PTL

\* Who has been served without a result has what one with a result has.
LEMMA FromCacheIs ==
    ASSUME DeliveryInv, NEW c \in Clients, FromCache(c)
    PROVE  \E d \in Clients :
              /\ result[d] \in Results /\ result[d] # None /\ Accepts(result[d])
              /\ reply[d] # None /\ reply[d] = Sent(result[d])
              /\ reply[c] = [status |-> 200, headers |-> NoHeaders, body |-> result[d].body]
<1>1. pc[c] = "done" /\ result[c] = None
    BY StagesAre DEF FromCache
<1>2. PICK tile \in Bodies :
         Passed(tile) /\ reply[c] = [status |-> 200, headers |-> NoHeaders, body |-> tile]
    BY <1>1 DEF DeliveryInv, RepliesKnown
<1>3. PICK d \in Clients :
         pc[d] = "done" /\ result[d] # None /\ Accepts(result[d]) /\ result[d].body = tile
    BY <1>2 DEF Passed
<1>4. result[d] \in Results /\ reply[d] # None
    BY <1>3, StagesAre
<1>5. reply[d] = Sent(result[d])
    BY <1>3 DEF DeliveryInv, RepliesKnown
<1> QED
    BY <1>2, <1>3, <1>4, <1>5

\* A client that is served from the cache receives what an earlier one received
\* from the upstream, but for the status (proxy.go:126).
THEOREM CacheRepeats ==
    ASSUME Fitting
    PROVE  Spec => []HitRepeats
<1>1. ASSUME DeliveryInv
      PROVE  HitRepeats
  <2> SUFFICES ASSUME NEW c \in Clients, FromCache(c)
               PROVE  \E d \in Clients :
                         /\ reply[d] # None /\ ~FromCache(d)
                         /\ reply[d].status \in {200, 204}
                         /\ reply[c] = [reply[d] EXCEPT !.status = 200]
      BY DEF HitRepeats
  <2>1. PICK d \in Clients :
           /\ result[d] \in Results /\ result[d] # None /\ Accepts(result[d])
           /\ reply[d] # None /\ reply[d] = Sent(result[d])
           /\ reply[c] = [status |-> 200, headers |-> NoHeaders, body |-> result[d].body]
      BY <1>1, FromCacheIs
  <2>2. reply[d] = [status |-> result[d].code, headers |-> NoHeaders, body |-> result[d].body]
      BY <2>1 DEF Sent
  <2>3. result[d].code \in {200, 204}
      BY <2>1 DEF Accepts
  <2>4. ~FromCache(d)
      BY <2>1 DEF FromCache
  <2>5. reply[c] = [reply[d] EXCEPT !.status = 200]
      BY <2>1, <2>2
  <2>6. reply[d].status \in {200, 204}
      BY <2>2, <2>3
  <2> QED
      BY <2>1, <2>4, <2>5, <2>6
<1>2. Spec => []DeliveryInv
    BY DeliveryInvariant
<1> QED
    BY <1>1, <1>2, PTL

\* An empty tile with 200 is one of which the upstream said that it has no content
\* (helpers.go:203).
THEOREM EmptyIsNoContent ==
    ASSUME Fitting
    PROVE  Spec => []EmptyMeansNoContent
<1>1. ASSUME DeliveryInv
      PROVE  EmptyMeansNoContent
  <2> SUFFICES ASSUME NEW c \in Clients, reply[c] # None,
                      reply[c].status = 200, reply[c].body = <<>>
               PROVE  \E d \in Clients : result[d] # None /\ result[d].code = 204
      BY DEF EmptyMeansNoContent
  <2>1. CASE FromCache(c)
    <3>1. PICK d \in Clients :
             /\ result[d] # None /\ Accepts(result[d])
             /\ reply[c] = [status |-> 200, headers |-> NoHeaders, body |-> result[d].body]
        BY <1>1, <2>1, FromCacheIs
    <3>2. result[d].body = <<>>
        BY <3>1
    <3> QED
        BY <3>1, <3>2 DEF Accepts
  <2>2. CASE ~FromCache(c)
    <3>1. pc[c] = "done" /\ result[c] # None
        BY <1>1, <2>2, StagesAre DEF FromCache
    <3>2. reply[c] = Sent(result[c])
        BY <1>1, <3>1 DEF DeliveryInv, RepliesKnown
    <3>3. CASE Accepts(result[c])
      <4>1. reply[c] = [status |-> result[c].code, headers |-> NoHeaders,
                        body |-> result[c].body]
          BY <3>2, <3>3 DEF Sent
      <4>2. result[c].code = 200 /\ result[c].body = <<>>
          BY <4>1
      <4> QED
          BY <3>3, <4>2 DEF Accepts
    <3>4. CASE ~Accepts(result[c])
      <4>1. reply[c] = [status |-> 500, headers |-> NoHeaders, body |-> <<>>]
          BY <3>2, <3>4 DEF Sent
      <4> QED
          BY <4>1
    <3> QED
        BY <3>3, <3>4
  <2> QED
      BY <2>1, <2>2
<1>2. Spec => []DeliveryInv
    BY DeliveryInvariant
<1> QED
    BY <1>1, <1>2, PTL

\* The pulling of headers that config.go:62 promises does not take place in any run:
\* no reply has the upstream's, whatever is configured (helpers.go:165).
THEOREM HeadersAreNeverPulled ==
    ASSUME Fitting
    PROVE  Spec => []HeadersNeverPulled
<1>1. ASSUME DeliveryInv
      PROVE  HeadersNeverPulled
  <2> SUFFICES ASSUME NEW c \in Clients, reply[c] # None
               PROVE  reply[c].headers = NoHeaders
      BY DEF HeadersNeverPulled
  <2>1. reply[c] \in Replies
      BY <1>1, StagesAre
  <2> QED
      BY <2>1 DEF Replies
<1>2. Spec => []DeliveryInv
    BY DeliveryInvariant
<1> QED
    BY <1>1, <1>2, PTL
=============================================================================
