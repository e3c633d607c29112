--------------------------- MODULE PaillierProofs ---------------------------
(***************************************************************************)
(* Proofs about PaillierSum, for any primes of which keyGeneration finds   *)
(* its inverse, any numbers and any count of matches.                      *)
(*                                                                         *)
(* The first sections are the number theory that the scheme rests on:      *)
(* congruences and remainders; powers and products, which exist by         *)
(* Recursion; inverses modulo a prime, from the least remainder of the     *)
(* multiples; Euclid's lemma; Fermat's theorem, by permuting the factors   *)
(* of a product; powers of a number plus a multiple of m, modulo m^2; what *)
(* Max finds in GCD.  Induction is over sets of numbers (NatSets), so that *)
(* no theorem about an arbitrary operator is needed.                       *)
(*                                                                         *)
(* Then the operations: a ciphertext is a product of two powers, products  *)
(* of ciphertexts are ciphertexts of sums, lambda makes every unit 1, and  *)
(* decryptNumber reads the number off.  PaillierInvariant says that the    *)
(* leader's product stays one ciphertext of the sum.                       *)
(***************************************************************************)
EXTENDS PaillierSum, WellFoundedInduction, TLAPS

-----------------------------------------------------------------------------
(* Induction and recursion.                                                *)

\* A set with 0 and the successors of its members holds every natural number.
LEMMA NatSets ==
  ASSUME NEW U, 0 \in U, \A k \in Nat : k \in U => k + 1 \in U
  PROVE  \A k \in Nat : k \in U
<1> DEFINE below == {ss \in Nat \X Nat : ss[1] < ss[2]}
<1>1. SUFFICES ASSUME Nat \ U # {} PROVE FALSE
  OBVIOUS
<1>2. IsWellFoundedOn(below, Nat)
  BY NatLessThanWellFounded DEF OpToRel
<1>3. PICK x \in Nat \ U : \A y \in Nat \ U : <<y, x>> \notin below
  BY <1>1, <1>2, WFMin
<1>4. x \in Nat /\ x # 0 /\ x - 1 \in Nat /\ x - 1 < x
  OBVIOUS
<1>5. x - 1 \in Nat \ U /\ <<x - 1, x>> \in below
  BY <1>4
<1> QED
  BY <1>3, <1>5

\* A set of natural numbers has a least one.
LEMMA Least ==
  ASSUME NEW S \in SUBSET Nat, S # {}
  PROVE  \E x \in S : \A y \in S : x <= y
<1> DEFINE below == {ss \in Nat \X Nat : ss[1] < ss[2]}
<1>1. IsWellFoundedOn(below, Nat)
  BY NatLessThanWellFounded DEF OpToRel
<1>2. PICK x \in S : \A y \in S : <<y, x>> \notin below
  BY <1>1, WFMin
<1>3. \A y \in S : ~(y < x)
  BY <1>2
<1> QED
  BY <1>3

-----------------------------------------------------------------------------
(* Congruences and remainders.                                             *)

\* a and b leave the same remainder.
Congruent(a, b, m) == \E k \in Int : a = b + k * m

\* Congruence is reflexive, symmetric and transitive, and factors keep it.
LEMMA CongRefl ==
  ASSUME NEW m \in Int, NEW a \in Int
  PROVE  Congruent(a, a, m)
<1>1. 0 \in Int /\ a = a + 0 * m
  OBVIOUS
<1> QED
  BY <1>1 DEF Congruent

LEMMA CongSym ==
  ASSUME NEW m \in Int, NEW a \in Int, NEW b \in Int, Congruent(a, b, m)
  PROVE  Congruent(b, a, m)
<1>1. PICK k \in Int : a = b + k * m
  BY DEF Congruent
<1>2. -k \in Int /\ b = a + (-k) * m
  BY <1>1
<1> QED
  BY <1>2 DEF Congruent

LEMMA CongTrans ==
  ASSUME NEW m \in Int, NEW a \in Int, NEW b \in Int, NEW c \in Int,
         Congruent(a, b, m), Congruent(b, c, m)
  PROVE  Congruent(a, c, m)
<1>1. PICK k \in Int : a = b + k * m
  BY DEF Congruent
<1>2. PICK l \in Int : b = c + l * m
  BY DEF Congruent
<1>3. (k + l) * m = k * m + l * m
  OBVIOUS
<1>4. k + l \in Int /\ a = c + (k + l) * m
  BY <1>1, <1>2, <1>3
<1> QED
  BY <1>4 DEF Congruent

LEMMA CongTimes ==
  ASSUME NEW m \in Int, NEW a \in Int, NEW b \in Int, NEW c \in Int, NEW d \in Int,
         Congruent(a, b, m), Congruent(c, d, m)
  PROVE  Congruent(a * c, b * d, m)
<1>1. PICK k \in Int : a = b + k * m
  BY DEF Congruent
<1>2. PICK l \in Int : c = d + l * m
  BY DEF Congruent
<1>3. (b + k * m) * (d + l * m) = b * d + (b * l + k * d + k * l * m) * m
  OBVIOUS
<1>4. b * l + k * d + k * l * m \in Int
  OBVIOUS
<1> QED
  BY <1>1, <1>2, <1>3, <1>4 DEF Congruent

\* The remainder of a division.
LEMMA Remainder ==
  ASSUME NEW m \in Nat \ {0}, NEW a \in Int
  PROVE  a % m \in 0..m-1 /\ Congruent(a, a % m, m)
<1>1. a \div m \in Int /\ a = (a \div m) * m + (a % m)
  OBVIOUS
<1>2. a % m \in 0..m-1
  OBVIOUS
<1> DEFINE r == a % m
           k == a \div m
<1>3. k \in Int /\ a = k * m + r /\ r \in 0..m-1
  BY <1>1, <1>2
<1> HIDE DEF k, r
<1>4. a = r + k * m
  BY <1>3
<1> QED
  BY <1>3, <1>4 DEF Congruent, r

\* The same of a number that is known to be the remainder.
LEMMA Leaves ==
  ASSUME NEW m \in Nat \ {0}, NEW a \in Int, NEW c, c = a % m
  PROVE  c \in Int /\ c \in 0..m-1 /\ Congruent(a, c, m)
BY Remainder

\* It is the only number below m that a is congruent to.
LEMMA RemainderOnly ==
  ASSUME NEW m \in Nat \ {0}, NEW a \in Int, NEW r \in 0..m-1, Congruent(a, r, m)
  PROVE  a % m = r
<1>1. PICK k \in Int : a = r + k * m
  BY DEF Congruent
<1>2. (k * m + r) % m = r
  OBVIOUS
<1> QED
  BY <1>1, <1>2

\* Congruent numbers are those with one remainder.
LEMMA SameRemainder ==
  ASSUME NEW m \in Nat \ {0}, NEW a \in Int, NEW b \in Int
  PROVE  a % m = b % m <=> Congruent(a, b, m)
<1>1. a % m \in 0..m-1 /\ b % m \in 0..m-1
  BY Remainder
<1>2. ASSUME a % m = b % m PROVE Congruent(a, b, m)
  <2> DEFINE r == a % m
  <2>1. r \in Int /\ Congruent(a, r, m) /\ Congruent(b, r, m)
    BY <1>1, <1>2, Remainder
  <2> HIDE DEF r
  <2>2. Congruent(r, b, m)
    BY <2>1, CongSym
  <2> QED
    BY <2>1, <2>2, CongTrans
<1>3. ASSUME Congruent(a, b, m) PROVE a % m = b % m
  <2> DEFINE r == b % m
  <2>1. r \in Int /\ r \in 0..m-1 /\ Congruent(b, r, m)
    BY <1>1, Remainder
  <2> HIDE DEF r
  <2>2. Congruent(a, r, m)
    BY <1>3, <2>1, CongTrans
  <2>3. a % m = r
    BY <2>1, <2>2, RemainderOnly
  <2> QED
    BY <2>3 DEF r
<1> QED
  BY <1>2, <1>3

\* Functions defined by recursion from a number and a step.
LEMMA Recursion ==
  ASSUME NEW a \in Int, NEW h \in [Nat \X Int -> Int]
  PROVE  \E f \in [Nat -> Int] : f[0] = a /\ \A k \in Nat : f[k + 1] = h[<<k + 1, f[k]>>]
<1> DEFINE On(f, i) == /\ f \in [0..i -> Int] /\ f[0] = a
                       /\ \A k \in 0..i-1 : f[k + 1] = h[<<k + 1, f[k]>>]
           V == {i \in Nat : \E f : On(f, i)}
<1>1. 0 \in V
  <2>1. On([k \in 0..0 |-> a], 0)
    OBVIOUS
  <2> QED
    BY <2>1
<1>2. ASSUME NEW i \in Nat, i \in V
      PROVE  i + 1 \in V
  <2>1. PICK f : On(f, i)
    BY <1>2
  <2> DEFINE e == [k \in 0..i+1 |-> IF k = i + 1 THEN h[<<i + 1, f[i]>>] ELSE f[k]]
  <2>2. f[i] \in Int /\ h[<<i + 1, f[i]>>] \in Int
    BY <2>1
  <2>3. e \in [0..i+1 -> Int]
    BY <2>1, <2>2
  <2>4. e[0] = a
    BY <2>1
  <2>5. ASSUME NEW k \in 0..i PROVE e[k + 1] = h[<<k + 1, e[k]>>]
    <3>1. e[k] = f[k] /\ k + 1 \in 0..i+1
      OBVIOUS
    <3>2. CASE k = i
      BY <3>1, <3>2
    <3>3. CASE k # i
      <4>1. k \in 0..i-1 /\ k + 1 # i + 1 /\ k + 1 \in 0..i+1
        BY <3>3
      <4>2. e[k + 1] = f[k + 1]
        BY <4>1
      <4> QED
        BY <2>1, <3>1, <4>1, <4>2
    <3> QED
      BY <3>2, <3>3
  <2>6. On(e, i + 1)
    <3>1. (i + 1) - 1 = i
      OBVIOUS
    <3> HIDE DEF e
    <3> QED
      BY <2>3, <2>4, <2>5, <3>1
  <2> HIDE DEF On, e
  <2> QED
    BY <2>6
<1>3. \A i \in Nat : i \in V
  <2> HIDE DEF V
  <2> QED
    BY <1>1, <1>2, NatSets
<1>4. ASSUME NEW i \in Nat, NEW f, NEW e, On(f, i), On(e, i + 1)
      PROVE  e[i] = f[i]
  <2> DEFINE W == {k \in Nat : k <= i => e[k] = f[k]}
  <2>1. 0 \in W
    BY <1>4
  <2>2. ASSUME NEW k \in Nat, k \in W PROVE k + 1 \in W
    <3>1. SUFFICES ASSUME k + 1 <= i PROVE e[k + 1] = f[k + 1]
      OBVIOUS
    <3>2. k \in 0..i-1 /\ k \in 0..(i+1)-1 /\ e[k] = f[k]
      BY <2>2, <3>1
    <3> QED
      BY <1>4, <3>2
  <2>3. \A k \in Nat : k \in W
    <3> HIDE DEF W
    <3> QED
      BY <2>1, <2>2, NatSets
  <2> QED
    BY <2>3
<1> DEFINE c == [i \in Nat |-> CHOOSE f : On(f, i)]
           F == [i \in Nat |-> c[i][i]]
<1>5. \A i \in Nat : On(c[i], i)
  BY <1>3
<1>6. F \in [Nat -> Int] /\ F[0] = a
  <2> HIDE DEF c
  <2>1. \A i \in Nat : c[i] \in [0..i -> Int] /\ c[i][0] = a /\ i \in 0..i
    BY <1>5
  <2>2. \A i \in Nat : c[i][i] \in Int
    BY <2>1
  <2> QED
    BY <2>1, <2>2
<1>7. ASSUME NEW k \in Nat PROVE F[k + 1] = h[<<k + 1, F[k]>>]
  <2> DEFINE f == c[k]
             e == c[k + 1]
  <2>1. On(f, k) /\ On(e, k + 1)
    <3> HIDE DEF On, c
    <3> QED
      BY <1>5
  <2>2. F[k] = f[k] /\ F[k + 1] = e[k + 1]
    <3> HIDE DEF c
    <3> QED
      OBVIOUS
  <2> HIDE DEF f, e, F, c
  <2>3. e[k] = f[k]
    <3> HIDE DEF On
    <3> QED
      BY <1>4, <2>1
  <2>4. k \in 0..(k+1)-1
    OBVIOUS
  <2> QED
    BY <2>1, <2>2, <2>3, <2>4
<1> QED
  BY <1>6, <1>7

-----------------------------------------------------------------------------
(* Powers, divisors and primes.                                            *)

\* The powers of b.
Pow(b) == CHOOSE f \in [Nat -> Int] : f[0] = 1 /\ \A k \in Nat : f[k + 1] = f[k] * b

\* Pow is what its definition asks for.
LEMMA PowDef ==
  ASSUME NEW b \in Int
  PROVE  /\ Pow(b) \in [Nat -> Int] /\ Pow(b)[0] = 1
         /\ \A k \in Nat : Pow(b)[k + 1] = Pow(b)[k] * b
<1> DEFINE h == [z \in Nat \X Int |-> z[2] * b]
<1>1. h \in [Nat \X Int -> Int]
  OBVIOUS
<1>2. PICK f \in [Nat -> Int] : f[0] = 1 /\ \A k \in Nat : f[k + 1] = h[<<k + 1, f[k]>>]
  <2> HIDE DEF h
  <2>1. 1 \in Int
    OBVIOUS
  <2> QED
    BY <1>1, <2>1, Recursion, Zenon
<1>3. ASSUME NEW k \in Nat PROVE f[k + 1] = f[k] * b
  <2>1. f[k] \in Int /\ <<k + 1, f[k]>> \in Nat \X Int
    OBVIOUS
  <2>2. h[<<k + 1, f[k]>>] = f[k] * b
    BY <2>1
  <2> QED
    BY <1>2, <2>2
<1> QED
  BY <1>2, <1>3 DEF Pow

\* The laws of powers.
LEMMA PowPlus ==
  ASSUME NEW b \in Int, NEW i \in Nat
  PROVE  \A j \in Nat : Pow(b)[i + j] = Pow(b)[i] * Pow(b)[j]
<1> DEFINE P == Pow(b)
           V == {j \in Nat : P[i + j] = P[i] * P[j]}
<1>1. P \in [Nat -> Int] /\ P[0] = 1 /\ \A k \in Nat : P[k + 1] = P[k] * b
  BY PowDef
<1> HIDE DEF P
<1>2. 0 \in V
  <2>1. P[i] \in Int /\ i + 0 = i
    BY <1>1
  <2> QED
    BY <1>1, <2>1
<1>3. ASSUME NEW j \in Nat, j \in V PROVE j + 1 \in V
  <2>1. i + j \in Nat /\ i + (j + 1) = (i + j) + 1 /\ P[i] \in Int /\ P[j] \in Int
    BY <1>1
  <2>2. P[i + (j + 1)] = (P[i] * P[j]) * b
    BY <1>1, <1>3, <2>1
  <2>3. (P[i] * P[j]) * b = P[i] * (P[j] * b)
    BY <2>1
  <2> QED
    BY <1>1, <2>2, <2>3
<1>4. \A j \in Nat : j \in V
  <2> HIDE DEF V
  <2> QED
    BY <1>2, <1>3, NatSets
<1> QED
  BY <1>4 DEF P

LEMMA PowTimes ==
  ASSUME NEW b \in Int, NEW i \in Nat
  PROVE  \A j \in Nat : Pow(b)[i * j] = Pow(Pow(b)[i])[j]
<1> DEFINE c == Pow(b)[i]
           V == {j \in Nat : Pow(b)[i * j] = Pow(c)[j]}
<1>1. c \in Int
  BY PowDef
<1>2. 0 \in V
  <2>1. i * 0 = 0
    OBVIOUS
  <2> QED
    BY <1>1, <2>1, PowDef
<1>3. ASSUME NEW j \in Nat, j \in V PROVE j + 1 \in V
  <2>1. i * (j + 1) = i * j + i /\ i * j \in Nat
    OBVIOUS
  <2>2. Pow(b)[i * j + i] = Pow(b)[i * j] * c
    BY <2>1, PowPlus
  <2>3. Pow(c)[j + 1] = Pow(c)[j] * c
    BY <1>1, PowDef
  <2> QED
    BY <1>3, <2>1, <2>2, <2>3
<1>4. \A j \in Nat : j \in V
  <2> HIDE DEF V
  <2> QED
    BY <1>2, <1>3, NatSets
<1> QED
  BY <1>4

LEMMA PowProduct ==
  ASSUME NEW b \in Int, NEW c \in Int
  PROVE  \A j \in Nat : Pow(b * c)[j] = Pow(b)[j] * Pow(c)[j]
<1> DEFINE P == Pow(b)
           Q == Pow(c)
           R == Pow(b * c)
           V == {j \in Nat : R[j] = P[j] * Q[j]}
<1>1. /\ P \in [Nat -> Int] /\ P[0] = 1 /\ \A k \in Nat : P[k + 1] = P[k] * b
      /\ Q \in [Nat -> Int] /\ Q[0] = 1 /\ \A k \in Nat : Q[k + 1] = Q[k] * c
  BY PowDef
<1>2. R \in [Nat -> Int] /\ R[0] = 1 /\ \A k \in Nat : R[k + 1] = R[k] * (b * c)
  <2>1. b * c \in Int
    OBVIOUS
  <2> QED
    BY <2>1, PowDef
<1> HIDE DEF P, Q, R
<1>3. 0 \in V
  BY <1>1, <1>2
<1>4. ASSUME NEW j \in Nat, j \in V PROVE j + 1 \in V
  <2>1. P[j] \in Int /\ Q[j] \in Int
    BY <1>1
  <2>2. (P[j] * Q[j]) * (b * c) = (P[j] * b) * (Q[j] * c)
    BY <2>1
  <2> QED
    BY <1>1, <1>2, <1>4, <2>2
<1>5. \A j \in Nat : j \in V
  <2> HIDE DEF V
  <2> QED
    BY <1>3, <1>4, NatSets
<1> QED
  BY <1>5 DEF P, Q, R

LEMMA PowOne ==
  \A j \in Nat : Pow(1)[j] = 1
<1> DEFINE P == Pow(1)
           V == {j \in Nat : P[j] = 1}
<1>1. P[0] = 1 /\ \A k \in Nat : P[k + 1] = P[k] * 1
  BY PowDef
<1> HIDE DEF P
<1>2. 0 \in V /\ \A j \in Nat : j \in V => j + 1 \in V
  BY <1>1
<1>3. \A j \in Nat : j \in V
  <2> HIDE DEF V
  <2> QED
    BY <1>2, NatSets
<1> QED
  BY <1>3 DEF P

\* Powers of what is equal modulo m.
LEMMA CongPow ==
  ASSUME NEW m \in Int, NEW b \in Int, NEW c \in Int, Congruent(b, c, m)
  PROVE  \A j \in Nat : Congruent(Pow(b)[j], Pow(c)[j], m)
<1> DEFINE P == Pow(b)
           Q == Pow(c)
           V == {j \in Nat : Congruent(P[j], Q[j], m)}
<1>1. /\ P \in [Nat -> Int] /\ P[0] = 1 /\ \A k \in Nat : P[k + 1] = P[k] * b
      /\ Q \in [Nat -> Int] /\ Q[0] = 1 /\ \A k \in Nat : Q[k + 1] = Q[k] * c
  BY PowDef
<1> HIDE DEF P, Q
<1>3. 0 \in V
  BY <1>1, CongRefl
<1>4. ASSUME NEW j \in Nat, j \in V PROVE j + 1 \in V
  <2>1. P[j] \in Int /\ Q[j] \in Int
    BY <1>1
  <2>2. Congruent(P[j] * b, Q[j] * c, m)
    BY <1>4, <2>1, CongTimes
  <2> QED
    BY <1>1, <2>2
<1>5. \A j \in Nat : j \in V
  <2> HIDE DEF V
  <2> QED
    BY <1>3, <1>4, NatSets
<1> QED
  BY <1>5 DEF P, Q

Divides(d, a) == \E k \in Int : a = k * d

\* Divisibility as a congruence, of products, and as a remainder of 0.
LEMMA DividesCong ==
  ASSUME NEW d \in Int, NEW a \in Int, NEW b \in Int
  PROVE  /\ Congruent(a, b, d) <=> Divides(d, a - b)
         /\ Divides(d, a) <=> Congruent(a, 0, d)
<1>1. ASSUME NEW k \in Int PROVE (a = b + k * d <=> a - b = k * d) /\ (a = 0 + k * d <=> a = k * d)
  OBVIOUS
<1> QED
  BY <1>1 DEF Congruent, Divides

\* A divisor divides what is congruent.
LEMMA DividesBoth ==
  ASSUME NEW d \in Int, NEW a \in Int, NEW b \in Int, Congruent(a, b, d)
  PROVE  Divides(d, a) <=> Divides(d, b)
<1>1. 0 \in Int
  OBVIOUS
<1>2. ASSUME Divides(d, a) PROVE Divides(d, b)
  <2>1. Congruent(a, 0, d) /\ Congruent(b, a, d)
    BY <1>2, DividesCong, CongSym
  <2>2. Congruent(b, 0, d)
    BY <1>1, <2>1, CongTrans
  <2> QED
    BY <2>2, DividesCong
<1>3. ASSUME Divides(d, b) PROVE Divides(d, a)
  <2>1. Congruent(b, 0, d)
    BY <1>3, DividesCong
  <2>2. Congruent(a, 0, d)
    BY <1>1, <2>1, CongTrans
  <2> QED
    BY <2>2, DividesCong
<1> QED
  BY <1>2, <1>3

\* A divisor of a factor divides the product.
LEMMA DividesTimes ==
  ASSUME NEW d \in Int, NEW a \in Int, NEW b \in Int, Divides(d, a)
  PROVE  Divides(d, a * b) /\ Divides(d, b * a)
<1>1. PICK k \in Int : a = k * d
  BY DEF Divides
<1>2. a * b = (k * b) * d /\ b * a = (k * b) * d /\ k * b \in Int
  BY <1>1
<1> QED
  BY <1>2 DEF Divides

\* Between -d and d there is no multiple of d but 0.
LEMMA DividesSmall ==
  ASSUME NEW d \in Nat \ {0}, NEW a \in Int, -d < a, a < d, Divides(d, a)
  PROVE  a = 0
<1>1. PICK k \in Int : a = k * d
  BY DEF Divides
<1>2. CASE k = 0
  BY <1>1, <1>2
<1>3. CASE k >= 1
  <2>1. k - 1 \in Nat /\ k * d = (k - 1) * d + d /\ (k - 1) * d >= 0
    BY <1>3
  <2> QED
    BY <1>1, <2>1
<1>4. CASE k <= -1
  <2>1. -k - 1 \in Nat /\ k * d = -((-k - 1) * d) - d /\ (-k - 1) * d >= 0
    BY <1>4
  <2> QED
    BY <1>1, <2>1
<1> QED
  BY <1>2, <1>3, <1>4

\* What divides leaves no remainder.
LEMMA DividesRemainder ==
  ASSUME NEW d \in Nat \ {0}, NEW a \in Int
  PROVE  Divides(d, a) <=> a % d = 0
<1>1. 0 % d = 0 /\ 0 \in Int
  OBVIOUS
<1>2. a % d = 0 % d <=> Congruent(a, 0, d)
  BY <1>1, SameRemainder, Zenon
<1>3. d \in Int
  OBVIOUS
<1>4. Divides(d, a) <=> Congruent(a, 0, d)
  BY <1>1, <1>3, DividesCong, Zenon
<1> QED
  BY <1>1, <1>2, <1>4, Zenon

\* Modulo a prime, everything but 0 has an inverse.
LEMMA HasInverse ==
  ASSUME NEW u, IsPrime(u), NEW a \in Int, ~Divides(u, a)
  PROVE  \E x \in Int : Congruent(a * x, 1, u)
<1>1. u \in Nat \ {0} /\ u > 1 /\ \A d \in 2..u-1 : u % d # 0
  BY DEF IsPrime
<1> DEFINE S == {(a * x) % u : x \in Int} \ {0}
<1>2. S \in SUBSET Nat
  <2>1. ASSUME NEW x \in Int PROVE (a * x) % u \in Nat
    <3>1. a * x \in Int
      OBVIOUS
    <3>2. (a * x) % u \in 0..u-1
      BY <1>1, <3>1, Remainder
    <3> QED
      BY <1>1, <3>2
  <2> QED
    BY <2>1
<1>3. S # {}
  <2>1. a * 1 = a /\ 1 \in Int /\ a % u # 0
    BY <1>1, DividesRemainder
  <2>2. (a * 1) % u \in S
    BY <2>1
  <2> QED
    BY <2>2
<1>4. PICK d \in S : \A y \in S : d <= y
  <2> HIDE DEF S
  <2> QED
    BY <1>2, <1>3, Least
<1>5. PICK x \in Int : d = (a * x) % u
  OBVIOUS
<1>6. d \in 1..u-1 /\ Congruent(a * x, d, u)
  <2>1. a * x \in Int /\ d # 0
    OBVIOUS
  <2>2. (a * x) % u \in 0..u-1 /\ Congruent(a * x, (a * x) % u, u)
    BY <1>1, <2>1, Remainder
  <2> QED
    BY <1>1, <1>5, <2>1, <2>2
<1>7. u % d = 0
  <2> DEFINE r == u % d
  <2>1. d \in Nat \ {0} /\ r \in 0..d-1 /\ Congruent(u, r, d)
    BY <1>1, <1>6, Remainder
  <2> HIDE DEF r
  <2>2. PICK k \in Int : u = r + k * d
    BY <2>1 DEF Congruent
  <2>3. PICK l \in Int : a * x = d + l * u
    BY <1>6 DEF Congruent
  <2> DEFINE z == -(x * k)
  <2>4. z \in Int /\ a * z \in Int
    OBVIOUS
  <2>5. a * z = -((a * x) * k)
    OBVIOUS
  <2>6. a * z = -((d + l * u) * k)
    BY <2>3, <2>5
  <2>7. -((d + l * u) * k) = -(k * d) + (-(l * k)) * u
    BY <1>1, <1>6
  <2>8. -(k * d) = r - u
    <3>1. k * d \in Int /\ r \in Int /\ u \in Int
      BY <1>1, <1>6, <2>1
    <3> QED
      BY <2>2, <3>1
  <2>9. r - u + (-(l * k)) * u = r + (-(l * k) - 1) * u
    BY <1>1, <2>1
  <2>10. -(l * k) - 1 \in Int /\ a * z = r + (-(l * k) - 1) * u
    BY <2>6, <2>7, <2>8, <2>9
  <2>11. Congruent(a * z, r, u) /\ r \in 0..u-1
    BY <1>1, <1>6, <2>1, <2>10 DEF Congruent
  <2> HIDE DEF z
  <2>12. (a * z) % u = r
    BY <1>1, <2>4, <2>11, RemainderOnly
  <2>13. r = 0 \/ r \in S
    BY <2>4, <2>12
  <2>14. r = 0
    <3> HIDE DEF S
    <3> QED
      BY <1>1, <1>4, <1>6, <2>1, <2>13
  <2> QED
    BY <2>14 DEF r
<1>8. d = 1
  BY <1>1, <1>6, <1>7
<1> QED
  BY <1>6, <1>8

\* A prime that divides a product divides a factor.
LEMMA PrimeDivides ==
  ASSUME NEW u, IsPrime(u), NEW a \in Int, NEW b \in Int, Divides(u, a * b)
  PROVE  Divides(u, a) \/ Divides(u, b)
<1>1. u \in Int
  BY DEF IsPrime
<1> SUFFICES ASSUME ~Divides(u, a) PROVE Divides(u, b)
  OBVIOUS
<1>2. PICK x \in Int : Congruent(a * x, 1, u)
  BY HasInverse
<1>3. a * x \in Int /\ a * b \in Int /\ 1 \in Int
  OBVIOUS
<1>4. Congruent((a * x) * b, 1 * b, u)
  BY <1>1, <1>2, <1>3, CongRefl, CongTimes
<1>5. (a * x) * b = x * (a * b) /\ 1 * b = b /\ (a * x) * b \in Int
  OBVIOUS
<1>6. Divides(u, (a * x) * b)
  BY <1>1, <1>3, <1>5, DividesTimes
<1> QED
  BY <1>1, <1>4, <1>5, <1>6, DividesBoth

\* A power is divisible by a prime exactly if its base is.
LEMMA PrimeDividesPow ==
  ASSUME NEW u, IsPrime(u), NEW a \in Int
  PROVE  \A k \in Nat : /\ Divides(u, Pow(a)[k]) => Divides(u, a)
                        /\ k > 0 /\ Divides(u, a) => Divides(u, Pow(a)[k])
<1> DEFINE P == Pow(a)
           V == {k \in Nat : /\ Divides(u, P[k]) => Divides(u, a)
                             /\ k > 0 /\ Divides(u, a) => Divides(u, P[k])}
<1>1. P \in [Nat -> Int] /\ P[0] = 1 /\ \A k \in Nat : P[k + 1] = P[k] * a
  BY PowDef
<1>2. u \in Nat \ {0} /\ u > 1
  BY DEF IsPrime
<1> HIDE DEF P
<1>3. 0 \in V
  <2>1. ~Divides(u, 1)
    <3>1. 1 \in Int /\ -u < 1 /\ 1 < u /\ 1 # 0
      BY <1>2
    <3> QED
      BY <1>2, <3>1, DividesSmall, Zenon
  <2> QED
    BY <1>1, <2>1
<1>4. ASSUME NEW k \in Nat, k \in V PROVE k + 1 \in V
  <2>1. P[k] \in Int /\ P[k + 1] = P[k] * a
    BY <1>1
  <2>2. Divides(u, P[k + 1]) => Divides(u, a)
    BY <1>4, <2>1, PrimeDivides
  <2>3. Divides(u, a) => Divides(u, P[k] * a)
    <3>1. u \in Int
      BY <1>2
    <3> QED
      BY <2>1, <3>1, DividesTimes, Zenon
  <2> QED
    BY <2>1, <2>2, <2>3
<1>5. \A k \in Nat : k \in V
  <2> HIDE DEF V
  <2> QED
    BY <1>3, <1>4, NatSets
<1> QED
  BY <1>5 DEF P

\* Product(S)[k] is the product of the members of S up to k.
Product(S) == CHOOSE f \in [Nat -> Int] :
  /\ f[0] = 1
  /\ \A k \in Nat : f[k + 1] = IF k + 1 \in S THEN f[k] * (k + 1) ELSE f[k]

\* Product is what its definition asks for.
LEMMA ProductDef ==
  ASSUME NEW S
  PROVE  /\ Product(S) \in [Nat -> Int] /\ Product(S)[0] = 1
         /\ \A k \in Nat : Product(S)[k + 1] =
              IF k + 1 \in S THEN Product(S)[k] * (k + 1) ELSE Product(S)[k]
<1> DEFINE h == [z \in Nat \X Int |-> IF z[1] \in S THEN z[2] * z[1] ELSE z[2]]
<1>1. h \in [Nat \X Int -> Int]
  OBVIOUS
<1>2. PICK f \in [Nat -> Int] : f[0] = 1 /\ \A k \in Nat : f[k + 1] = h[<<k + 1, f[k]>>]
  <2> HIDE DEF h
  <2>1. 1 \in Int
    OBVIOUS
  <2> QED
    BY <1>1, <2>1, Recursion, Zenon
<1>3. ASSUME NEW k \in Nat
      PROVE  f[k + 1] = IF k + 1 \in S THEN f[k] * (k + 1) ELSE f[k]
  <2>1. f[k] \in Int /\ <<k + 1, f[k]>> \in Nat \X Int
    OBVIOUS
  <2>2. h[<<k + 1, f[k]>>] = IF k + 1 \in S THEN f[k] * (k + 1) ELSE f[k]
    BY <2>1
  <2> QED
    BY <1>2, <2>2
<1> QED
  BY <1>2, <1>3 DEF Product

\* A member more is a factor more.
LEMMA ProductPuts ==
  ASSUME NEW S, NEW x \in Nat \ {0}, x \notin S
  PROVE  \A k \in Nat : Product(S \cup {x})[k] =
           IF x <= k THEN Product(S)[k] * x ELSE Product(S)[k]
<1> DEFINE P == Product(S)
           T == S \cup {x}
           R == Product(T)
           V == {k \in Nat : R[k] = IF x <= k THEN P[k] * x ELSE P[k]}
<1>1. /\ P \in [Nat -> Int] /\ P[0] = 1
      /\ \A k \in Nat : P[k + 1] = IF k + 1 \in S THEN P[k] * (k + 1) ELSE P[k]
  BY ProductDef
<1>2. /\ R \in [Nat -> Int] /\ R[0] = 1
      /\ \A k \in Nat : R[k + 1] = IF k + 1 \in T THEN R[k] * (k + 1) ELSE R[k]
  <2> HIDE DEF T
  <2> QED
    BY ProductDef
<1> HIDE DEF P, R
<1>3. 0 \in V
  BY <1>1, <1>2
<1>4. ASSUME NEW k \in Nat, k \in V PROVE k + 1 \in V
  <2>1. /\ P[k] \in Int /\ R[k] \in Int
        /\ P[k + 1] = IF k + 1 \in S THEN P[k] * (k + 1) ELSE P[k]
        /\ R[k + 1] = IF k + 1 \in T THEN R[k] * (k + 1) ELSE R[k]
        /\ R[k] = IF x <= k THEN P[k] * x ELSE P[k]
    BY <1>1, <1>2, <1>4
  <2>2. CASE k + 1 = x
    <3>1. k + 1 \in T /\ k + 1 \notin S /\ ~(x <= k) /\ x <= k + 1
      BY <2>2
    <3>2. R[k + 1] = P[k + 1] * x
      BY <2>1, <2>2, <3>1
    <3> QED
      BY <3>1, <3>2
  <2>3. CASE k + 1 # x
    <3>1. (k + 1 \in T <=> k + 1 \in S) /\ (x <= k <=> x <= k + 1)
      BY <2>3
    <3>2. CASE x <= k /\ k + 1 \in S
      <4>1. (P[k] * x) * (k + 1) = (P[k] * (k + 1)) * x
        BY <2>1
      <4> QED
        BY <2>1, <3>1, <3>2, <4>1
    <3>3. CASE ~(x <= k /\ k + 1 \in S)
      BY <2>1, <3>1, <3>3
    <3> QED
      BY <3>2, <3>3
  <2> QED
    BY <2>2, <2>3
<1>5. \A k \in Nat : k \in V
  <2> HIDE DEF V
  <2> QED
    BY <1>3, <1>4, NatSets
<1> QED
  BY <1>5 DEF P, R

\* The product of no numbers.
LEMMA ProductNone == \A k \in Nat : Product({})[k] = 1
<1> DEFINE P == Product({})
           V == {k \in Nat : P[k] = 1}
<1>1. P[0] = 1 /\ \A k \in Nat : P[k + 1] = IF k + 1 \in {} THEN P[k] * (k + 1) ELSE P[k]
  BY ProductDef
<1> HIDE DEF P
<1>2. 0 \in V /\ \A k \in Nat : k \in V => k + 1 \in V
  BY <1>1
<1>3. \A k \in Nat : k \in V
  <2> HIDE DEF V
  <2> QED
    BY <1>2, NatSets
<1> QED
  BY <1>3 DEF P

\* No factor below a prime is divisible by it.
LEMMA ProductUpTo ==
  ASSUME NEW u, IsPrime(u)
  PROVE  \A k \in Nat : k < u => /\ ~Divides(u, Product(1..u-1)[k])
                                 /\ k + 1 < u => Product(1..u-1)[k + 1] = Product(1..u-1)[k] * (k + 1)
<1> DEFINE P == Product(1..u-1)
           V == {k \in Nat : k < u => ~Divides(u, P[k])}
<1>0. u \in Nat \ {0} /\ u > 1 /\ u \in Int
  BY DEF IsPrime
<1>1. /\ P \in [Nat -> Int] /\ P[0] = 1
      /\ \A k \in Nat : P[k + 1] = IF k + 1 \in 1..u-1 THEN P[k] * (k + 1) ELSE P[k]
  BY ProductDef
<1> HIDE DEF P
<1>2. \A k \in Nat : k + 1 < u => P[k + 1] = P[k] * (k + 1)
  <2> TAKE k \in Nat
  <2> HAVE k + 1 < u
  <2>1. k + 1 \in 1..u-1
    BY <1>0
  <2> QED
    BY <1>1, <2>1
<1>3. 0 \in V
  <2>1. 1 \in Int /\ -u < 1 /\ 1 < u /\ 1 # 0
    BY <1>0
  <2>2. ~Divides(u, 1)
    BY <1>0, <2>1, DividesSmall, Zenon
  <2> QED
    BY <1>1, <2>2
<1>4. ASSUME NEW k \in Nat, k \in V PROVE k + 1 \in V
  <2> SUFFICES ASSUME k + 1 < u PROVE ~Divides(u, P[k + 1])
    OBVIOUS
  <2>1. P[k + 1] = P[k] * (k + 1) /\ P[k] \in Int /\ k + 1 \in Int /\ k < u
    BY <1>0, <1>1, <1>2
  <2>2. ~Divides(u, P[k])
    BY <1>4, <2>1
  <2>3. ~Divides(u, k + 1)
    <3>1. -u < k + 1 /\ k + 1 # 0
      BY <1>0
    <3> QED
      BY <1>0, <2>1, <3>1, DividesSmall, Zenon
  <2> QED
    BY <2>1, <2>2, <2>3, PrimeDivides
<1>5. \A k \in Nat : k \in V
  <2> HIDE DEF V
  <2> QED
    BY <1>3, <1>4, NatSets
<1> QED
  BY <1>2, <1>5 DEF P

\* Fermat's theorem: multiplying the numbers below the prime by a permutes them.
LEMMA Fermat ==
  ASSUME NEW u, IsPrime(u), NEW a \in Int, ~Divides(u, a)
  PROVE  Congruent(Pow(a)[u - 1], 1, u)
<1>0. u \in Nat \ {0} /\ u > 1 /\ u \in Int /\ u - 1 \in Nat
  BY DEF IsPrime
<1> DEFINE h(i) == (a * i) % u
           Img(k) == {h(i) : i \in 1..k}
           A == Pow(a)
           F == Product(1..u-1)
<1>1. A \in [Nat -> Int] /\ A[0] = 1 /\ \A k \in Nat : A[k + 1] = A[k] * a
  BY PowDef
<1>2. /\ F \in [Nat -> Int] /\ F[0] = 1
      /\ \A k \in Nat : k + 1 < u => F[k + 1] = F[k] * (k + 1)
      /\ ~Divides(u, F[u - 1])
  <2>1. F \in [Nat -> Int] /\ F[0] = 1
    BY ProductDef
  <2>2. u - 1 < u
    BY <1>0
  <2>3. \A k \in Nat : k + 1 < u => k < u
    BY <1>0
  <2> QED
    BY <1>0, <2>1, <2>2, <2>3, ProductUpTo
<1> HIDE DEF A, F
<1>3. ASSUME NEW i \in 1..u-1
      PROVE  h(i) \in 1..u-1 /\ Congruent(a * i, h(i), u)
  <2>1. a * i \in Int
    OBVIOUS
  <2>2. h(i) \in 0..u-1 /\ Congruent(a * i, h(i), u)
    BY <1>0, <2>1, Remainder
  <2>3. ~Divides(u, i)
    <3>1. i \in Int /\ -u < i /\ i < u /\ i # 0
      BY <1>0
    <3> QED
      BY <1>0, <3>1, DividesSmall, Zenon
  <2>4. ~Divides(u, a * i)
    <3>1. i \in Int
      OBVIOUS
    <3> QED
      BY <2>3, <3>1, PrimeDivides
  <2>5. h(i) # 0
    BY <1>0, <2>1, <2>4, DividesRemainder
  <2> QED
    BY <1>0, <2>2, <2>5
<1>4. ASSUME NEW i \in 1..u-1, NEW j \in 1..u-1, h(i) = h(j) PROVE i = j
  <2>1. a * i \in Int /\ a * j \in Int /\ i - j \in Int
    OBVIOUS
  <2>2. Congruent(a * i, a * j, u)
    BY <1>0, <1>4, <2>1, SameRemainder
  <2>3. Divides(u, a * i - a * j)
    BY <1>0, <2>1, <2>2, DividesCong
  <2>4. a * i - a * j = a * (i - j)
    OBVIOUS
  <2>5. Divides(u, i - j)
    BY <2>1, <2>3, <2>4, PrimeDivides
  <2>6. -u < i - j /\ i - j < u
    BY <1>0
  <2>7. i - j = 0
    BY <1>0, <2>1, <2>5, <2>6, DividesSmall, Zenon
  <2> QED
    BY <2>7
<1>5. Img(u - 1) = 1..u-1
  <2>1. Img(u - 1) \subseteq 1..u-1
    BY <1>3
  <2>2. ASSUME NEW y \in 1..u-1 PROVE y \in Img(u - 1)
    <3>1. PICK x \in Int : Congruent(a * x, 1, u)
      BY HasInverse
    <3> DEFINE i == (x * y) % u
    <3>2. x * y \in Int /\ a * x \in Int /\ 1 \in Int /\ y \in Int
      OBVIOUS
    <3>3. i \in 0..u-1 /\ Congruent(x * y, i, u)
      BY <1>0, <3>2, Remainder
    <3> HIDE DEF i
    <3>4. i \in Int /\ a * i \in Int /\ a * (x * y) \in Int
      BY <3>3
    <3>5. Congruent(a * (x * y), a * i, u)
      BY <1>0, <3>2, <3>3, <3>4, CongRefl, CongTimes
    <3>6. Congruent((a * x) * y, 1 * y, u)
      BY <1>0, <3>1, <3>2, CongRefl, CongTimes
    <3>7. (a * x) * y = a * (x * y) /\ 1 * y = y
      OBVIOUS
    <3>8. Congruent(a * i, y, u)
      <4>1. Congruent(a * (x * y), y, u)
        BY <3>6, <3>7
      <4>2. Congruent(a * i, a * (x * y), u)
        BY <1>0, <3>4, <3>5, CongSym
      <4> QED
        BY <1>0, <3>2, <3>4, <4>1, <4>2, CongTrans
    <3>9. y \in 0..u-1
      BY <1>0
    <3>10. h(i) = y
      BY <1>0, <3>4, <3>8, <3>9, RemainderOnly
    <3>11. i # 0
      <4>1. CASE i = 0
        <5>1. a * i = 0 /\ 0 % u = 0 /\ y # 0
          BY <1>0, <4>1
        <5> QED
          BY <3>10, <5>1
      <4> QED
        BY <4>1
    <3> QED
      BY <1>0, <3>3, <3>10, <3>11
  <2> QED
    BY <2>1, <2>2
<1> DEFINE V == {k \in Nat : k < u =>
                   Congruent(Product(Img(k))[u - 1], A[k] * F[k], u)}
<1>6. 0 \in V
  <2>1. Img(0) = {}
    OBVIOUS
  <2>2. Product({})[u - 1] = 1 /\ A[0] * F[0] = 1
    BY <1>0, <1>1, <1>2, ProductNone
  <2>3. Congruent(1, 1, u)
    BY <1>0, CongRefl
  <2> QED
    BY <2>1, <2>2, <2>3
<1>7. ASSUME NEW k \in Nat, k \in V PROVE k + 1 \in V
  <2> SUFFICES ASSUME k + 1 < u
               PROVE  Congruent(Product(Img(k + 1))[u - 1], A[k + 1] * F[k + 1], u)
    OBVIOUS
  <2>1. k + 1 \in 1..u-1 /\ k < u /\ \A i \in 1..k : i \in 1..u-1 /\ i # k + 1
    BY <1>0
  <2> DEFINE x == h(k + 1)
  <2>2. x \in 1..u-1 /\ Congruent(a * (k + 1), x, u)
    BY <1>3, <2>1
  <2>3. x \notin Img(k)
    BY <1>4, <2>1
  <2>4. Img(k + 1) = Img(k) \cup {x}
    <3>1. 1..k+1 = (1..k) \cup {k + 1}
      OBVIOUS
    <3> QED
      BY <3>1
  <2> DEFINE I == Img(k)
  <2> HIDE DEF h, x, I
  <2>5. Product(I \cup {x})[u - 1] = Product(I)[u - 1] * x
    <3>1. x \in Nat \ {0} /\ x <= u - 1 /\ x \notin I
      BY <1>0, <2>2, <2>3 DEF I
    <3> QED
      BY <1>0, <3>1, ProductPuts
  <2>6. Product(I)[u - 1] \in Int
    BY <1>0, ProductDef
  <2>7. Congruent(Product(I)[u - 1], A[k] * F[k], u)
    BY <1>7, <2>1 DEF I
  <2>8. A[k] \in Int /\ F[k] \in Int /\ A[k + 1] = A[k] * a /\ F[k + 1] = F[k] * (k + 1)
    BY <1>1, <1>2
  <2>9. Congruent(x, a * (k + 1), u)
    BY <1>0, <2>2, CongSym
  <2>10. Congruent(Product(I)[u - 1] * x, (A[k] * F[k]) * (a * (k + 1)), u)
    <3> DEFINE b == A[k] * F[k]
               c == a * (k + 1)
               d == Product(I)[u - 1]
    <3>1. b \in Int /\ c \in Int /\ d \in Int /\ x \in Int
      BY <2>2, <2>6, <2>8
    <3>2. Congruent(d, b, u) /\ Congruent(x, c, u)
      BY <2>7, <2>9
    <3> HIDE DEF b, c, d
    <3>3. Congruent(d * x, b * c, u)
      BY <1>0, <3>1, <3>2, CongTimes
    <3> QED
      BY <3>3 DEF b, c, d
  <2>11. (A[k] * F[k]) * (a * (k + 1)) = (A[k] * a) * (F[k] * (k + 1))
    <3> DEFINE b == A[k]
               c == F[k]
               d == k + 1
    <3>1. b \in Int /\ c \in Int /\ d \in Int
      BY <2>8
    <3> HIDE DEF b, c, d
    <3>2. (b * c) * (a * d) = (b * a) * (c * d)
      BY <3>1
    <3> QED
      BY <3>2 DEF b, c, d
  <2> QED
    BY <2>4, <2>5, <2>8, <2>10, <2>11 DEF I
<1>8. u - 1 \in V
  <2>1. \A k \in Nat : k \in V
    <3> HIDE DEF V
    <3> QED
      BY <1>6, <1>7, NatSets
  <2> QED
    BY <1>0, <2>1
<1>9. Congruent(F[u - 1], A[u - 1] * F[u - 1], u)
  <2>1. u - 1 < u
    BY <1>0
  <2> QED
    BY <1>5, <1>8, <2>1 DEF F
<1>10. A[u - 1] \in Int /\ F[u - 1] \in Int
  BY <1>0, <1>1, <1>2
<1> DEFINE b == A[u - 1]
           c == F[u - 1]
           d == b * c
<1>11. b \in Int /\ c \in Int /\ d \in Int /\ d - c = (b - 1) * c
  BY <1>10
<1>12. Divides(u, (b - 1) * c)
  <2>1. Congruent(c, d, u)
    BY <1>9
  <2> HIDE DEF b, c, d
  <2>2. Congruent(d, c, u)
    BY <1>0, <1>11, <2>1, CongSym
  <2>3. Divides(u, d - c)
    BY <1>0, <1>11, <2>2, DividesCong
  <2> QED
    BY <1>11, <2>3
<1>13. Divides(u, b - 1)
  <2>1. b - 1 \in Int /\ c \in Int
    BY <1>11
  <2>2. ~Divides(u, c)
    BY <1>2
  <2> HIDE DEF b, c
  <2> QED
    BY <1>12, <2>1, <2>2, PrimeDivides
<1>14. Congruent(b, 1, u)
  <2>1. b \in Int /\ 1 \in Int
    BY <1>11
  <2> HIDE DEF b
  <2> QED
    BY <1>0, <1>13, <2>1, DividesCong, Zenon
<1> QED
  BY <1>14 DEF A

\* Near a number s its powers are near those of s, modulo a square.
LEMMA PowNear ==
  ASSUME NEW m \in Int, NEW s \in Int, NEW x \in Int
  PROVE  \A k \in Nat :
           Congruent(Pow(s + m * x)[k + 1],
                     Pow(s)[k + 1] + ((k + 1) * (m * x)) * Pow(s)[k], m * m)
<1> DEFINE b == s + m * x
           P == Pow(b)
           Q == Pow(s)
           V == {j \in Nat : Congruent(P[j + 1], Q[j + 1] + ((j + 1) * (m * x)) * Q[j], m * m)}
<1>1. b \in Int
  OBVIOUS
<1>2. P \in [Nat -> Int] /\ P[0] = 1 /\ \A k \in Nat : P[k + 1] = P[k] * b
  <2> HIDE DEF b
  <2> QED
    BY <1>1, PowDef
<1>3. Q \in [Nat -> Int] /\ Q[0] = 1 /\ \A k \in Nat : Q[k + 1] = Q[k] * s
  BY PowDef
<1> HIDE DEF P, Q
<1>4. 0 \in V
  <2>1. P[0 + 1] = b /\ Q[0 + 1] = s /\ Q[0] = 1
    BY <1>1, <1>2, <1>3
  <2>2. s + ((0 + 1) * (m * x)) * 1 = b
    OBVIOUS
  <2>3. m * m \in Int
    OBVIOUS
  <2> HIDE DEF b
  <2>4. Congruent(b, b, m * m)
    BY <1>1, <2>3, CongRefl
  <2> QED
    BY <2>1, <2>2, <2>4
<1>5. ASSUME NEW j \in Nat, j \in V PROVE j + 1 \in V
  <2> DEFINE c == Q[j]
  <2>1. c \in Int
    BY <1>3
  <2>2. PICK z \in Int :
          P[j + 1] = (Q[j + 1] + ((j + 1) * (m * x)) * c) + z * (m * m)
    BY <1>5 DEF Congruent
  <2>3. /\ Q[j + 1] = c * s /\ Q[(j + 1) + 1] = (c * s) * s
        /\ P[(j + 1) + 1] = P[j + 1] * b
    BY <1>2, <1>3
  <2>4. P[(j + 1) + 1] = ((c * s + ((j + 1) * (m * x)) * c) + z * (m * m)) * (s + m * x)
    BY <2>2, <2>3
  <2> DEFINE w == (j + 1) * (x * x) * c + z * (s + m * x)
  <2> HIDE DEF c, P, Q
  <2>5. w \in Int
    BY <2>1
  <2>6. ((c * s + ((j + 1) * (m * x)) * c) + z * (m * m)) * (s + m * x)
          = ((c * s) * s + (((j + 1) + 1) * (m * x)) * (c * s)) + w * (m * m)
    BY <2>1
  <2> HIDE DEF w
  <2>7. P[(j + 1) + 1] =
          (Q[(j + 1) + 1] + (((j + 1) + 1) * (m * x)) * Q[j + 1]) + w * (m * m)
    BY <2>3, <2>4, <2>6
  <2> QED
    BY <2>5, <2>7 DEF Congruent
<1>6. \A j \in Nat : j \in V
  <2> HIDE DEF V
  <2> QED
    BY <1>4, <1>5, NatSets
<1> QED
  BY <1>6 DEF P, Q

-----------------------------------------------------------------------------
\* The greatest common divisor.
LEMMA GcdIs ==
  ASSUME NEW a \in Int, NEW b \in Nat \ {0}
  PROVE  /\ GCD(a, b) \in 1..b /\ Divides(GCD(a, b), a) /\ Divides(GCD(a, b), b)
         /\ \A d \in 1..b : Divides(d, a) /\ Divides(d, b) => d <= GCD(a, b)
<1> DEFINE S == {d \in 1..b : a % d = 0 /\ b % d = 0}
           D == {b - d : d \in S}
<1>1. 1 \in S
  <2>1. Divides(1, a) /\ Divides(1, b)
    <3>1. a = a * 1 /\ b = b * 1 /\ b \in Int
      OBVIOUS
    <3> QED
      BY <3>1 DEF Divides
  <2>2. 1 \in Nat \ {0} /\ b \in Int
    OBVIOUS
  <2>3. a % 1 = 0 /\ b % 1 = 0
    BY <2>1, <2>2, DividesRemainder, Zenon
  <2>4. 1 \in 1..b
    OBVIOUS
  <2> QED
    BY <2>3, <2>4
<1>2. D \in SUBSET Nat /\ D # {}
  BY <1>1
<1>3. PICK y \in D : \A z \in D : y <= z
  <2> HIDE DEF D
  <2> QED
    BY <1>2, Least
<1>4. PICK x \in S : y = b - x
  OBVIOUS
<1>5. ASSUME NEW d \in S PROVE x >= d
  <2>1. b - d \in D /\ d \in Int /\ x \in Int
    OBVIOUS
  <2>2. b - x <= b - d
    BY <1>3, <1>4, <2>1
  <2> QED
    BY <2>1, <2>2
<1>6. Max(S) \in S /\ \A d \in S : Max(S) >= d
  <2> HIDE DEF S
  <2> QED
    BY <1>5 DEF Max
<1>7. GCD(a, b) = Max(S)
  BY DEF GCD
<1>8. \A d \in 1..b : d \in Nat \ {0} /\ (d \in S <=> Divides(d, a) /\ Divides(d, b))
  <2> TAKE d \in 1..b
  <2>1. d \in Nat \ {0} /\ b \in Int
    OBVIOUS
  <2>2. (Divides(d, a) <=> a % d = 0) /\ (Divides(d, b) <=> b % d = 0)
    BY <2>1, DividesRemainder
  <2> QED
    BY <2>1, <2>2
<1> QED
  <2> DEFINE e == Max(S)
  <2>1. S \subseteq 1..b
    OBVIOUS
  <2> HIDE DEF S
  <2>2. e \in 1..b /\ e \in S /\ \A d \in S : d <= e
    BY <1>6, <2>1
  <2> HIDE DEF e
  <2>3. \A d \in 1..b : Divides(d, a) /\ Divides(d, b) => d <= e
    BY <1>8, <2>2
  <2> QED
    BY <1>7, <1>8, <2>2, <2>3 DEF e

\* A prime has no divisor but 1 and itself.
LEMMA PrimeDivisor ==
  ASSUME NEW u, IsPrime(u), NEW d \in Nat \ {0}, Divides(d, u)
  PROVE  d = 1 \/ d = u
<1>1. u \in Nat /\ u > 1 /\ u \in Int
  BY DEF IsPrime
<1>2. u % d = 0
  BY <1>1, DividesRemainder
<1>3. d <= u
  <2>1. -d < u /\ u # 0
    BY <1>1
  <2>2. ~(u < d)
    BY <1>1, <2>1, DividesSmall
  <2> QED
    BY <1>1, <2>2
<1> QED
  BY <1>1, <1>2, <1>3 DEF IsPrime

\* What two different primes divide, their product divides.
LEMMA BothDivide ==
  ASSUME NEW u, IsPrime(u), NEW w, IsPrime(w), u # w, NEW a \in Int,
         Divides(u, a), Divides(w, a)
  PROVE  Divides(u * w, a)
<1>1. u \in Nat \ {0} /\ w \in Nat \ {0} /\ u > 1 /\ w > 1
  BY DEF IsPrime
<1>2. PICK k \in Int : a = k * u
  BY DEF Divides
<1>3. ~Divides(w, u)
  BY <1>1, PrimeDivisor
<1>4. Divides(w, k)
  BY <1>1, <1>2, <1>3, PrimeDivides
<1>5. PICK l \in Int : k = l * w
  BY <1>4 DEF Divides
<1>6. a = (l * w) * u /\ (l * w) * u = l * (u * w)
  BY <1>1, <1>2, <1>5
<1> QED
  BY <1>6 DEF Divides

\* A number has no divisor in common with a product of two primes exactly if
\* neither prime divides it.
LEMMA CoprimeIs ==
  ASSUME NEW u, IsPrime(u), NEW w, IsPrime(w), NEW a \in Int
  PROVE  GCD(a, u * w) = 1 <=> ~Divides(u, a) /\ ~Divides(w, a)
<1> DEFINE m == u * w
           d == GCD(a, m)
<1>1. u \in Nat \ {0} /\ w \in Nat \ {0} /\ u > 1 /\ w > 1
  BY DEF IsPrime
<1>2. m \in Nat \ {0} /\ u \in 1..m /\ w \in 1..m /\ Divides(u, m) /\ Divides(w, m)
  <2>1. m \in Nat \ {0} /\ u <= m /\ w <= m
    <3>1. u * w = (u - 1) * (w - 1) + (u - 1) + (w - 1) + 1 /\ (u - 1) * (w - 1) \in Nat
      BY <1>1
    <3> QED
      BY <1>1, <3>1
  <2>2. m = w * u /\ m = u * w
    BY <1>1
  <2> QED
    BY <1>1, <2>1, <2>2 DEF Divides
<1> HIDE DEF m
<1>3. /\ d \in 1..m /\ Divides(d, a) /\ Divides(d, m)
      /\ \A e \in 1..m : Divides(e, a) /\ Divides(e, m) => e <= d
  BY <1>2, GcdIs
<1> HIDE DEF d
<1>4. d = 1 => ~Divides(u, a) /\ ~Divides(w, a)
  BY <1>1, <1>2, <1>3
<1>5. ASSUME ~Divides(u, a), ~Divides(w, a) PROVE d = 1
  <2>1. d \in Int /\ d \in Nat \ {0}
    BY <1>3
  <2>2. PICK k \in Int : a = k * d
    BY <1>3 DEF Divides
  <2>3. PICK e \in Int : m = e * d
    BY <1>3 DEF Divides
  <2>4. ~Divides(u, d) /\ ~Divides(w, d)
    <3>1. u \in Int /\ w \in Int
      BY <1>1
    <3>2. (Divides(u, d) => Divides(u, k * d)) /\ (Divides(w, d) => Divides(w, k * d))
      BY <2>1, <3>1, DividesTimes, Zenon
    <3> QED
      BY <1>5, <2>2, <3>2
  <2>5. Divides(u, e)
    BY <1>2, <2>1, <2>3, <2>4, PrimeDivides
  <2>6. PICK l \in Int : e = l * u
    BY <2>5 DEF Divides
  <2>7. w = l * d
    <3>1. u * w = u * (l * d)
      BY <1>1, <2>1, <2>3, <2>6 DEF m
    <3>2. l * d \in Int
      BY <2>1
    <3> DEFINE z == l * d
    <3> HIDE DEF z
    <3>3. u * w = u * z /\ z \in Int
      BY <3>1, <3>2 DEF z
    <3>4. w = z
      BY <1>1, <3>3
    <3> QED
      BY <3>4 DEF z
  <2>8. Divides(d, w)
    BY <2>7 DEF Divides
  <2>9. d = 1 \/ d = w
    BY <2>1, <2>8, PrimeDivisor
  <2>10. Divides(w, w)
    <3>1. w = 1 * w
      BY <1>1
    <3> QED
      BY <3>1 DEF Divides
  <2> QED
    BY <2>4, <2>9, <2>10
<1> QED
  BY <1>4, <1>5 DEF d, m

\* The quotient that makes lambda is a multiple of either factor.
LEMMA QuotientIs ==
  ASSUME NEW a \in Nat \ {0}, NEW b \in Nat \ {0}
  PROVE  \E c, d \in Nat : (a * b) \div GCD(a, b) = a * c /\ (a * b) \div GCD(a, b) = b * d
<1> DEFINE e == GCD(a, b)
<1>1. e \in Nat \ {0} /\ Divides(e, a) /\ Divides(e, b)
  <2>1. a \in Int
    OBVIOUS
  <2> QED
    BY <2>1, GcdIs
<1> HIDE DEF e
<1>2. PICK d \in Int : a = d * e
  BY <1>1 DEF Divides
<1>3. PICK c \in Int : b = c * e
  BY <1>1 DEF Divides
<1>4. \A z \in Int : z * e > 0 => z \in Nat
  <2> TAKE z \in Int
  <2> HAVE z * e > 0
  <2> SUFFICES ASSUME z < 0 PROVE FALSE
    OBVIOUS
  <2>1. -z \in Nat /\ z * e = -((-z) * e) /\ (-z) * e >= 0
    BY <1>1
  <2>2. (-z) * e \in Int /\ z * e \in Int
    BY <1>1
  <2> QED
    BY <2>1, <2>2
<1>5. c \in Nat /\ d \in Nat
  BY <1>2, <1>3, <1>4
<1>6. a * b = (a * c) * e /\ a * b = (b * d) * e
  BY <1>1, <1>2, <1>3
<1>7. \A z \in Nat : (z * e) \div e = z
  BY <1>1
<1>8. a * c \in Nat /\ b * d \in Nat
  BY <1>5
<1>9. (a * b) \div e = a * c /\ (a * b) \div e = b * d
  BY <1>6, <1>7, <1>8
<1> QED
  BY <1>5, <1>9 DEF e
-----------------------------------------------------------------------------
(* The operations of the scheme.                                           *)

\* What Init draws.
KeysOk == IsPrime(p) /\ IsPrime(q) /\ p # q /\ GCD(lambda, n) = 1

\* The numbers of keyGeneration, and that lambda is a multiple of both p - 1 and q - 1.
LEMMA Numbers ==
  ASSUME KeysOk
  PROVE  /\ p \in Nat /\ p > 1 /\ q \in Nat /\ q > 1
         /\ n \in Nat \ {0} /\ n > 1 /\ n * n \in Nat \ {0}
         /\ Divides(p, n) /\ Divides(q, n)
         /\ lambda \in Nat
         /\ \E c, d \in Nat : lambda = (p - 1) * c /\ lambda = (q - 1) * d
<1>1. p \in Nat /\ p > 1 /\ q \in Nat /\ q > 1
  BY DEF KeysOk, IsPrime
<1>2. n \in Nat \ {0} /\ n > 1
  <2>1. p * q = (p - 1) * (q - 1) + (p - 1) + (q - 1) + 1 /\ (p - 1) * (q - 1) \in Nat
    BY <1>1
  <2> QED
    BY <1>1, <2>1 DEF n
<1>3. n * n \in Nat \ {0}
  BY <1>2
<1>4. n = q * p /\ n = p * q
  BY <1>1 DEF n
<1>5. Divides(p, n) /\ Divides(q, n)
  BY <1>1, <1>4 DEF Divides
<1>6. p - 1 \in Nat \ {0} /\ q - 1 \in Nat \ {0}
  BY <1>1
<1>7. PICK c, d \in Nat : lambda = (p - 1) * c /\ lambda = (q - 1) * d
  BY <1>6, QuotientIs DEF lambda, phi
<1>8. lambda \in Nat
  BY <1>6, <1>7
<1> QED
  BY <1>1, <1>2, <1>3, <1>5, <1>7, <1>8

\* A unit modulo n is a number that neither prime divides.
LEMMA UnitIs ==
  ASSUME KeysOk, NEW r \in Int
  PROVE  Unit(r) <=> ~Divides(p, r) /\ ~Divides(q, r)
BY CoprimeIs DEF KeysOk, Unit, n

\* PowerMod is the power's remainder.
LEMMA PowerModIs ==
  ASSUME NEW b \in Int, NEW e \in Nat, NEW m \in Nat \ {0}
  PROVE  PowerMod(b, e, m) = Pow(b)[e] % m
<1> DEFINE P == Pow(b)
<1>1. P \in [Nat -> Int] /\ P[0] = 1 /\ \A k \in Nat : P[k + 1] = P[k] * b
  BY PowDef
<1> HIDE DEF P
<1> DEFINE f == [k \in 0..e |-> P[k] % m]
           step == [k \in 0..e |-> IF k = 0 THEN 1 % m ELSE (f[k-1] * b) % m]
           c == CHOOSE pow : pow = [k \in 0..e |-> IF k = 0 THEN 1 % m
                                                   ELSE (pow[k-1] * b) % m]
<1>2. ASSUME NEW k \in 0..e PROVE f[k] = step[k]
  <2>1. CASE k = 0
    BY <1>1, <2>1
  <2>2. CASE k # 0
    <3> DEFINE a == P[k-1]
               d == a % m
    <3>1. k - 1 \in 0..e /\ k - 1 \in Nat /\ (k - 1) + 1 = k
      BY <2>2
    <3>2. a \in Int /\ P[k] = a * b /\ f[k-1] = d /\ d = a % m
      BY <1>1, <3>1
    <3> HIDE DEF a, d
    <3>3. d \in Int /\ Congruent(a, d, m)
      BY <3>2, Leaves
    <3>4. Congruent(a * b, d * b, m)
      <4>1. m \in Int /\ Congruent(b, b, m)
        BY CongRefl
      <4> QED
        BY <3>2, <3>3, <4>1, CongTimes, Zenon
    <3>5. (a * b) % m = (d * b) % m
      <4>1. a * b \in Int /\ d * b \in Int
        BY <3>2, <3>3
      <4> QED
        BY <3>4, <4>1, SameRemainder, Zenon
    <3>6. f[k] = P[k] % m /\ step[k] = (f[k-1] * b) % m
      BY <2>2
    <3> HIDE DEF f, step
    <3> QED
      BY <3>2, <3>5, <3>6
  <2> QED
    BY <2>1, <2>2
<1>3. f = step
  BY <1>2
<1>4. c = [k \in 0..e |-> IF k = 0 THEN 1 % m ELSE (c[k-1] * b) % m]
  BY <1>3
<1>5. \A k \in 0..e : c[k] = IF k = 0 THEN 1 % m ELSE (c[k-1] * b) % m
  <2> HIDE DEF c
  <2> QED
    BY <1>4
<1>6. \A k \in 0..e : f[k] = IF k = 0 THEN 1 % m ELSE (f[k-1] * b) % m
  <2>1. \A k \in 0..e : step[k] = IF k = 0 THEN 1 % m ELSE (f[k-1] * b) % m
    <3> HIDE DEF f
    <3> QED
      OBVIOUS
  <2> HIDE DEF f, step
  <2> QED
    BY <1>3, <2>1
<1>7. f[e] = P[e] % m
  OBVIOUS
<1>8. PowerMod(b, e, m) = c[e]
  BY DEF PowerMod
<1> HIDE DEF c, f, step
<1> DEFINE V == {k \in Nat : k <= e => c[k] = f[k]}
<1>9. 0 \in V
  BY <1>5, <1>6
<1>10. ASSUME NEW k \in Nat, k \in V PROVE k + 1 \in V
  <2> SUFFICES ASSUME k + 1 <= e PROVE c[k + 1] = f[k + 1]
    OBVIOUS
  <2>1. k + 1 \in 0..e /\ k + 1 # 0 /\ (k + 1) - 1 = k /\ c[k] = f[k]
    BY <1>10
  <2> QED
    BY <1>5, <1>6, <2>1
<1>11. \A k \in Nat : k \in V
  <2> HIDE DEF V
  <2> QED
    BY <1>9, <1>10, NatSets
<1>12. c[e] = f[e]
  BY <1>11
<1> QED
  BY <1>7, <1>8, <1>12 DEF P

\* A ciphertext as a product of powers.
Cipher(m, r) == Pow(g)[m] * Pow(r)[n]

\* What encryptNumber returns is the remainder of that product.
LEMMA EncryptIs ==
  ASSUME KeysOk, NEW m \in Nat, NEW r \in Int
  PROVE  /\ Cipher(m, r) \in Int
         /\ encryptNumber(m, r) = Cipher(m, r) % (n * n)
<1> DEFINE N == n * n
           a == Pow(g)[m]
           b == Pow(r)[n]
           c == a % N
           d == b % N
<1>1. N \in Nat \ {0} /\ g \in Int /\ n \in Nat
  BY Numbers DEF g
<1>2. a \in Int /\ b \in Int
  BY <1>1, PowDef
<1>3. encryptNumber(m, r) = (c * d) % N
  <2> HIDE DEF N
  <2>1. PowerMod(g, m, N) = c /\ PowerMod(r, n, N) = d
    BY <1>1, PowerModIs
  <2> QED
    BY <2>1 DEF encryptNumber, N
<1>3a. c = a % N /\ d = b % N
  OBVIOUS
<1> HIDE DEF N, a, b, c, d
<1>4. c \in Int /\ d \in Int /\ Congruent(a, c, N) /\ Congruent(b, d, N)
  BY <1>1, <1>2, <1>3a, Leaves
<1>5. Congruent(a * b, c * d, N) /\ a * b \in Int /\ c * d \in Int
  BY <1>1, <1>2, <1>4, CongTimes
<1>6. (a * b) % N = (c * d) % N
  BY <1>1, <1>5, SameRemainder
<1> QED
  BY <1>3, <1>5, <1>6 DEF Cipher, N, a, b

\* The factor matters modulo n only.
LEMMA FactorIs ==
  ASSUME KeysOk, NEW r \in Int
  PROVE  Congruent(Pow(r)[n], Pow(r % n)[n], n * n)
<1> DEFINE s == r % n
<1>1. n \in Nat \ {0} /\ n \in Int /\ n * n \in Int
  BY Numbers
<1>2. s \in Int /\ Congruent(r, s, n)
  BY <1>1, Remainder
<1> HIDE DEF s
<1>3. PICK x \in Int : r = s + x * n
  BY <1>2 DEF Congruent
<1>4. r = s + n * x
  BY <1>1, <1>2, <1>3
<1>5. n - 1 \in Nat /\ (n - 1) + 1 = n
  BY <1>1
<1>6. Congruent(Pow(s + n * x)[(n - 1) + 1],
                Pow(s)[(n - 1) + 1] + (((n - 1) + 1) * (n * x)) * Pow(s)[n - 1], n * n)
  BY <1>1, <1>2, <1>5, PowNear
<1> DEFINE a == Pow(r)[n]
           b == Pow(s)[n]
           c == Pow(s)[n - 1]
<1>7. a \in Int /\ b \in Int /\ c \in Int
  BY <1>1, <1>2, <1>5, PowDef
<1>8. Congruent(a, b + (n * (n * x)) * c, n * n)
  BY <1>4, <1>5, <1>6
<1> HIDE DEF a, b, c
<1>9. PICK k \in Int : a = (b + (n * (n * x)) * c) + k * (n * n)
  BY <1>8 DEF Congruent
<1>10. a = b + (x * c + k) * (n * n) /\ x * c + k \in Int
  BY <1>1, <1>7, <1>9
<1> QED
  BY <1>10 DEF Congruent, a, b, s

\* The product of two encryptions encrypts the sum.
LEMMA Homomorphic ==
  ASSUME KeysOk, NEW m \in Nat, NEW l \in Nat, NEW r \in Int, NEW s \in Int
  PROVE  (encryptNumber(m, r) * encryptNumber(l, s)) % (n * n)
           = encryptNumber(m + l, (r * s) % n)
<1> DEFINE N == n * n
           t == (r * s) % n
           c == encryptNumber(m, r)
           d == encryptNumber(l, s)
           C == Cipher(m, r)
           D == Cipher(l, s)
           F == Cipher(m + l, t)
<1>1. N \in Nat \ {0} /\ g \in Int /\ n \in Nat \ {0} /\ n \in Nat
  BY Numbers DEF g
<1>2. r * s \in Int /\ t \in Int /\ m + l \in Nat
  BY <1>1, Remainder
<1>3. /\ C \in Int /\ D \in Int /\ F \in Int
      /\ c = C % N /\ d = D % N /\ encryptNumber(m + l, t) = F % N
  <2> HIDE DEF t
  <2> QED
    BY <1>2, EncryptIs
<1>4. Congruent(C * D, F, N)
  <2> DEFINE a == Pow(g)[m]
             b == Pow(g)[l]
             x == Pow(r)[n]
             y == Pow(s)[n]
             z == Pow(t)[n]
             w == Pow(r * s)[n]
  <2>1. a \in Int /\ b \in Int /\ x \in Int /\ y \in Int
    BY <1>1, PowDef
  <2>2. Pow(g)[m + l] = a * b
    BY <1>1, PowPlus
  <2>3. w = x * y
    BY <1>1, PowProduct
  <2>4. Congruent(w, z, N) /\ w \in Int /\ z \in Int
    <3> HIDE DEF t
    <3>1. w \in Int /\ z \in Int
      BY <1>1, <1>2, PowDef
    <3> QED
      BY <1>2, <3>1, FactorIs DEF t
  <2>5. C = a * x /\ D = b * y /\ F = (a * b) * z
    BY <2>2 DEF Cipher
  <2> HIDE DEF a, b, x, y, z, w, C, D, F, N
  <2>6. a * b \in Int /\ Congruent(a * b, a * b, N)
    BY <1>1, <2>1, CongRefl
  <2>7. Congruent((a * b) * w, (a * b) * z, N)
    BY <1>1, <2>4, <2>6, CongTimes
  <2>8. (a * x) * (b * y) = (a * b) * (x * y)
    BY <2>1
  <2> QED
    BY <2>3, <2>5, <2>7, <2>8
<1> HIDE DEF C, D, F, N, c, d
<1>5. Congruent(C, c, N) /\ Congruent(D, d, N) /\ c \in Int /\ d \in Int
  BY <1>1, <1>3, Leaves
<1>6. Congruent(c * d, F, N) /\ c * d \in Int
  <2>1. c * d \in Int /\ C * D \in Int
    BY <1>3, <1>5
  <2>2. Congruent(C * D, c * d, N)
    BY <1>1, <1>3, <1>5, CongTimes
  <2>3. Congruent(c * d, C * D, N)
    BY <1>1, <2>1, <2>2, CongSym
  <2> QED
    BY <1>1, <1>3, <1>4, <2>1, <2>3, CongTrans
<1>7. (c * d) % N = F % N
  BY <1>1, <1>3, <1>6, SameRemainder
<1> QED
  BY <1>3, <1>7 DEF c, d, N, t

\* A prime of the key divides a ciphertext exactly if it divides the factor.
LEMMA EncryptDivides ==
  ASSUME KeysOk, NEW u \in {p, q}, NEW m \in Nat, NEW r \in Int
  PROVE  /\ encryptNumber(m, r) \in Int
         /\ Divides(u, encryptNumber(m, r)) <=> Divides(u, r)
<1> DEFINE N == n * n
           c == encryptNumber(m, r)
           C == Cipher(m, r)
           a == Pow(g)[m]
           b == Pow(r)[n]
<1>1. /\ N \in Nat \ {0} /\ g \in Int /\ n \in Nat \ {0} /\ n \in Nat
      /\ u \in Nat \ {0} /\ u \in Int /\ u > 1 /\ IsPrime(u) /\ Divides(u, n)
  BY Numbers DEF g, KeysOk
<1>2. C \in Int /\ c = C % N
  BY EncryptIs
<1>3. a \in Int /\ b \in Int /\ C = a * b
  BY <1>1, PowDef DEF Cipher
<1>4. Divides(u, N)
  BY <1>1, DividesTimes
<1> HIDE DEF N, c, C
<1>5. c \in Int /\ Congruent(C, c, N)
  BY <1>1, <1>2, Leaves
<1>6. Congruent(C, c, u)
  <2>1. PICK k \in Int : C = c + k * N
    BY <1>5 DEF Congruent
  <2>2. PICK l \in Int : N = l * u
    BY <1>4 DEF Divides
  <2>3. C = c + (k * l) * u /\ k * l \in Int
    BY <1>1, <1>5, <2>1, <2>2
  <2> QED
    BY <2>3 DEF Congruent
<1>7. Divides(u, C) <=> Divides(u, c)
  BY <1>1, <1>2, <1>5, <1>6, DividesBoth
<1>8. ~Divides(u, a)
  <2>1. ~Divides(u, g)
    <3>1. Congruent(g, 1, u)
      <4>1. PICK k \in Int : n = k * u
        BY <1>1 DEF Divides
      <4>2. g = 1 + k * u
        BY <1>1, <4>1 DEF g
      <4> QED
        BY <4>2 DEF Congruent
    <3>2. 1 \in Int /\ -u < 1 /\ 1 < u /\ 1 # 0
      BY <1>1
    <3>3. ~Divides(u, 1)
      BY <1>1, <3>2, DividesSmall, Zenon
    <3> QED
      BY <1>1, <3>1, <3>2, <3>3, DividesBoth, Zenon
  <2> QED
    BY <1>1, <2>1, PrimeDividesPow
<1>9. Divides(u, b) <=> Divides(u, r)
  BY <1>1, PrimeDividesPow
<1> HIDE DEF a, b
<1>10. Divides(u, a * b) <=> Divides(u, b)
  BY <1>1, <1>3, <1>8, PrimeDivides, DividesTimes
<1> QED
  BY <1>3, <1>5, <1>7, <1>9, <1>10 DEF c

\* lambda makes every unit 1 modulo n, and with n modulo its square.
LEMMA Order ==
  ASSUME KeysOk, NEW r \in Int, Unit(r)
  PROVE  Congruent(Pow(r)[n * lambda], 1, n * n)
<1> DEFINE a == Pow(r)[lambda]
<1>1. /\ n \in Nat \ {0} /\ n \in Nat /\ n \in Int /\ n * n \in Int /\ lambda \in Nat
      /\ p \in Int /\ q \in Int /\ p - 1 \in Nat /\ q - 1 \in Nat
  BY Numbers
<1>2. PICK c, d \in Nat : lambda = (p - 1) * c /\ lambda = (q - 1) * d
  BY Numbers
<1>3. a \in Int
  BY <1>1, PowDef
<1>4. ASSUME NEW u \in {p, q}, NEW k \in Nat, lambda = (u - 1) * k
      PROVE  Divides(u, a - 1)
  <2> DEFINE b == Pow(r)[u - 1]
  <2>1. IsPrime(u) /\ ~Divides(u, r) /\ u \in Int /\ u - 1 \in Nat
    BY <1>1, UnitIs DEF KeysOk
  <2>2. Congruent(b, 1, u) /\ b \in Int
    BY <2>1, Fermat, PowDef
  <2>3. a = Pow(b)[k]
    BY <1>4, <2>1, PowTimes
  <2> HIDE DEF b
  <2>4. Congruent(Pow(b)[k], Pow(1)[k], u)
    <3>1. 1 \in Int
      OBVIOUS
    <3> QED
      BY <2>1, <2>2, <3>1, CongPow, Zenon
  <2>5. Congruent(a, 1, u)
    BY <2>3, <2>4, PowOne
  <2> HIDE DEF a
  <2>6. 1 \in Int
    OBVIOUS
  <2> QED
    BY <1>3, <2>1, <2>5, <2>6, DividesCong, Zenon
<1>5. Divides(p, a - 1) /\ Divides(q, a - 1)
  BY <1>2, <1>4
<1>6. Divides(n, a - 1)
  <2>1. a - 1 \in Int
    BY <1>3
  <2> QED
    BY <1>5, <2>1, BothDivide DEF KeysOk, n
<1>7. PICK k \in Int : a - 1 = k * n
  BY <1>6 DEF Divides
<1>8. a = 1 + n * k
  BY <1>1, <1>3, <1>7
<1> DEFINE b == Pow(r)[n * lambda]
<1>9. b = Pow(1 + n * k)[n]
  <2>1. n * lambda = lambda * n
    BY <1>1
  <2>2. Pow(r)[lambda * n] = Pow(Pow(r)[lambda])[n]
    BY <1>1, PowTimes
  <2> QED
    BY <1>8, <2>1, <2>2
<1>10. n - 1 \in Nat /\ (n - 1) + 1 = n /\ 1 \in Int
  BY <1>1
<1>11. Congruent(Pow(1 + n * k)[(n - 1) + 1],
                 Pow(1)[(n - 1) + 1] + (((n - 1) + 1) * (n * k)) * Pow(1)[n - 1], n * n)
  BY <1>1, <1>10, PowNear
<1>12. Congruent(b, 1 + (n * (n * k)) * 1, n * n)
  BY <1>1, <1>9, <1>10, <1>11, PowOne
<1> HIDE DEF b
<1>13. PICK l \in Int : b = (1 + (n * (n * k)) * 1) + l * (n * n)
  BY <1>12 DEF Congruent
<1>14. b = 1 + (k + l) * (n * n) /\ k + l \in Int
  BY <1>1, <1>13
<1> QED
  BY <1>14 DEF Congruent, b

\* The inverse is one.
LEMMA InverseIs ==
  ASSUME KeysOk
  PROVE  lambdaInverse \in Int /\ Congruent(lambda * lambdaInverse, 1, n)
<1>1. /\ n \in Nat \ {0} /\ n > 1 /\ n \in Int /\ lambda \in Nat /\ lambda \in Int
      /\ p \in Int /\ q \in Int
  BY Numbers
<1>2. ~Divides(p, lambda) /\ ~Divides(q, lambda)
  BY <1>1, CoprimeIs DEF KeysOk, n
<1>3. PICK x \in Int : Congruent(lambda * x, 1, p)
  BY <1>1, <1>2, HasInverse DEF KeysOk
<1>4. PICK y \in Int : Congruent(lambda * y, 1, q)
  BY <1>1, <1>2, HasInverse DEF KeysOk
<1>5. PICK k \in Int : lambda * x = 1 + k * p
  BY <1>3 DEF Congruent
<1>6. PICK l \in Int : lambda * y = 1 + l * q
  BY <1>4 DEF Congruent
<1> DEFINE z == x + y - (lambda * x) * y
           w == z % n
<1>7. lambda * z = 1 + (-(k * l)) * n
  <2> DEFINE b == lambda * x
             c == lambda * y
  <2>1. lambda * z = b + c - b * c
    BY <1>1
  <2>2. b + c - b * c = 1 - (b - 1) * (c - 1)
    BY <1>1
  <2>3. b - 1 = k * p /\ c - 1 = l * q
    BY <1>1, <1>5, <1>6
  <2>4. (k * p) * (l * q) = (k * l) * (p * q)
    BY <1>1
  <2> HIDE DEF z, b, c
  <2>5. lambda * z = 1 - (k * l) * (p * q)
    BY <2>1, <2>2, <2>3, <2>4
  <2>6. 1 - (k * l) * n = 1 + (-(k * l)) * n
    BY <1>1
  <2> QED
    BY <2>5, <2>6 DEF n
<1>8. z \in Int /\ -(k * l) \in Int
  BY <1>1
<1> HIDE DEF z
<1>9. w \in 0..n-1 /\ Congruent(z, w, n)
  BY <1>1, <1>8, Remainder
<1> HIDE DEF w
<1>10. Congruent(lambda * z, 1, n)
  BY <1>7, <1>8 DEF Congruent
<1>11. lambda * w \in Int /\ lambda * z \in Int /\ w \in Int
  BY <1>1, <1>8, <1>9
<1>12. Congruent(lambda * z, lambda * w, n)
  BY <1>1, <1>8, <1>9, <1>11, CongRefl, CongTimes
<1>13. Congruent(lambda * w, 1, n)
  <2>1. Congruent(lambda * w, lambda * z, n) /\ 1 \in Int
    BY <1>1, <1>11, <1>12, CongSym
  <2> QED
    BY <1>1, <1>10, <1>11, <2>1, CongTrans, Zenon
<1>14. (lambda * w) % n = 1
  <2>1. 1 \in 0..n-1
    BY <1>1
  <2> QED
    BY <1>1, <1>11, <1>13, <2>1, RemainderOnly
<1>15. w # 0
  <2>1. CASE w = 0
    <3>1. lambda * w = 0 /\ 0 % n = 0
      BY <1>1, <2>1
    <3> QED
      BY <1>14, <3>1
  <2> QED
    BY <2>1
<1>16. w \in 1..n-1
  BY <1>1, <1>9, <1>15
<1> DEFINE i == InvMod(lambda, n)
<1>17. i \in 1..n-1 /\ (lambda * i) % n = 1
  BY <1>14, <1>16 DEF InvMod
<1> HIDE DEF i
<1>18. i \in Int /\ lambda * i \in Int
  BY <1>1, <1>17
<1>19. Congruent(lambda * i, 1, n)
  <2>1. Congruent(lambda * i, (lambda * i) % n, n)
    BY <1>1, <1>18, Remainder
  <2> QED
    BY <1>17, <2>1
<1> QED
  BY <1>18, <1>19 DEF lambdaInverse, i

\* Decryption undoes encryption, modulo n.
LEMMA DecryptIs ==
  ASSUME KeysOk, NEW m \in Nat, NEW r \in Int, Unit(r)
  PROVE  decryptNumber(encryptNumber(m, r)) = m % n
<1> DEFINE N == n * n
           c == encryptNumber(m, r)
           C == Cipher(m, r)
           a == Pow(g)[m]
           b == Pow(r)[n]
           P == Pow(c)[lambda]
           v == (m * lambda) % n
<1>1. /\ N \in Nat \ {0} /\ N \in Int /\ g \in Int
      /\ n \in Nat \ {0} /\ n > 1 /\ n \in Nat /\ n \in Int
      /\ lambda \in Nat /\ lambda \in Int
  BY Numbers DEF g
<1>2. C \in Int /\ c = C % N /\ a \in Int /\ b \in Int /\ C = a * b
  BY <1>1, EncryptIs, PowDef DEF Cipher
<1>3. c \in Int /\ Congruent(c, C, N)
  <2> HIDE DEF N, c, C
  <2>1. c \in Int /\ Congruent(C, c, N)
    BY <1>1, <1>2, Leaves
  <2> QED
    BY <1>1, <1>2, <2>1, CongSym
<1>4. P \in Int /\ Congruent(P, Pow(C)[lambda], N)
  <2> HIDE DEF N, c, C
  <2> QED
    BY <1>1, <1>2, <1>3, CongPow, PowDef
<1>5. Pow(C)[lambda] = Pow(g)[m * lambda] * Pow(r)[n * lambda]
  <2>1. Pow(a * b)[lambda] = Pow(a)[lambda] * Pow(b)[lambda]
    <3> HIDE DEF a, b
    <3> QED
      BY <1>1, <1>2, PowProduct
  <2>2. Pow(a)[lambda] = Pow(g)[m * lambda]
    BY <1>1, PowTimes
  <2>3. Pow(b)[lambda] = Pow(r)[n * lambda]
    BY <1>1, PowTimes
  <2> QED
    BY <1>2, <2>1, <2>2, <2>3
<1>6. m * lambda \in Nat /\ n * lambda \in Nat
  BY <1>1
<1> DEFINE G == Pow(g)[m * lambda]
           R == Pow(r)[n * lambda]
<1>7. G \in Int /\ R \in Int /\ Congruent(R, 1, N)
  BY <1>1, <1>6, PowDef, Order
<1>8. v \in 0..n-1 /\ Congruent(m * lambda, v, n)
  <2>1. m * lambda \in Int
    BY <1>6
  <2> QED
    BY <1>1, <2>1, Remainder
<1>9. Congruent(G, 1 + n * v, N)
  <2> DEFINE e == m * lambda
  <2>1. CASE e = 0
    <3>1. v = 0
      BY <1>1, <2>1
    <3>2. G = 1
      BY <1>1, <2>1, PowDef
    <3>3. 1 + n * 0 = 1 /\ 1 \in Int
      BY <1>1
    <3>4. Congruent(1, 1, N)
      BY <1>1, <3>3, CongRefl, Zenon
    <3> QED
      BY <3>1, <3>2, <3>3, <3>4
  <2>2. CASE e # 0
    <3>1. e - 1 \in Nat /\ (e - 1) + 1 = e /\ 1 \in Int /\ g = 1 + n * 1
      BY <1>1, <1>6, <2>2 DEF g
    <3>2. Congruent(Pow(1 + n * 1)[(e - 1) + 1],
                    Pow(1)[(e - 1) + 1] + (((e - 1) + 1) * (n * 1)) * Pow(1)[e - 1], N)
      <4> HIDE DEF e
      <4> QED
        BY <1>1, <3>1, PowNear
    <3>3. Pow(1)[e] = 1 /\ Pow(1)[e - 1] = 1
      <4> HIDE DEF e
      <4>1. e \in Nat
        BY <3>1
      <4> QED
        BY <3>1, <4>1, PowOne
    <3>4. G = Pow(1 + n * 1)[(e - 1) + 1]
      BY <3>1
    <3>5. Congruent(G, 1 + (e * (n * 1)) * 1, N)
      <4> HIDE DEF e, G, N
      <4> QED
        BY <3>1, <3>2, <3>3, <3>4
    <3>6. PICK k \in Int : G = (1 + (e * (n * 1)) * 1) + k * N
      BY <3>5 DEF Congruent
    <3>7. PICK l \in Int : e = v + l * n
      BY <1>8 DEF Congruent
    <3>8. e \in Int /\ v \in Int
      BY <1>1, <1>6, <1>8
    <3> HIDE DEF e, G, v
    <3>9. G = (1 + n * v) + (l + k) * (n * n)
      BY <1>1, <3>6, <3>7, <3>8
    <3>10. l + k \in Int
      OBVIOUS
    <3> QED
      BY <3>9, <3>10 DEF Congruent
  <2> QED
    BY <2>1, <2>2
<1>10. 1 + n * v \in 0..N-1 /\ 1 + n * v \in Int
  <2>1. v \in Nat /\ n - 1 - v \in Nat
    BY <1>1, <1>8
  <2> HIDE DEF v
  <2>2. n * n = n * v + n * (n - 1 - v) + n /\ n * (n - 1 - v) \in Nat /\ n * v \in Nat
    BY <1>1, <2>1
  <2> QED
    BY <1>1, <2>1, <2>2
<1>11. P % N = 1 + n * v
  <2> DEFINE x == 1 + n * v
  <2>1. 1 \in Int /\ x * 1 = x /\ x \in Int /\ G * R \in Int
    BY <1>7, <1>10
  <2> HIDE DEF P, G, R, v, N, x
  <2>2. Congruent(G * R, x * 1, N)
    BY <1>1, <1>7, <1>9, <2>1, CongTimes, Zenon DEF x
  <2>3. Congruent(P, x, N)
    <3>1. Congruent(P, G * R, N)
      BY <1>4, <1>5 DEF G, R
    <3> QED
      BY <1>1, <1>4, <2>1, <2>2, <3>1, CongTrans
  <2> QED
    BY <1>1, <1>4, <1>10, <2>3, RemainderOnly DEF x
<1>12. L_function(PowerMod(c, lambda, N)) = v
  <2>1. PowerMod(c, lambda, N) = 1 + n * v
    <3> HIDE DEF c, N, v
    <3> QED
      BY <1>1, <1>3, <1>11, PowerModIs DEF P
  <2>2. v \in Nat
    BY <1>8
  <2> HIDE DEF v
  <2>3. (1 + n * v) - 1 = v * n /\ (v * n) \div n = v
    BY <1>1, <2>2
  <2> QED
    BY <2>1, <2>3 DEF L_function
<1>13. decryptNumber(c) = (v * lambdaInverse) % n
  <2> HIDE DEF c, v
  <2> QED
    BY <1>12 DEF decryptNumber, N
<1>14. lambdaInverse \in Int /\ Congruent(lambda * lambdaInverse, 1, n)
  BY InverseIs
<1> DEFINE i == lambdaInverse
<1>15. Congruent(v * i, m, n)
  <2>1. v \in Int /\ m * lambda \in Int /\ i \in Int /\ m \in Int /\ 1 \in Int
    BY <1>6, <1>8, <1>14
  <2>2. Congruent(v, m * lambda, n)
    BY <1>1, <1>8, <2>1, CongSym
  <2> HIDE DEF v, i
  <2>3. Congruent(v * i, (m * lambda) * i, n)
    BY <1>1, <2>1, <2>2, CongRefl, CongTimes
  <2>4. Congruent(m * (lambda * i), m * 1, n)
    <3>1. lambda * i \in Int /\ Congruent(lambda * i, 1, n) /\ Congruent(m, m, n)
      BY <1>1, <1>14, <2>1, CongRefl DEF i
    <3> QED
      BY <1>1, <2>1, <3>1, CongTimes, Zenon
  <2>5. (m * lambda) * i = m * (lambda * i) /\ m * 1 = m
    BY <1>1, <2>1
  <2>6. v * i \in Int /\ (m * lambda) * i \in Int
    BY <2>1
  <2> QED
    BY <1>1, <2>1, <2>3, <2>4, <2>5, <2>6, CongTrans
<1>16. (v * i) % n = m % n
  <2>1. v * i \in Int /\ m \in Int
    BY <1>8, <1>14
  <2> HIDE DEF v, i
  <2> QED
    BY <1>1, <1>15, <2>1, SameRemainder
<1> QED
  BY <1>13, <1>16
-----------------------------------------------------------------------------
(* The invariant.                                                          *)

\* c encrypts m, under a factor that is a unit.
IsEncryption(c, m) == \E r \in RandomBnd(n) : Unit(r) /\ c = encryptNumber(m, r)

\* The product of the ciphertexts is one encryption of the sum of the numbers,
\* unless a factor was no unit, and then neither is the product.
PaillierInvariant ==
  /\ KeysOk
  /\ total \in Nat /\ sum \in Int /\ spoilt \in BOOLEAN
  /\ ~spoilt => IsEncryption(sum, total)
  /\ spoilt <=> ~Unit(sum)

\* A congruence holds for every divisor of its modulus.
LEMMA Coarser ==
  ASSUME NEW m \in Int, NEW u \in Int, Divides(u, m),
         NEW a \in Int, NEW b \in Int, Congruent(a, b, m)
  PROVE  Congruent(a, b, u)
<1>1. PICK k \in Int : a = b + k * m
  BY DEF Congruent
<1>2. PICK l \in Int : m = l * u
  BY DEF Divides
<1>3. a = b + (k * l) * u /\ k * l \in Int
  BY <1>1, <1>2
<1> QED
  BY <1>3 DEF Congruent

\* The factors are closed under multiplication modulo n, and so are the units.
LEMMA FactorsAre ==
  ASSUME KeysOk
  PROVE  /\ RandomBnd(n) \subseteq Int
         /\ \A a \in Int : a % n \in RandomBnd(n)
         /\ \A a, b \in Int : Unit((a * b) % n) <=> Unit(a) /\ Unit(b)
<1>1. n \in Nat \ {0} /\ n \in Int /\ Divides(p, n) /\ Divides(q, n) /\ p \in Int /\ q \in Int
  BY Numbers
<1>2. \A a \in Int : a % n \in RandomBnd(n)
  BY <1>1, Remainder DEF RandomBnd
<1>3. ASSUME NEW a \in Int, NEW b \in Int
      PROVE  Unit((a * b) % n) <=> Unit(a) /\ Unit(b)
  <2> DEFINE c == a * b
             d == c % n
  <2>1. c \in Int
    OBVIOUS
  <2>2. d = c % n
    OBVIOUS
  <2> HIDE DEF c, d
  <2>3. d \in Int /\ Congruent(c, d, n)
    BY <1>1, <2>1, <2>2, Leaves
  <2>4. ASSUME NEW u \in {p, q}
        PROVE  Divides(u, d) <=> Divides(u, a) \/ Divides(u, b)
    <3>1. u \in Int /\ IsPrime(u) /\ Divides(u, n)
      BY <1>1 DEF KeysOk
    <3>2. Congruent(c, d, u)
      BY <1>1, <2>1, <2>3, <3>1, Coarser
    <3>3. Divides(u, c) <=> Divides(u, d)
      BY <2>1, <2>3, <3>1, <3>2, DividesBoth
    <3>4. Divides(u, c) <=> Divides(u, a) \/ Divides(u, b)
      BY <3>1, PrimeDivides, DividesTimes DEF c
    <3> QED
      BY <3>3, <3>4
  <2>5. Unit(d) <=> Unit(a) /\ Unit(b)
    BY <2>3, <2>4, UnitIs
  <2> QED
    BY <2>5 DEF c, d
<1> QED
  BY <1>1, <1>2, <1>3 DEF RandomBnd

\* A ciphertext is a unit modulo n exactly if its random factor is.
LEMMA EncryptUnit ==
  ASSUME KeysOk, NEW m \in Nat, NEW r \in Int
  PROVE  encryptNumber(m, r) \in Int /\ (Unit(encryptNumber(m, r)) <=> Unit(r))
<1>1. /\ encryptNumber(m, r) \in Int
      /\ Divides(p, encryptNumber(m, r)) <=> Divides(p, r)
      /\ Divides(q, encryptNumber(m, r)) <=> Divides(q, r)
  BY EncryptDivides
<1> QED
  BY <1>1, UnitIs

\* So is a product modulo the square of n.
LEMMA ProductUnit ==
  ASSUME KeysOk, NEW a \in Int, NEW b \in Int
  PROVE  (a * b) % (n * n) \in Int /\ (Unit((a * b) % (n * n)) <=> Unit(a) /\ Unit(b))
<1> DEFINE N == n * n
           c == a * b
           d == c % N
<1>1. N \in Nat \ {0} /\ N \in Int /\ n \in Int /\ p \in Int /\ q \in Int
  BY Numbers
<1>2. Divides(p, N) /\ Divides(q, N)
  BY <1>1, Numbers, DividesTimes
<1>3. c \in Int
  OBVIOUS
<1>4. d = c % N
  OBVIOUS
<1> HIDE DEF c, d, N
<1>5. d \in Int /\ Congruent(c, d, N)
  BY <1>1, <1>3, <1>4, Leaves
<1>6. ASSUME NEW u \in {p, q}
      PROVE  Divides(u, d) <=> Divides(u, a) \/ Divides(u, b)
  <2>1. u \in Int /\ IsPrime(u) /\ Divides(u, N)
    BY <1>1, <1>2 DEF KeysOk
  <2>2. Congruent(c, d, u)
    BY <1>1, <1>3, <1>5, <2>1, Coarser
  <2>3. Divides(u, c) <=> Divides(u, d)
    BY <1>3, <1>5, <2>1, <2>2, DividesBoth
  <2>4. Divides(u, c) <=> Divides(u, a) \/ Divides(u, b)
    BY <2>1, PrimeDivides, DividesTimes DEF c
  <2> QED
    BY <2>3, <2>4
<1>7. Unit(d) <=> Unit(a) /\ Unit(b)
  BY <1>5, <1>6, UnitIs
<1> QED
  BY <1>5, <1>7 DEF c, d, N

\* An encryption of 0 is one of the total.
LEMMA PaillierInit == Init => PaillierInvariant
<1> SUFFICES ASSUME Init PROVE PaillierInvariant
  OBVIOUS
<1>1. PICK k \in {j \in KeyPairs : Usable(j)} : p = k[1] /\ q = k[2]
  BY DEF Init
<1>2. IsPrime(p) /\ IsPrime(q) /\ p # q
  BY <1>1, PaillierAssumption
<1>3. GCD(lambda, n) = 1
  BY <1>1 DEF Usable, lambda, phi, n
<1>4. KeysOk
  BY <1>2, <1>3 DEF KeysOk
<1>5. PICK r \in RandomBnd(n) : sum = encryptNumber(0, r) /\ spoilt = ~Unit(r)
  BY DEF Init
<1>6. r \in Int /\ 0 \in Nat /\ total = 0
  BY <1>4, FactorsAre DEF Init
<1>7. sum \in Int /\ (Unit(sum) <=> Unit(r))
  BY <1>4, <1>5, <1>6, EncryptUnit
<1>8. ~spoilt => IsEncryption(sum, total)
  BY <1>5, <1>6 DEF IsEncryption
<1> QED
  BY <1>4, <1>5, <1>6, <1>7, <1>8 DEF PaillierInvariant

\* A match multiplies an encryption of a number more into the product.
LEMMA PaillierNext == PaillierInvariant /\ [Next]_vars => PaillierInvariant'
<1> SUFFICES ASSUME PaillierInvariant, [Next]_vars PROVE PaillierInvariant'
  OBVIOUS
<1>1. CASE Match
  <2>1. KeysOk /\ total \in Nat /\ sum \in Int /\ spoilt \in BOOLEAN
    BY DEF PaillierInvariant
  <2>2. p' = p /\ q' = q
    BY <1>1 DEF Match
  <2>3. n' = n /\ lambda' = lambda /\ g' = g
    BY <2>2 DEF n, lambda, phi, g
  <2>4. KeysOk'
    BY <2>1, <2>2, <2>3 DEF KeysOk
  <2>5. PICK m \in Plaintexts, r \in RandomBnd(n) :
          /\ sum' = (sum * encryptNumber(m, r)) % (n * n)
          /\ total' = total + m
          /\ spoilt' = (spoilt \/ ~Unit(r))
    BY <1>1 DEF Match
  <2>6. m \in Nat /\ r \in Int
    BY <2>1, <2>5, PaillierAssumption, FactorsAre
  <2>7. encryptNumber(m, r) \in Int /\ (Unit(encryptNumber(m, r)) <=> Unit(r))
    BY <2>1, <2>6, EncryptUnit
  <2>8. sum' \in Int /\ (Unit(sum') <=> Unit(sum) /\ Unit(r))
    BY <2>1, <2>5, <2>7, ProductUnit
  <2>9. total' \in Nat /\ spoilt' \in BOOLEAN
    BY <2>1, <2>5, <2>6
  <2>10. spoilt' <=> ~Unit(sum')
    BY <2>5, <2>8 DEF PaillierInvariant
  <2>11. ASSUME ~spoilt' PROVE IsEncryption(sum', total')
    <3>1. ~spoilt /\ Unit(r)
      BY <2>5, <2>11
    <3>2. PICK s \in RandomBnd(n) : Unit(s) /\ sum = encryptNumber(total, s)
      BY <3>1 DEF PaillierInvariant, IsEncryption
    <3>3. s \in Int
      BY <2>1, FactorsAre
    <3>4. sum' = encryptNumber(total', (s * r) % n)
      BY <2>1, <2>5, <2>6, <3>2, <3>3, Homomorphic
    <3>5. (s * r) % n \in RandomBnd(n) /\ Unit((s * r) % n)
      <4>1. s * r \in Int
        BY <2>6, <3>3
      <4> QED
        BY <2>1, <2>6, <3>1, <3>2, <3>3, <4>1, FactorsAre
    <3> QED
      BY <3>4, <3>5 DEF IsEncryption
  <2>12. Unit(sum)' <=> Unit(sum')
    BY <2>3 DEF Unit
  <2>13. IsEncryption(sum', total') => IsEncryption(sum, total)'
    BY <2>3 DEF IsEncryption, Unit, encryptNumber
  <2> QED
    BY <2>4, <2>8, <2>9, <2>10, <2>11, <2>12, <2>13 DEF PaillierInvariant
<1>2. CASE Done \/ UNCHANGED vars
  <2>1. UNCHANGED <<p, q, sum, total, spoilt>>
    BY <1>2 DEF Done, vars
  <2>2. n' = n /\ lambda' = lambda /\ g' = g
    BY <2>1 DEF n, lambda, phi, g
  <2> QED
    BY <2>1, <2>2 DEF PaillierInvariant, KeysOk, IsEncryption, Unit, encryptNumber
<1> QED
  BY <1>1, <1>2 DEF Next

\* The leader's product is an encryption of the sum under one unit below n, or
\* no unit itself, in every state of every run.
THEOREM ProductIsEncryption == Spec => []PaillierInvariant
<1> QED
  BY PaillierInit, PaillierNext, PTL DEF Spec

\* What decryptNumber returns for the product that the leader of the servers
\* built with encryptNumber and its multiplications modulo n^2 is the sum of the
\* servers' numbers modulo n, for all primes for which keyGeneration finds its
\* inverse, all numbers and any number of matches, as long as every random
\* factor was a unit.
THEOREM ClientDecryptsSum == Spec => []DecryptsToSum
<1>1. PaillierInvariant => DecryptsToSum
  <2> SUFFICES ASSUME PaillierInvariant, ~spoilt PROVE decryptNumber(sum) = total % n
    BY DEF DecryptsToSum
  <2>1. PICK r \in RandomBnd(n) : Unit(r) /\ sum = encryptNumber(total, r)
    BY DEF PaillierInvariant, IsEncryption
  <2>2. KeysOk /\ total \in Nat /\ r \in Int
    BY FactorsAre DEF PaillierInvariant
  <2> QED
    BY <2>1, <2>2, DecryptIs
<1> QED
  BY <1>1, ProductIsEncryption, PTL

\* RandomBnd may return a factor that is no unit, and nothing in encryptNumber
\* or in the leader's loop excludes it: then, and only then, the product shares
\* a divisor with n.
THEOREM SpoiltShows == Spec => []SpoiltProductShows
<1>1. PaillierInvariant => SpoiltProductShows
  BY DEF PaillierInvariant, SpoiltProductShows, Unit
<1> QED
  BY <1>1, ProductIsEncryption, PTL
=============================================================================
