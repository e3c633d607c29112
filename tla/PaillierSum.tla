----------------------------- MODULE PaillierSum -----------------------------
(***************************************************************************)
(* The arithmetic of common/Paillier.hpp as SMPAQ1's search uses it: the   *)
(* leader of the servers starts with an encryption of 0 and multiplies it  *)
(* by a ciphertext per match, and the client decrypts the product.         *)
(*                                                                         *)
(* Smpaq1 takes a ciphertext for a key and a number, and a product for the *)
(* sum of the numbers.  Here both are computed, with small primes in place *)
(* of the two that are built into the program.  The random factor of an    *)
(* encryption is any number below n, as RandomBnd returns it: it may be 0  *)
(* or share a factor with n.                                               *)
(***************************************************************************)
EXTENDS Integers, FiniteSetsExt

CONSTANTS KeyPairs,   \* the pairs of primes p, q
          Plaintexts, \* the servers' numbers
          MaxMatches  \* a bound of the model

GCD(a, b)  == Max({d \in 1..b : a % d = 0 /\ b % d = 0})

\* The two built-in numbers are different primes.
IsPrime(a) == a \in Nat /\ a > 1 /\ \A d \in 2..a-1 : a % d # 0

ASSUME PaillierAssumption ==
  /\ Plaintexts \subseteq Nat /\ MaxMatches \in Nat
  /\ \A k \in KeyPairs : IsPrime(k[1]) /\ IsPrime(k[2]) /\ k[1] # k[2]

VARIABLES p, q,     \* the primes of the run
          sum,      \* the leader's product of ciphertexts
          total,    \* history: the sum of the plaintexts
          matches,  \* history: how many ciphertexts have been multiplied in
          spoilt    \* history: some random factor shared a divisor with n

vars == <<p, q, sum, total, matches, spoilt>>

\* NTL's operations; division and remainder round down, as those of TLA+ do.
PowerMod(b, e, m) ==
  LET pow[k \in 0..e] == IF k = 0 THEN 1 % m ELSE (pow[k-1] * b) % m
  IN  pow[e]
InvMod(a, m) == CHOOSE x \in 1..m-1 : (a * x) % m = 1

\* keyGeneration
n             == p * q
phi           == (p - 1) * (q - 1)
lambda        == phi \div GCD(p - 1, q - 1)
lambdaInverse == InvMod(lambda, n)
g             == n + 1

\* The key pairs for which lambdaInverse exists, as for the built-in primes.
Usable(k) == GCD(((k[1] - 1) * (k[2] - 1)) \div GCD(k[1] - 1, k[2] - 1),
                 k[1] * k[2]) = 1

\* Mutant: the random factor goes in as it is.
encryptNumber_FactorNotRaised(m, r) == (PowerMod(g, m, n * n) * r) % (n * n)

\* Mutant: there is no random factor.
encryptNumber_NoFactor(m, r) == PowerMod(g, m, n * n)

encryptNumber(m, r) == (PowerMod(g, m, n * n) * PowerMod(r, n, n * n)) % (n * n)

L_function(x) == (x - 1) \div n

decryptNumber(c) == (L_function(PowerMod(c, lambda, n * n)) * lambdaInverse) % n

RandomBnd(m) == 0..m-1
Unit(r)      == GCD(r, n) = 1

Init == /\ \E k \in {j \in KeyPairs : Usable(j)} : p = k[1] /\ q = k[2]
        /\ \E r \in RandomBnd(n) : /\ sum = encryptNumber(0, r)
                                   /\ spoilt = ~Unit(r)
        /\ total = 0 /\ matches = 0

\* One more identifier matches; its ciphertext was made by its server.
Match == /\ matches < MaxMatches
         /\ \E m \in Plaintexts, r \in RandomBnd(n) :
              /\ sum' = (sum * encryptNumber(m, r)) % (n * n)
              /\ total' = total + m
              /\ spoilt' = (spoilt \/ ~Unit(r))
         /\ matches' = matches + 1
         /\ UNCHANGED <<p, q>>

Done == matches = MaxMatches /\ UNCHANGED vars

Next == Match \/ Done

Spec == Init /\ [][Next]_vars
-----------------------------------------------------------------------------
\* The client decrypts the product to the sum of the servers' numbers modulo
\* n, whatever the order of the factors and however often the sum wraps.
DecryptsToSum == ~spoilt => decryptNumber(sum) = total % n

\* A single random factor that is no unit modulo n spoils the product for
\* good: no further factor makes it an encryption again.  The product itself
\* shows it, which nobody looks at.
SpoiltProductShows == spoilt <=> GCD(sum, n) # 1
=============================================================================
