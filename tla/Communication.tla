--------------------------- MODULE Communication ---------------------------
(***************************************************************************)
(* The bytes that a thread reports as sent and received                    *)
(* (AccumulateCommunicationPSI in common/functionalities.cpp).             *)
(*                                                                         *)
(* The servers are threads of one process and exchange their rows in       *)
(* memory; to the bytes on its socket each adds what it would have sent to *)
(* and received from the other servers, and the leader takes the client's  *)
(* key out again.  Index 0 is the leader, n-1 the center; s is sneles, b   *)
(* is bitlen.                                                              *)
(***************************************************************************)
EXTENDS Integers

BlockSize == 16   \* sizeof(osuCrypto::block)
WordSize  == 8    \* sizeof(uint64_t)

\* A server's rows of the first PRF with its ciphertexts; the client's key.
Row1(s, b) == (BlockSize + b) * s
Key(b)     == 2 * WordSize + 2 * b + 1

\* SMPAQ1: everybody sends its rows to the center, the center all to the leader.
\* Mutant: the center counts its rows once.
serverSent1_CenterOnce(i, n, s, b) == Row1(s, b)
serverSent1(i, n, s, b) == IF i = n-1 THEN Row1(s, b) * n ELSE Row1(s, b)
serverRecv1(i, n, s, b) == CASE i = 0   -> Row1(s, b) * n - Key(b)
                             [] i = n-1 -> Row1(s, b) * (n-1)
                             [] OTHER   -> 0
clientSent1(i, b)       == IF i = 0 THEN -Key(b) ELSE 0

\* SMPAQ2: rows and shares to both parties, who exchange theirs.
serverSent2(i, n, s) ==
  CASE i = 0   -> (BlockSize + WordSize) * s * (n+1)
    [] i = n-1 -> (BlockSize + WordSize) * s + BlockSize * s * n
    [] OTHER   -> 2 * (BlockSize + WordSize) * s
serverRecv2(i, n, s) ==
  IF i \in {0, n-1}
  THEN (BlockSize * s * n - 1) + (WordSize * s * n - 1)
         + (BlockSize + WordSize) * s * n
  ELSE 0

\* What the thread of role r and index i adds to its socket's counters.
AddedSent(type, r, i, n, s, b) ==
  CASE type = "SMPAQ1" /\ r = "server" -> serverSent1(i, n, s, b)
    [] type = "SMPAQ1" /\ r = "client" -> clientSent1(i, b)
    [] type = "SMPAQ2" /\ r = "server" -> serverSent2(i, n, s)
    [] OTHER                           -> 0
AddedRecv(type, r, i, n, s, b) ==
  CASE type = "SMPAQ1" /\ r = "server" -> serverRecv1(i, n, s, b)
    [] type = "SMPAQ2" /\ r = "server" -> serverRecv2(i, n, s)
    [] OTHER                           -> 0
=============================================================================
