------------------------------ MODULE Protocol ------------------------------
(***************************************************************************)
(* What SMPAQ1 and SMPAQ2 share: the threads and their roles, the shared   *)
(* tables, the two oblivious PRF calls and the search for matches.         *)
(*                                                                         *)
(* Thread t of the client process talks to thread t of the server process  *)
(* over a socket and an OT channel of their own.  Thread 0 is the leader,  *)
(* thread n-1 the center.                                                  *)
(*                                                                         *)
(* An item is a number: the server's k-th element is the item k.  A table  *)
(* entry is a sequence that starts with an item and records the PRF keys   *)
(* that were applied to it, so two entries are equal exactly when the same *)
(* keys were applied to the same item (no collisions).                     *)
(***************************************************************************)
EXTENDS Integers, FiniteSetsExt, SequencesExt

CONSTANTS N,          \* context.n: servers, and threads per process
          SNELES,     \* context.sneles: elements per server
          QueryItem   \* the element the client asks about

ASSUME ProtocolAssumption == /\ N \in Nat /\ N >= 2
                             /\ SNELES \in Nat \ {0}
                             /\ QueryItem \in Nat \ {0}

Threads == 0..N-1
Leader  == 0
Center  == N-1
Parties == {Leader, Center}

\* globalData: slots that nobody has filled hold an empty vector.  The slots
\* past n-1 (the table starts with 20) stay empty and are left out.
EmptyTable == [t \in Threads |-> <<>>]

\* What data() returns, as a sequence of rows, and its entries row after row:
\* an empty row leaves no gap in the latter.
Rows(table)    == [i \in 1..N |-> table[i-1]]
flatten(table) == FlattenSeq(Rows(table))

\* "for i: table.add(rows[i], i)": slots without a returned row stay as they
\* were, and returned rows past slot n-1 are empty.
AddRows(table, rows) ==
  [i \in Threads |-> IF i+1 \in DOMAIN rows THEN rows[i+1] ELSE table[i]]
AsRows(entries) == [i \in DOMAIN entries |-> <<entries[i]>>]

\* Mutant: only the special thread's condition is tested.
Quits_SpecialOnly(flag, isSpec, n) == isSpec => flag = n

\* waitFor's test: a poll that succeeds ends the loop.
Quits(flag, isSpec, n) == IF isSpec THEN flag = n ELSE flag = 0
-----------------------------------------------------------------------------
(* The PRF of libOTe, from how ot_receiver and ot_sender call it: the two  *)
(* ends of channel t agree on a key per OT of the call.                    *)

Oprf(t, k, entry) == Append(entry, <<t, k>>)

\* The receiver has one input per OT.
ot_receiver(t, inputs) ==
  [k \in 1..Len(inputs) |-> Oprf(t, k, inputs[k])]

\* The sender evaluates row k under the k-th OT, for numOTs rows.
ot_sender(t, rows, numOTs) ==
  [k \in 1..numOTs |-> [m \in 1..Len(rows[k]) |-> Oprf(t, k, rows[k][m])]]

\* The first snbins rows; rows the call did not produce stay empty.
fromServerOprfData(rows, snbins) ==
  [i \in 1..snbins |-> IF i \in DOMAIN rows THEN rows[i] ELSE <<>>]

\* What a table may hold: an item under no key, one key or two.
Keys    == Threads \X (1..N)
Item    == 1..(IF SNELES < QueryItem THEN QueryItem ELSE SNELES)
Entries == {<<x>> : x \in Item} \cup (Item \X Keys) \cup (Item \X Keys \X Keys)
Tables  == [Threads -> Seq(Entries)]

\* The query as it leaves the hash table of one bin, and a server's elements.
queryRow    == <<<<QueryItem>>>>
elementsRow == [k \in 1..SNELES |-> <<k>>]
-----------------------------------------------------------------------------
(* The search: every received identifier against every entry of the table. *)

Matches(query, table) ==
  {m \in (1..Len(query)) \X Threads \X (1..SNELES) :
     m[3] <= Len(table[m[2]]) /\ query[m[1]] = table[m[2]][m[3]]}

MatchSum(query, table, data) ==
  MapThenSumSet(LAMBDA m : data[m[2]][m[3]], Matches(query, table))
-----------------------------------------------------------------------------
(* Messages on the sockets.  The program frames nothing: a receive takes as *)
(* many bytes as it expects of whatever comes next.                         *)
ids(entries) == [kind |-> "ids", body |-> entries]
number(v)    == [kind |-> "number", body |-> v]
sci          == [kind |-> "sci", body |-> 0]
=============================================================================
