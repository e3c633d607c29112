---------------------------- MODULE Smpaq2Proofs ----------------------------
(***************************************************************************)
(* Proofs about SMPAQ2, for any number of threads, elements and payloads.  *)
(*                                                                         *)
(* Invariant has three parts beside the places.  PairsInStep relates a     *)
(* client thread to the server thread of the same number and to what is on *)
(* the way between the two, whatever the other threads do.  BeginCounts    *)
(* counts the arrivals at the server's first site, as WaitForProofs does.  *)
(* PartyCounts follows the leader and the center of the client through the *)
(* two sites that share Cf2, the lost increments included.                 *)
(*                                                                         *)
(* SiteInvariant adds the counts at the other sites; with it five of the   *)
(* six are a rendezvous.  DataInvariant says what every table, message and *)
(* sum holds, by where the threads are; with it the readers see all rows,  *)
(* and the run implements AggregateQuery.  FlagsRest closes the types.     *)
(*                                                                         *)
(* The last part is about Smpaq2Crash, whichever processes may go away.    *)
(* What the invariants above say of the two ends of a socket fails there.  *)
(* What is left is what each process keeps on its own, the counts at two   *)
(* sites and the client's rows, and one fact that joins the two: a party   *)
(* that has its second PRF had a living server for it, which is past the   *)
(* site where the servers wait for each other's shares.  The values need a *)
(* second invariant: what is on a party's socket as long as the process    *)
(* that reads it lives, and that whatever a party has got is its sum or 0. *)
(***************************************************************************)
EXTENDS Smpaq2Crash, RunProofs, FiniteSetTheorems, TLAPS

\* Who goes where: only the parties take part in the second PRF, the exchange
\* of sums and the count; only the special thread of a site runs its function.
CenterOnly    == {"func1", "reset1", "func2", "reset2", "func3", "reset3"}
PartyOnly     == {"oprf2", "inc2", "send", "recv", "count", "inc3"} \cup CenterOnly
SCenterOnly   == {"func1", "reset1", "func3", "reset3"}
SPartyOnly    == {"reset2", "oprf2", "inc3", "search"} \cup SCenterOnly

Places ==
  /\ cpc \in [Threads -> Range(COrder)] /\ spc \in [Threads -> Range(SOrder)]
  /\ \A t \in Threads :
       /\ cpc[t] \in PartyOnly => t \in Parties
       /\ cpc[t] \in CenterOnly => t = Center
       /\ spc[t] \in SPartyOnly => t \in Parties
       /\ spc[t] \in SCenterOnly => t = Center

\* Where a party's client is in its exchange with the server: it has yet to
\* send its identifiers, has sent them, has its sum, has ended.
AskLabels   == {"oprf1", "inc1", "wait1", "func1", "reset1", "oprf2", "inc2",
                "wait2", "func2", "reset2", "send"}
HoldLabels  == {"count", "inc3", "wait3", "func3", "reset3", "sci"}
Asks(t)     == cpc[t] \in AskLabels
Expects(t)  == cpc[t] = "recv"
Holds(t)    == cpc[t] \in HoldLabels
Gone(t)     == cpc[t] = "done"

\* And its server: it has not answered, has answered, has sent its statistics,
\* has ended.
Silent(t)   == spc[t] \notin {"sciSend", "sciRecv", "done"}
Answered(t) == spc[t] = "sciSend"
Waits(t)    == spc[t] = "sciRecv"
Left(t)     == spc[t] = "done"

\* The two sockets of a party and of another thread.
PartyPair(t) ==
  \/ Asks(t)    /\ Silent(t)   /\ up[t] = <<>>      /\ down[t] = <<>>
  \/ Expects(t) /\ Silent(t)   /\ One(up[t], "ids") /\ down[t] = <<>>
  \/ Expects(t) /\ Answered(t) /\ up[t] = <<>>      /\ One(down[t], "number")
  \/ Expects(t) /\ Waits(t)    /\ up[t] = <<>>      /\ Two(down[t], "number", "sci")
  \/ Holds(t)   /\ Answered(t) /\ up[t] = <<>>      /\ down[t] = <<>>
  \/ Holds(t)   /\ Waits(t)    /\ up[t] = <<>>      /\ One(down[t], "sci")
  \/ Gone(t)    /\ Waits(t)    /\ One(up[t], "sci") /\ down[t] = <<>>
  \/ Gone(t)    /\ Left(t)     /\ up[t] = <<>>      /\ down[t] = <<>>
OtherPair(t) ==
  \/ ~Gone(t) /\ ~Waits(t) /\ ~Left(t) /\ up[t] = <<>> /\ down[t] = <<>>
  \/ ~Gone(t) /\ Waits(t)  /\ up[t] = <<>>      /\ One(down[t], "sci")
  \/ Gone(t)  /\ Waits(t)  /\ One(up[t], "sci") /\ down[t] = <<>>
  \/ Gone(t)  /\ Left(t)   /\ up[t] = <<>>      /\ down[t] = <<>>

\* A server thread waits in the first PRF as long as its client has not.
Sockets(t) == IF t \in Parties THEN PartyPair(t) ELSE OtherPair(t)
FirstPrf(t) == cpc[t] = "oprf1" => spc[t] = "oprf1" /\ ~corr[t]

PairsInStep ==
  /\ DOMAIN up = Threads /\ DOMAIN down = Threads /\ DOMAIN corr = Threads
  /\ \A t \in Threads : Sockets(t) /\ FirstPrf(t)

\* Sf1 counts the threads past their increment until the center resets it; the
\* center goes on when all are counted, the others go on after the center.
begun == {t \in Threads : spc[t] \notin {"oprf1", "inc1"}}
BeginCounts ==
  /\ spc[Center] \in {"oprf1", "inc1", "wait1", "func1"} => Sf1 = Cardinality(begun)
  /\ spc[Center] \notin {"oprf1", "inc1", "wait1"} => begun = Threads
  /\ \A t \in Threads : spc[t] \notin {"oprf1", "inc1", "wait1"} =>
       spc[Center] \notin {"oprf1", "inc1", "wait1"} /\
       (t # Center => spc[Center] # "func1")

\* Before the second site of the client, before the third, and past the count.
Before2 == {"oprf1", "inc1", "wait1", "func1", "reset1", "oprf2", "inc2"}
Before3 == Before2 \cup {"wait2", "func2", "reset2", "send", "recv", "count", "inc3"}
Counted == {"inc3", "wait3", "func3", "reset3", "sci", "done"}

Num(b) == IF b THEN 1 ELSE 0

\* Up to the center's first reset Cf2 is the number of parties at the second
\* site.  From the second reset on it is at most the number of parties at the
\* third: an increment between the two is lost.
PartyCounts ==
  LET c == cpc[Center]
      l == cpc[Leader]
  IN  /\ Cf2 \in Nat
      /\ c \in Before2 \cup {"wait2", "func2"} =>
           /\ Cf2 = Num(l \notin Before2) + Num(c \notin Before2)
           /\ l \in Before2 \cup {"wait2"}
      /\ c \notin Before2 \cup {"wait2"} => l \notin Before2
      /\ c = "reset2" => Cf2 = Num(l \notin Before3)
      /\ c \in {"send", "recv", "count", "inc3"} => Cf2 <= Num(l \notin Before3)
      /\ c = "wait3" => Cf2 <= 1 + Num(l \notin Before3)
      /\ c = "func3" => l \notin Before3
      /\ c \notin {"reset3", "sci", "done"} =>
           g_received_count = Num(l \in Counted) + Num(c \in Counted)
      /\ ~warned

Invariant == Places /\ PairsInStep /\ BeginCounts /\ PartyCounts
-----------------------------------------------------------------------------
(* Roles, labels and counting.                                             *)

LEMMA Roles ==
  /\ Leader \in Threads /\ Center \in Threads /\ Leader # Center
  /\ Leader \in Parties /\ Center \in Parties /\ Parties \subseteq Threads
  /\ \A t \in Parties : t = Leader \/ t = Center
BY ProtocolAssumption DEF Threads, Leader, Center, Parties

LEMMA Labels ==
  /\ {"oprf1", "inc1", "wait1", "func1", "reset1", "oprf2", "inc2", "wait2",
      "func2", "reset2", "send", "recv", "count", "inc3", "wait3", "func3",
      "reset3", "sci", "done"} = Range(COrder)
  /\ {"oprf1", "inc1", "wait1", "func1", "reset1", "share", "inc2", "wait2",
      "reset2", "oprf2", "inc3", "wait3", "func3", "reset3", "search",
      "sciSend", "sciRecv", "done"} = Range(SOrder)
BY DEF Range, SOrder, COrder

\* N threads, so N of them are all of them.
LEMMA CountOfThreads ==
  ASSUME NEW S \in SUBSET Threads
  PROVE  /\ IsFiniteSet(S)
         /\ Cardinality(S) \in Nat
         /\ Cardinality(S) = N => S = Threads
         /\ Cardinality(S) = 0 <=> S = {}
<1>1. IsFiniteSet(Threads) /\ Cardinality(Threads) = N
  BY FS_Interval, ProtocolAssumption DEF Threads
<1>2. IsFiniteSet(S) /\ (Cardinality(S) = Cardinality(Threads) => S = Threads)
  BY <1>1, FS_Subset
<1>3. Cardinality(S) \in Nat /\ (Cardinality(S) = 0 <=> S = {})
  BY <1>2, FS_CardinalityType, FS_EmptySet
<1> QED
  BY <1>1, <1>2, <1>3
-----------------------------------------------------------------------------
(* Who goes where, and the pairs of threads.                               *)

LEMMA ClientPlaces ==
  ASSUME Places, NEW t \in Threads, NEW to \in Range(COrder),
         cpc' = [cpc EXCEPT ![t] = to], UNCHANGED spc,
         to \in PartyOnly => t \in Parties, to \in CenterOnly => t = Center
  PROVE  Places'
BY DEF Places

LEMMA ServerPlaces ==
  ASSUME Places, NEW t \in Threads, NEW to \in Range(SOrder),
         spc' = [spc EXCEPT ![t] = to], UNCHANGED cpc,
         to \in SPartyOnly => t \in Parties, to \in SCenterOnly => t = Center
  PROVE  Places'
BY DEF Places

\* A step of one pair of threads leaves the other pairs alone.
Only(t) ==
  /\ DOMAIN up' = DOMAIN up /\ DOMAIN down' = DOMAIN down /\ DOMAIN corr' = DOMAIN corr
  /\ \A u \in Threads \ {t} :
       /\ cpc'[u] = cpc[u] /\ spc'[u] = spc[u] /\ corr'[u] = corr[u]
       /\ up'[u] = up[u] /\ down'[u] = down[u]

LEMMA OnePair ==
  ASSUME PairsInStep, NEW t \in Threads, Only(t), Sockets(t)', FirstPrf(t)'
  PROVE  PairsInStep'
<1>1. ASSUME NEW u \in Threads, u # t
      PROVE  Sockets(u)' /\ FirstPrf(u)'
  <2>1. Sockets(u) /\ FirstPrf(u)
    BY DEF PairsInStep
  <2>2. /\ cpc'[u] = cpc[u] /\ spc'[u] = spc[u] /\ corr'[u] = corr[u]
        /\ up'[u] = up[u] /\ down'[u] = down[u]
    BY <1>1 DEF Only
  <2>3. PartyPair(u) => PartyPair(u)'
    BY <2>2 DEF PartyPair, Asks, Expects, Holds, Gone, Silent, Answered, Waits, Left
  <2>4. OtherPair(u) => OtherPair(u)'
    BY <2>2 DEF OtherPair, Gone, Waits, Left
  <2> QED
    BY <2>1, <2>2, <2>3, <2>4 DEF Sockets, FirstPrf
<1> QED
  BY <1>1 DEF PairsInStep, Only

\* A client thread that uses neither socket.
LEMMA QuietClient ==
  ASSUME Places, PairsInStep, NEW t \in Threads, NEW to \in Range(COrder),
         cpc' = [cpc EXCEPT ![t] = to], UNCHANGED <<spc, up, down>>,
         corr' = corr \/ corr' = [corr EXCEPT ![t] = TRUE],
         to # "oprf1", to # "done", cpc[t] # "done",
         t \in Parties => \/ Asks(t) /\ Asks(t)'
                          \/ Holds(t) /\ Holds(t)'
  PROVE  PairsInStep'
<1>1. cpc'[t] = to /\ spc'[t] = spc[t] /\ up'[t] = up[t] /\ down'[t] = down[t]
  BY DEF Places
<1>2. Only(t)
  BY DEF Only, Places, PairsInStep
<1>3. FirstPrf(t)'
  BY <1>1 DEF FirstPrf
<1>4. CASE t \in Parties
  <2>1. PartyPair(t)
    BY <1>4 DEF PairsInStep, Sockets
  <2>2. /\ ~Expects(t) /\ ~Gone(t)
        /\ Silent(t)' = Silent(t) /\ Answered(t)' = Answered(t)
        /\ Waits(t)' = Waits(t)
    BY <1>1, <1>4 DEF Asks, Holds, Expects, Gone, Silent, Answered, Waits,
                      AskLabels, HoldLabels
  <2>3. /\ Asks(t) => ~Holds(t)
    BY DEF Asks, Holds, AskLabels, HoldLabels
  <2>4. PartyPair(t)'
    BY <1>1, <1>4, <2>1, <2>2, <2>3 DEF PartyPair
  <2> QED
    BY <1>2, <1>3, <1>4, <2>4, OnePair DEF Sockets
<1>5. CASE t \notin Parties
  <2>1. OtherPair(t) /\ ~Gone(t) /\ ~Gone(t)'
    BY <1>1, <1>5 DEF PairsInStep, Sockets, Gone
  <2>2. OtherPair(t)'
    BY <1>1, <2>1 DEF OtherPair, Waits, Left
  <2> QED
    BY <1>2, <1>3, <1>5, <2>2, OnePair DEF Sockets
<1> QED
  BY <1>4, <1>5

\* A server thread that uses neither socket.
LEMMA QuietServer ==
  ASSUME Places, PairsInStep, NEW t \in Threads, NEW to \in Range(SOrder),
         spc' = [spc EXCEPT ![t] = to], UNCHANGED <<cpc, up, down>>,
         corr' = corr \/ corr' = [corr EXCEPT ![t] = FALSE],
         spc[t] = "oprf1" => corr[t],
         {spc[t], to} \cap {"sciRecv", "done"} = {},
         t \in Parties => Silent(t) /\ Silent(t)'
  PROVE  PairsInStep'
<1>1. spc'[t] = to /\ cpc'[t] = cpc[t] /\ up'[t] = up[t] /\ down'[t] = down[t]
  BY DEF Places
<1>2. Only(t)
  BY DEF Only, Places, PairsInStep
<1>3. FirstPrf(t)'
  <2>1. FirstPrf(t)
    BY DEF PairsInStep
  <2>2. cpc[t] # "oprf1"
    BY <2>1 DEF FirstPrf
  <2> QED
    BY <1>1, <2>2 DEF FirstPrf
<1>4. CASE t \in Parties
  <2>1. PartyPair(t)
    BY <1>4 DEF PairsInStep, Sockets
  <2>2. /\ ~Answered(t) /\ ~Waits(t) /\ ~Left(t) /\ Silent(t)'
        /\ Asks(t)' = Asks(t) /\ Expects(t)' = Expects(t)
    BY <1>1, <1>4 DEF Asks, Expects, Silent, Answered, Waits, Left
  <2>3. PartyPair(t)'
    BY <1>1, <2>1, <2>2 DEF PartyPair
  <2> QED
    BY <1>2, <1>3, <1>4, <2>3, OnePair DEF Sockets
<1>5. CASE t \notin Parties
  <2>1. OtherPair(t)
    BY <1>5 DEF PairsInStep, Sockets
  <2>2. OtherPair(t)'
    BY <1>1, <2>1 DEF OtherPair, Waits, Left, Gone
  <2> QED
    BY <1>2, <1>3, <1>5, <2>2, OnePair DEF Sockets
<1> QED
  BY <1>4, <1>5

\* What a thread that uses its socket sees of the pair.
LEMMA PairOf ==
  ASSUME Places, PairsInStep, NEW t \in Threads
  PROVE  /\ t \in Parties => PartyPair(t)
         /\ t \notin Parties => OtherPair(t)
         /\ t \in DOMAIN up /\ t \in DOMAIN down
         /\ cpc \in [Threads -> Range(COrder)] /\ spc \in [Threads -> Range(SOrder)]
BY DEF Places, PairsInStep, Sockets

LEMMA SendStep ==
  ASSUME Places, PairsInStep, NEW t \in Threads, CSend(t)
  PROVE  PairsInStep'
<1>1. cpc[t] = "send" /\ cpc' = [cpc EXCEPT ![t] = "recv"]
  BY DEF CSend, CGoto
<1>2. t \in Parties
  BY <1>1 DEF Places, PartyOnly
<1>3. Silent(t) /\ up[t] = <<>> /\ down[t] = <<>>
  BY <1>1, <1>2, PairOf DEF PartyPair, Asks, Expects, Holds, Gone, AskLabels,
             HoldLabels
<1>4. /\ cpc'[t] = "recv" /\ spc' = spc /\ down' = down /\ corr' = corr
      /\ One(up'[t], "ids")
  <2> DEFINE m == ids(flatten(clientID_party[t]))
  <2>1. m.kind = "ids" /\ up' = [up EXCEPT ![t] = Append(@, m)]
    BY DEF ids, CSend
  <2> HIDE DEF m
  <2>2. One(up'[t], "ids")
    BY <1>3, <2>1, PairOf, Queues
  <2> QED
    BY <1>1, <2>2, PairOf DEF CSend, serverVars
<1>5. Only(t)
  BY <1>1, <1>4, PairOf DEF Only, CSend
<1>6. Sockets(t)'
  BY <1>2, <1>3, <1>4 DEF Sockets, PartyPair, Expects, Silent
<1>7. FirstPrf(t)'
  BY <1>4 DEF FirstPrf
<1> QED
  BY <1>5, <1>6, <1>7, OnePair

LEMMA RecvStep ==
  ASSUME Places, PairsInStep, NEW t \in Threads, CRecv(t)
  PROVE  PairsInStep'
<1>1. /\ cpc[t] = "recv" /\ cpc' = [cpc EXCEPT ![t] = "count"]
      /\ down[t] # <<>> /\ down' = [down EXCEPT ![t] = Tail(@)]
      /\ up' = up /\ spc' = spc /\ corr' = corr
  BY DEF CRecv, CGoto, serverVars
<1>2. t \in Parties
  BY <1>1 DEF Places, PartyOnly
<1>3. cpc'[t] = "count" /\ down'[t] = Tail(down[t])
  BY <1>1, PairOf
<1>4. \/ Answered(t) /\ up[t] = <<>> /\ down'[t] = <<>>
      \/ Waits(t) /\ up[t] = <<>> /\ One(down'[t], "sci")
  BY <1>1, <1>2, <1>3, PairOf, Queues DEF PartyPair, Asks, Expects, Holds, Gone,
     AskLabels,
             HoldLabels
<1>5. Only(t)
  BY <1>1, PairOf DEF Only
<1>6. PartyPair(t)'
  BY <1>1, <1>3, <1>4 DEF PartyPair, Holds, Answered, Waits, HoldLabels
<1>7. FirstPrf(t)'
  BY <1>3 DEF FirstPrf
<1> QED
  BY <1>2, <1>5, <1>6, <1>7, OnePair DEF Sockets

LEMMA SciStep ==
  ASSUME Places, PairsInStep, NEW t \in Threads, CSci(t)
  PROVE  PairsInStep'
<1>1. /\ cpc[t] = "sci" /\ cpc' = [cpc EXCEPT ![t] = "done"]
      /\ down[t] # <<>> /\ down' = [down EXCEPT ![t] = Tail(@)]
      /\ up' = [up EXCEPT ![t] = Append(@, sci)] /\ spc' = spc /\ corr' = corr
  BY DEF CSci, CGoto, serverVars
<1>2. /\ cpc'[t] = "done" /\ down'[t] = Tail(down[t])
      /\ up'[t] = Append(up[t], sci)
  BY <1>1, PairOf
<1>3. Waits(t) /\ up[t] = <<>> /\ One(down[t], "sci")
  <2>1. CASE t \in Parties
    BY <1>1, <2>1, PairOf DEF PartyPair, Asks, Expects, Holds, Gone, AskLabels,
             HoldLabels
  <2>2. CASE t \notin Parties
    BY <1>1, <2>2, PairOf DEF OtherPair, Gone
  <2> QED
    BY <2>1, <2>2
<1>4. down'[t] = <<>> /\ One(up'[t], "sci")
  <2>1. sci.kind = "sci"
    BY DEF sci
  <2> QED
    BY <1>2, <1>3, <2>1, Queues
<1>5. Only(t)
  BY <1>1, PairOf DEF Only
<1>6. Gone(t)' /\ Waits(t)'
  BY <1>1, <1>2, <1>3 DEF Gone, Waits
<1>7. Sockets(t)'
  BY <1>4, <1>6 DEF Sockets, PartyPair, OtherPair
<1>8. FirstPrf(t)'
  BY <1>2 DEF FirstPrf
<1> QED
  BY <1>5, <1>7, <1>8, OnePair

LEMMA SearchStep ==
  ASSUME Places, PairsInStep, NEW t \in Threads, SSearch(t)
  PROVE  PairsInStep'
<1> DEFINE sum == number(MatchSum(Head(up[t]).body, serverID_party[t],
                                  serverData_party[t]) % Word)
<1>1. /\ spc[t] = "search" /\ spc' = [spc EXCEPT ![t] = "sciSend"]
      /\ up[t] # <<>> /\ up' = [up EXCEPT ![t] = Tail(@)]
      /\ down' = [down EXCEPT ![t] = Append(@, sum)]
      /\ cpc' = cpc /\ corr' = corr /\ sum.kind = "number"
  BY DEF SSearch, SGoto, clientVars, number
<1> HIDE DEF sum
<1>2. t \in Parties
  BY <1>1 DEF Places, SPartyOnly
<1>3. /\ spc'[t] = "sciSend" /\ up'[t] = Tail(up[t])
      /\ down'[t] = Append(down[t], sum)
  BY <1>1, PairOf
<1>4. Expects(t) /\ One(up[t], "ids") /\ down[t] = <<>>
  BY <1>1, <1>2, PairOf DEF PartyPair, Silent, Answered, Waits, Left
<1>5. up'[t] = <<>> /\ One(down'[t], "number")
  <2>1. up'[t] = <<>>
    BY <1>3, <1>4, Queues
  <2>2. sum.kind = "number"
    BY <1>1
  <2>3. One(down'[t], "number")
    BY <1>3, <1>4, <2>2, Queues
  <2> QED
    BY <2>1, <2>3
<1>6. Only(t)
  BY <1>1, PairOf DEF Only
<1>7. PartyPair(t)'
  BY <1>1, <1>3, <1>4, <1>5 DEF PartyPair, Expects, Answered
<1>8. FirstPrf(t)'
  BY <1>1, <1>4 DEF FirstPrf, Expects
<1> QED
  BY <1>2, <1>6, <1>7, <1>8, OnePair DEF Sockets

LEMMA SciSendStep ==
  ASSUME Places, PairsInStep, NEW t \in Threads, SSciSend(t)
  PROVE  PairsInStep'
<1>1. /\ spc[t] = "sciSend" /\ spc' = [spc EXCEPT ![t] = "sciRecv"]
      /\ down' = [down EXCEPT ![t] = Append(@, sci)]
      /\ up' = up /\ cpc' = cpc /\ corr' = corr /\ sci.kind = "sci"
  BY DEF SSciSend, SGoto, clientVars, sci
<1>2. spc'[t] = "sciRecv" /\ down'[t] = Append(down[t], sci)
  BY <1>1, PairOf
<1>3. Only(t) /\ Waits(t)'
  BY <1>1, <1>2, PairOf DEF Only, Waits
<1>4. FirstPrf(t)'
  <2>1. cpc[t] # "oprf1"
    BY <1>1 DEF PairsInStep, FirstPrf
  <2> QED
    BY <1>1, <2>1 DEF FirstPrf
<1>5. CASE t \in Parties
  <2>1. \/ Expects(t) /\ up[t] = <<>> /\ One(down[t], "number")
        \/ Holds(t) /\ up[t] = <<>> /\ down[t] = <<>>
    BY <1>1, <1>5, PairOf DEF PartyPair, Silent, Answered, Waits, Left
  <2>2. \/ Expects(t)' /\ up'[t] = <<>> /\ Two(down'[t], "number", "sci")
        \/ Holds(t)' /\ up'[t] = <<>> /\ One(down'[t], "sci")
    <3>1. CASE Expects(t) /\ up[t] = <<>> /\ One(down[t], "number")
      BY <1>1, <1>2, <3>1, Queues DEF Expects
    <3>2. CASE Holds(t) /\ up[t] = <<>> /\ down[t] = <<>>
      BY <1>1, <1>2, <3>2, Queues DEF Holds
    <3> QED
      BY <2>1, <3>1, <3>2
  <2> QED
    BY <1>3, <1>4, <1>5, <2>2, OnePair DEF Sockets, PartyPair
<1>6. CASE t \notin Parties
  <2>1. ~Gone(t) /\ up[t] = <<>> /\ down[t] = <<>>
    BY <1>1, <1>6, PairOf DEF OtherPair, Waits, Left
  <2>2. ~Gone(t)' /\ up'[t] = <<>> /\ One(down'[t], "sci")
    BY <1>1, <1>2, <2>1, Queues DEF Gone
  <2> QED
    BY <1>3, <1>4, <1>6, <2>2, OnePair DEF Sockets, OtherPair
<1> QED
  BY <1>5, <1>6

LEMMA SciRecvStep ==
  ASSUME Places, PairsInStep, NEW t \in Threads, SSciRecv(t)
  PROVE  PairsInStep'
<1>1. /\ spc[t] = "sciRecv" /\ spc' = [spc EXCEPT ![t] = "done"]
      /\ up[t] # <<>> /\ up' = [up EXCEPT ![t] = Tail(@)]
      /\ down' = down /\ cpc' = cpc /\ corr' = corr
  BY DEF SSciRecv, SGoto, clientVars
<1>2. spc'[t] = "done" /\ up'[t] = Tail(up[t])
  BY <1>1, PairOf
<1>3. Gone(t) /\ One(up[t], "sci") /\ down[t] = <<>>
  <2>1. CASE t \in Parties
    BY <1>1, <2>1, PairOf DEF PartyPair, Silent, Answered, Waits, Left
  <2>2. CASE t \notin Parties
    BY <1>1, <2>2, PairOf DEF OtherPair, Waits, Left
  <2> QED
    BY <2>1, <2>2
<1>4. up'[t] = <<>> /\ Gone(t)' /\ Left(t)' /\ down'[t] = <<>>
  BY <1>1, <1>2, <1>3, Queues DEF Gone, Left
<1>5. Only(t)
  BY <1>1, PairOf DEF Only
<1>6. Sockets(t)'
  BY <1>4 DEF Sockets, PartyPair, OtherPair
<1>7. FirstPrf(t)'
  BY <1>1, <1>3 DEF FirstPrf, Gone
<1> QED
  BY <1>5, <1>6, <1>7, OnePair

\* The same, for a step from one label to another.
LEMMA ClientMove ==
  ASSUME Places, PairsInStep, NEW t \in Threads, NEW from, NEW to \in Range(COrder),
         CGoto(t, from, to), UNCHANGED <<spc, up, down>>,
         corr' = corr \/ corr' = [corr EXCEPT ![t] = TRUE],
         from # "done", to # "oprf1", to # "done",
         to \in PartyOnly => t \in Parties, to \in CenterOnly => t = Center,
         t \in Parties => {from, to} \subseteq AskLabels \/ {from, to} \subseteq HoldLabels
  PROVE  Places' /\ PairsInStep'
<1>1. cpc[t] = from /\ cpc' = [cpc EXCEPT ![t] = to] /\ cpc'[t] = to
  BY DEF CGoto, Places
<1>2. t \in Parties => \/ Asks(t) /\ Asks(t)'
                       \/ Holds(t) /\ Holds(t)'
  <2>1. {from, to} \subseteq AskLabels => Asks(t) /\ Asks(t)'
    BY <1>1 DEF Asks
  <2>2. {from, to} \subseteq HoldLabels => Holds(t) /\ Holds(t)'
    BY <1>1 DEF Holds
  <2> QED
    BY <2>1, <2>2
<1>3. Places'
  BY <1>1, ClientPlaces
<1>4. PairsInStep'
  BY <1>1, <1>2, QuietClient
<1> QED
  BY <1>3, <1>4

LEMMA ServerMove ==
  ASSUME Places, PairsInStep, NEW t \in Threads, NEW from, NEW to \in Range(SOrder),
         SGoto(t, from, to), UNCHANGED <<cpc, up, down>>,
         corr' = corr \/ corr' = [corr EXCEPT ![t] = FALSE],
         from = "oprf1" => corr[t],
         {from, to} \cap {"sciRecv", "done"} = {},
         to \in SPartyOnly => t \in Parties, to \in SCenterOnly => t = Center,
         t \in Parties => "sciSend" \notin {from, to}
  PROVE  Places' /\ PairsInStep'
<1>1. spc[t] = from /\ spc' = [spc EXCEPT ![t] = to] /\ spc'[t] = to
  BY DEF SGoto, Places
<1>2. t \in Parties => Silent(t) /\ Silent(t)'
  BY <1>1 DEF Silent
<1>3. Places'
  BY <1>1, ServerPlaces
<1>4. PairsInStep'
  BY <1>1, <1>2, QuietServer
<1> QED
  BY <1>3, <1>4

\* Every step of a client thread keeps the places and the pairs.
LEMMA ClientPairs ==
  ASSUME Places, PairsInStep, NEW t \in Threads, Client(t)
  PROVE  Places' /\ PairsInStep'
<1> USE DEF netVars, serverVars, PartyOnly, CenterOnly, AskLabels, HoldLabels
<1>0. cpc[t] \in PartyOnly => t \in Parties
  BY DEF Places
<1>1. CASE COprf1(t)
  BY <1>1, ClientMove, Labels DEF COprf1
<1>2. CASE CInc1(t)
  BY <1>2, ClientMove, Labels DEF CInc1
<1>3. CASE CWait1(t)
  <2>1. CASE t = Center
    BY <1>3, <2>1, ClientMove, Labels, Roles DEF CWait1
  <2>2. CASE t = Leader
    BY <1>3, <2>2, ClientMove, Labels, Roles DEF CWait1, AfterSite1
  <2>3. CASE t \notin Parties
    BY <1>3, <2>3, ClientMove, Labels, Roles DEF CWait1, AfterSite1
  <2> QED
    BY <2>1, <2>2, <2>3, Roles
<1>4. CASE CReset1(t)
  <2>1. CASE CGoto(t, "func1", "reset1")
    <3>1. t = Center
      BY <2>1 DEF CGoto, Places
    <3> QED
      BY <1>4, <2>1, <3>1, ClientMove, Labels, Roles DEF CReset1
  <2>2. CASE CGoto(t, "reset1", AfterSite1(t))
    <3>1. t = Center /\ AfterSite1(t) = "oprf2"
      BY <2>2, Roles DEF CGoto, Places, AfterSite1
    <3> QED
      BY <1>4, <2>2, <3>1, ClientMove, Labels, Roles DEF CReset1
  <2> QED
    BY <1>4, <2>1, <2>2 DEF CReset1
<1>5. CASE COprf2(t)
  <2>1. t \in Parties
    BY <1>0, <1>5 DEF COprf2, CGoto
  <2> QED
    BY <1>5, <2>1, ClientMove, Labels DEF COprf2
<1>6. CASE CInc2(t)
  <2>1. CASE CGoto(t, "inc2", "wait2")
    BY <1>6, <2>1, ClientMove, Labels DEF CInc2
  <2>2. CASE CGoto(t, "inc3", "wait3")
    BY <1>6, <2>2, ClientMove, Labels DEF CInc2
  <2> QED
    BY <1>6, <2>1, <2>2 DEF CInc2
<1>7. CASE CWait2(t)
  <2>1. CASE t = Center
    BY <1>7, <2>1, ClientMove, Labels, Roles DEF CWait2
  <2>2. CASE t = Leader
    BY <1>7, <2>2, ClientMove, Labels, Roles DEF CWait2
  <2>3. CASE t \notin Parties
    BY <1>7, <2>3, ClientMove, Labels, Roles DEF CWait2
  <2> QED
    BY <2>1, <2>2, <2>3, Roles
<1>8. CASE CReset2(t)
  <2>1. t = Center /\ t \in Parties
    BY <1>8, Roles DEF CReset2, CGoto, Places
  <2>2. CASE CGoto(t, "func2", "reset2")
    BY <1>8, <2>1, <2>2, ClientMove, Labels DEF CReset2
  <2>3. CASE CGoto(t, "reset2", "send")
    BY <1>8, <2>1, <2>3, ClientMove, Labels DEF CReset2
  <2>4. CASE CGoto(t, "reset3", "sci")
    BY <1>8, <2>1, <2>4, ClientMove, Labels DEF CReset2
  <2> QED
    BY <1>8, <2>2, <2>3, <2>4 DEF CReset2
<1>9. CASE CSend(t)
  <2>1. t \in Parties /\ cpc' = [cpc EXCEPT ![t] = "recv"] /\ UNCHANGED spc
    BY <1>0, <1>9 DEF CSend, CGoto
  <2> QED
    BY <1>9, <2>1, SendStep, ClientPlaces, Labels
<1>10. CASE CRecv(t)
  <2>1. t \in Parties /\ cpc' = [cpc EXCEPT ![t] = "count"] /\ UNCHANGED spc
    BY <1>0, <1>10 DEF CRecv, CGoto
  <2> QED
    BY <1>10, <2>1, RecvStep, ClientPlaces, Labels
<1>11. CASE CCount(t)
  <2>1. t \in Parties
    BY <1>0, <1>11 DEF CCount, CGoto
  <2> QED
    BY <1>11, <2>1, ClientMove, Labels DEF CCount
<1>12. CASE CWait3(t)
  <2>1. CASE t = Center
    BY <1>12, <2>1, ClientMove, Labels, Roles DEF CWait3
  <2>2. CASE t # Center
    BY <1>12, <2>2, ClientMove, Labels, Roles DEF CWait3
  <2> QED
    BY <2>1, <2>2
<1>13. CASE CFunc3(t)
  <2>1. t = Center
    BY <1>13 DEF CFunc3, CGoto, Places
  <2> QED
    BY <1>13, <2>1, ClientMove, Labels, Roles DEF CFunc3
<1>14. CASE CSci(t)
  <2>1. cpc' = [cpc EXCEPT ![t] = "done"] /\ UNCHANGED spc
    BY <1>14 DEF CSci, CGoto
  <2> QED
    BY <1>14, <2>1, SciStep, ClientPlaces, Labels
<1> QED
  BY <1>1, <1>2, <1>3, <1>4, <1>5, <1>6, <1>7, <1>8, <1>9, <1>10, <1>11, <1>12,
     <1>13, <1>14 DEF Client

\* Every step of a server thread does, too.
LEMMA ServerPairs ==
  ASSUME Places, PairsInStep, NEW t \in Threads, Server(t)
  PROVE  Places' /\ PairsInStep'
<1> USE DEF netVars, clientVars, SPartyOnly, SCenterOnly
<1>0. spc[t] \in SPartyOnly => t \in Parties
  BY DEF Places
<1>1. CASE SOprf1(t)
  BY <1>1, ServerMove, Labels DEF SOprf1
<1>2. CASE SInc1(t)
  BY <1>2, ServerMove, Labels DEF SInc1
<1>3. CASE SWait1(t)
  <2>1. CASE t = Center
    BY <1>3, <2>1, ServerMove, Labels, Roles DEF SWait1
  <2>2. CASE t # Center
    BY <1>3, <2>2, ServerMove, Labels, Roles DEF SWait1
  <2> QED
    BY <2>1, <2>2
<1>4. CASE SReset1(t)
  <2>1. t = Center /\ t \in Parties
    BY <1>4, Roles DEF SReset1, SGoto, Places
  <2>2. CASE SGoto(t, "func1", "reset1")
    BY <1>4, <2>1, <2>2, ServerMove, Labels DEF SReset1
  <2>3. CASE SGoto(t, "reset1", "share")
    BY <1>4, <2>1, <2>3, ServerMove, Labels DEF SReset1
  <2> QED
    BY <1>4, <2>2, <2>3 DEF SReset1
<1>5. CASE SShare(t)
  BY <1>5, ServerMove, Labels DEF SShare
<1>6. CASE SInc2(t)
  <2>1. CASE SGoto(t, "inc2", "wait2")
    BY <1>6, <2>1, ServerMove, Labels DEF SInc2
  <2>2. CASE SGoto(t, "inc3", "wait3")
    BY <1>6, <2>2, ServerMove, Labels DEF SInc2
  <2> QED
    BY <1>6, <2>1, <2>2 DEF SInc2
<1>7. CASE SWait2(t)
  <2>1. CASE t = Center
    BY <1>7, <2>1, ServerMove, Labels, Roles DEF SWait2
  <2>2. CASE t = Leader
    BY <1>7, <2>2, ServerMove, Labels, Roles DEF SWait2
  <2>3. CASE t \notin Parties
    BY <1>7, <2>3, ServerMove, Labels, Roles DEF SWait2
  <2> QED
    BY <2>1, <2>2, <2>3, Roles
<1>8. CASE SReset2(t)
  <2>1. t \in Parties
    BY <1>0, <1>8 DEF SReset2, SGoto
  <2>2. CASE SGoto(t, "reset2", "oprf2")
    BY <1>8, <2>1, <2>2, ServerMove, Labels DEF SReset2
  <2>3. CASE SGoto(t, "func3", "reset3")
    <3>1. t = Center
      BY <2>3 DEF SGoto, Places
    <3> QED
      BY <1>8, <2>1, <2>3, <3>1, ServerMove, Labels DEF SReset2
  <2>4. CASE SGoto(t, "reset3", "search")
    BY <1>8, <2>1, <2>4, ServerMove, Labels DEF SReset2
  <2> QED
    BY <1>8, <2>2, <2>3, <2>4 DEF SReset2
<1>9. CASE SOprf2(t)
  <2>1. t \in Parties
    BY <1>0, <1>9 DEF SOprf2, SGoto
  <2> QED
    BY <1>9, <2>1, ServerMove, Labels DEF SOprf2
<1>10. CASE SWait3(t)
  <2>1. CASE t = Center
    BY <1>10, <2>1, ServerMove, Labels, Roles DEF SWait3
  <2>2. CASE t = Leader
    BY <1>10, <2>2, ServerMove, Labels, Roles DEF SWait3
  <2>3. CASE t \notin Parties
    BY <1>10, <2>3, ServerMove, Labels, Roles DEF SWait3
  <2> QED
    BY <2>1, <2>2, <2>3, Roles
<1>11. CASE SSearch(t)
  <2>1. spc' = [spc EXCEPT ![t] = "sciSend"] /\ UNCHANGED cpc
    BY <1>11 DEF SSearch, SGoto
  <2> QED
    BY <1>11, <2>1, SearchStep, ServerPlaces, Labels
<1>12. CASE SSciSend(t)
  <2>1. spc' = [spc EXCEPT ![t] = "sciRecv"] /\ UNCHANGED cpc
    BY <1>12 DEF SSciSend, SGoto
  <2> QED
    BY <1>12, <2>1, SciSendStep, ServerPlaces, Labels
<1>13. CASE SSciRecv(t)
  <2>1. spc' = [spc EXCEPT ![t] = "done"] /\ UNCHANGED cpc
    BY <1>13 DEF SSciRecv, SGoto
  <2> QED
    BY <1>13, <2>1, SciRecvStep, ServerPlaces, Labels
<1> QED
  BY <1>1, <1>2, <1>3, <1>4, <1>5, <1>6, <1>7, <1>8, <1>9, <1>10, <1>11, <1>12,
     <1>13 DEF Server
-----------------------------------------------------------------------------
(* The server's first site.                                                *)

LEMMA BeginSame ==
  ASSUME BeginCounts, UNCHANGED <<spc, Sf1>>
  PROVE  BeginCounts'
<1>1. begun' = begun
  BY DEF begun
<1> QED
  BY <1>1 DEF BeginCounts

\* A thread that is past the site, and not its center.
LEMMA BeginLater ==
  ASSUME Places, BeginCounts, NEW t \in Threads, NEW from, NEW to,
         SGoto(t, from, to), Sf1' = Sf1 \/ t = Center,
         {from, to} \cap {"oprf1", "inc1", "wait1", "func1"} = {}
  PROVE  BeginCounts'
<1>1. spc[t] = from /\ spc' = [spc EXCEPT ![t] = to] /\ spc \in [Threads -> Range(SOrder)]
  BY DEF SGoto, Places
<1>2. begun' = begun
  BY <1>1 DEF begun
<1>3. CASE t = Center
  BY <1>1, <1>2, <1>3, Roles DEF BeginCounts
<1>4. CASE t # Center
  <2>1. spc'[Center] = spc[Center] /\ Sf1' = Sf1
    BY <1>1, <1>4, Roles
  <2> QED
    BY <1>1, <1>2, <2>1 DEF BeginCounts
<1> QED
  BY <1>3, <1>4

\* The first PRF: the thread has yet to be counted.
LEMMA BeginOprf ==
  ASSUME Places, BeginCounts, NEW t \in Threads, SOprf1(t)
  PROVE  BeginCounts'
<1>1. /\ spc[t] = "oprf1" /\ spc' = [spc EXCEPT ![t] = "inc1"] /\ Sf1' = Sf1
      /\ spc \in [Threads -> Range(SOrder)]
  BY DEF SOprf1, SGoto, Places, serverFlags
<1>2. begun' = begun /\ t \notin begun
  BY <1>1 DEF begun
<1>3. spc[Center] \in {"oprf1", "inc1", "wait1"}
  BY <1>2 DEF BeginCounts
<1>4. spc'[Center] \in {"oprf1", "inc1", "wait1"}
  BY <1>1, <1>3, Roles
<1> QED
  BY <1>1, <1>2, <1>3, <1>4 DEF BeginCounts

LEMMA BeginArrival ==
  ASSUME Places, BeginCounts, NEW t \in Threads, SInc1(t)
  PROVE  BeginCounts'
<1>1. /\ spc[t] = "inc1" /\ spc' = [spc EXCEPT ![t] = "wait1"] /\ Sf1' = Sf1 + 1
      /\ spc \in [Threads -> Range(SOrder)]
  BY DEF SInc1, SGoto, Places
<1>2. begun' = begun \cup {t} /\ t \notin begun /\ begun \in SUBSET Threads
  BY <1>1 DEF begun
<1>3. Cardinality(begun') = Cardinality(begun) + 1
  BY <1>2, CountOfThreads, FS_AddElement
<1>4. spc[Center] \in {"oprf1", "inc1", "wait1"}
  BY <1>2 DEF BeginCounts
<1>5. spc'[Center] \in {"oprf1", "inc1", "wait1"}
  BY <1>1, <1>4, Roles
<1>6. \A u \in Threads : spc'[u] \in {"oprf1", "inc1", "wait1"}
  BY <1>1, <1>4 DEF BeginCounts
<1> QED
  BY <1>1, <1>3, <1>4, <1>5, <1>6 DEF BeginCounts

LEMMA BeginPoll ==
  ASSUME Places, BeginCounts, NEW t \in Threads, SWait1(t)
  PROVE  BeginCounts'
<1>0. /\ spc \in [Threads -> Range(SOrder)] /\ begun \in SUBSET Threads
      /\ spc[t] = "wait1" /\ Sf1' = Sf1
  BY DEF Places, begun, SWait1, SGoto, serverFlags
<1>1. CASE t = Center
  <2>1. Sf1 = N /\ spc' = [spc EXCEPT ![t] = "func1"]
    BY <1>1 DEF SWait1, SGoto, Quits
  <2>2. begun = Threads
    <3>1. Cardinality(begun) = N
      BY <1>0, <1>1, <2>1 DEF BeginCounts
    <3> QED
      BY <1>0, <3>1, CountOfThreads
  <2>3. begun' = begun
    BY <1>0, <2>1 DEF begun
  <2>4. spc'[Center] = "func1"
    BY <1>0, <1>1, <2>1
  <2>5. \A u \in Threads : u # Center => spc'[u] \in {"oprf1", "inc1", "wait1"}
    BY <1>0, <1>1, <2>1 DEF BeginCounts
  <2> QED
    BY <1>0, <1>1, <2>2, <2>3, <2>4, <2>5 DEF BeginCounts
<1>2. CASE t # Center
  <2>1. Sf1 = 0 /\ spc' = [spc EXCEPT ![t] = "share"]
    BY <1>2 DEF SWait1, SGoto, Quits
  <2>2. t \in begun
    BY <1>0 DEF begun
  <2>3. spc[Center] \notin {"oprf1", "inc1", "wait1", "func1"}
    <3>1. Cardinality(begun) # 0
      BY <1>0, <2>2, CountOfThreads
    <3> QED
      BY <2>1, <3>1 DEF BeginCounts
  <2>4. begun' = begun
    BY <1>0, <2>1 DEF begun
  <2>5. spc'[Center] = spc[Center]
    BY <1>0, <1>2, <2>1, Roles
  <2> QED
    BY <2>3, <2>4, <2>5 DEF BeginCounts
<1> QED
  BY <1>1, <1>2

LEMMA BeginReset ==
  ASSUME Places, BeginCounts, NEW t \in Threads, SReset1(t)
  PROVE  BeginCounts'
<1>0. t = Center /\ spc \in [Threads -> Range(SOrder)]
  BY DEF SReset1, SGoto, Places, SCenterOnly
<1>1. CASE SGoto(t, "func1", "reset1")
  <2>1. spc[Center] = "func1" /\ spc' = [spc EXCEPT ![Center] = "reset1"]
    BY <1>0, <1>1 DEF SGoto
  <2>2. begun' = begun
    BY <1>0, <2>1 DEF begun
  <2>3. spc'[Center] = "reset1"
    BY <1>0, <2>1
  <2> QED
    BY <1>0, <2>1, <2>2, <2>3 DEF BeginCounts
<1>2. CASE SGoto(t, "reset1", "share")
  BY <1>0, <1>2, BeginLater
<1> QED
  BY <1>1, <1>2 DEF SReset1

\* Every step of a server thread keeps the count.
LEMMA ServerBegins ==
  ASSUME Places, BeginCounts, NEW t \in Threads, Server(t)
  PROVE  BeginCounts'
<1> USE DEF serverFlags
<1>1. CASE SOprf1(t) \/ SInc1(t) \/ SWait1(t) \/ SReset1(t)
  BY <1>1, BeginOprf, BeginArrival, BeginPoll, BeginReset
<1>2. CASE SShare(t)
  BY <1>2, BeginLater DEF SShare
<1>3. CASE SInc2(t)
  BY <1>3, BeginLater DEF SInc2
<1>4. CASE SWait2(t)
  BY <1>4, BeginLater DEF SWait2
<1>5. CASE SReset2(t)
  BY <1>5, BeginLater DEF SReset2
<1>6. CASE SOprf2(t)
  BY <1>6, BeginLater DEF SOprf2
<1>7. CASE SWait3(t)
  <2>1. CASE t = Center
    BY <1>7, <2>1, BeginLater DEF SWait3
  <2>2. CASE t # Center
    BY <1>7, <2>2, BeginLater DEF SWait3
  <2> QED
    BY <2>1, <2>2
<1>8. CASE SSearch(t)
  BY <1>8, BeginLater DEF SSearch
<1>9. CASE SSciSend(t)
  BY <1>9, BeginLater DEF SSciSend
<1>10. CASE SSciRecv(t)
  BY <1>10, BeginLater DEF SSciRecv
<1> QED
  BY <1>1, <1>2, <1>3, <1>4, <1>5, <1>6, <1>7, <1>8, <1>9, <1>10 DEF Server
-----------------------------------------------------------------------------
(* The parties at the sites on Cf2.                                        *)

LEMMA PartySame ==
  ASSUME PartyCounts, cpc'[Leader] = cpc[Leader], cpc'[Center] = cpc[Center],
         UNCHANGED <<Cf2, g_received_count, warned>>
  PROVE  PartyCounts'
BY DEF PartyCounts

\* The leader goes on without touching the flag or the count; it goes past
\* the second site only when the flag is 0.
LEMMA LeaderGoes ==
  ASSUME Places, PartyCounts, NEW from, NEW to, CGoto(Leader, from, to),
         UNCHANGED <<Cf2, g_received_count, warned>>,
         from \in Before2 <=> to \in Before2,
         from \in Before3 <=> to \in Before3,
         from \in Counted <=> to \in Counted,
         to \in Before2 \cup {"wait2"} \/ from \notin Before2 \cup {"wait2"} \/ Cf2 = 0
  PROVE  PartyCounts'
<1>1. /\ cpc[Leader] = from /\ cpc'[Leader] = to /\ cpc'[Center] = cpc[Center]
      /\ from \in Before2 => to \in Before2
  BY Roles DEF CGoto, Places
<1>2. cpc[Center] \in Before2 \cup {"wait2", "func2"} =>
        to \in Before2 \cup {"wait2"}
  <2>1. SUFFICES ASSUME cpc[Center] \in Before2 \cup {"wait2", "func2"},
                        to \notin Before2 \cup {"wait2"}
                 PROVE  FALSE
    OBVIOUS
  <2>2. from \in Before2 \cup {"wait2"} /\ from \notin Before2
    BY <1>1, <2>1 DEF PartyCounts
  <2>3. Cf2 = 1 + Num(cpc[Center] \notin Before2)
    BY <1>1, <2>1, <2>2 DEF PartyCounts, Num
  <2> QED
    BY <2>1, <2>2, <2>3 DEF Num
<1>3. Num(cpc'[Leader] \notin Before2) = Num(cpc[Leader] \notin Before2)
  BY <1>1 DEF Num
<1>4. Num(cpc'[Leader] \notin Before3) = Num(cpc[Leader] \notin Before3)
  BY <1>1 DEF Num
<1>5. Num(cpc'[Leader] \in Counted) = Num(cpc[Leader] \in Counted)
  BY <1>1 DEF Num
<1> QED
  BY <1>1, <1>2, <1>3, <1>4, <1>5 DEF PartyCounts

\* So does the center, between its resets.
LEMMA CenterGoes ==
  ASSUME Places, PartyCounts, NEW from, NEW to, CGoto(Center, from, to),
         UNCHANGED <<Cf2, g_received_count, warned>>,
         \/ {from, to} \subseteq Before2
         \/ {from, to} \subseteq {"send", "recv", "count"}
         \/ {from, to} \subseteq {"reset3", "sci", "done"}
  PROVE  PartyCounts'
<1>1. cpc[Center] = from /\ cpc'[Center] = to /\ cpc'[Leader] = cpc[Leader]
  BY Roles DEF CGoto, Places
<1>2. CASE {from, to} \subseteq Before2
  <2>1. from \notin Counted /\ to \notin Counted
    BY <1>2 DEF Before2, Counted
  <2> QED
    BY <1>1, <1>2, <2>1 DEF PartyCounts, Num, Before2
<1>3. CASE {from, to} \subseteq {"send", "recv", "count"}
  BY <1>1, <1>3 DEF PartyCounts, Num, Before2, Counted
<1>4. CASE {from, to} \subseteq {"reset3", "sci", "done"}
  BY <1>1, <1>4 DEF PartyCounts, Before2
<1> QED
  BY <1>2, <1>3, <1>4

\* The leader counts itself at the second or third site, or counts its sum.
LEMMA LeaderCounts ==
  ASSUME Places, PartyCounts, CInc2(Leader) \/ CCount(Leader)
  PROVE  PartyCounts'
<1>0. cpc \in [Threads -> Range(COrder)] /\ cpc'[Center] = cpc[Center]
  BY Roles DEF Places, CInc2, CCount, CGoto
<1>1. CASE CInc2(Leader) /\ CGoto(Leader, "inc2", "wait2")
  <2>1. /\ cpc[Leader] = "inc2" /\ cpc'[Leader] = "wait2" /\ Cf2' = Cf2 + 1
        /\ UNCHANGED <<g_received_count, warned>>
    BY <1>0, <1>1, Roles DEF CInc2, CGoto, clientData
  <2>2. cpc[Center] \in Before2 \cup {"wait2"}
    BY <2>1 DEF PartyCounts, Before2
  <2> QED
    BY <1>0, <2>1, <2>2 DEF PartyCounts, Num, Before2, Before3, Counted
<1>2. CASE CInc2(Leader) /\ CGoto(Leader, "inc3", "wait3")
  <2>1. /\ cpc[Leader] = "inc3" /\ cpc'[Leader] = "wait3" /\ Cf2' = Cf2 + 1
        /\ UNCHANGED <<g_received_count, warned>>
    BY <1>0, <1>2, Roles DEF CInc2, CGoto, clientData
  <2>2. cpc[Center] \notin Before2 \cup {"wait2", "func2"}
    BY <2>1 DEF PartyCounts, Before2
  <2> QED
    BY <1>0, <2>1, <2>2 DEF PartyCounts, Num, Before2, Before3, Counted
<1>3. CASE CCount(Leader)
  <2>1. /\ cpc[Leader] = "count" /\ cpc'[Leader] = "inc3" /\ Cf2' = Cf2
        /\ g_received_count' = g_received_count + 1 /\ UNCHANGED warned
    BY <1>0, <1>3, Roles DEF CCount, CGoto, clientFlags
  <2>2. cpc[Center] \notin Before2 \cup {"wait2", "func2"}
    BY <2>1 DEF PartyCounts, Before2
  <2> QED
    BY <1>0, <2>1, <2>2 DEF PartyCounts, Num, Before2, Before3, Counted
<1> QED
  BY <1>1, <1>2, <1>3 DEF CInc2

LEMMA CenterCounts ==
  ASSUME Places, PartyCounts, CInc2(Center) \/ CCount(Center)
  PROVE  PartyCounts'
<1>0. cpc \in [Threads -> Range(COrder)] /\ cpc'[Leader] = cpc[Leader]
  BY Roles DEF Places, CInc2, CCount, CGoto
<1>1. CASE CInc2(Center) /\ CGoto(Center, "inc2", "wait2")
  <2>1. /\ cpc[Center] = "inc2" /\ cpc'[Center] = "wait2" /\ Cf2' = Cf2 + 1
        /\ UNCHANGED <<g_received_count, warned>>
    BY <1>0, <1>1, Roles DEF CInc2, CGoto, clientData
  <2> QED
    BY <1>0, <2>1 DEF PartyCounts, Num, Before2, Before3, Counted
<1>2. CASE CInc2(Center) /\ CGoto(Center, "inc3", "wait3")
  <2>1. /\ cpc[Center] = "inc3" /\ cpc'[Center] = "wait3" /\ Cf2' = Cf2 + 1
        /\ UNCHANGED <<g_received_count, warned>>
    BY <1>0, <1>2, Roles DEF CInc2, CGoto, clientData
  <2> QED
    BY <1>0, <2>1 DEF PartyCounts, Num, Before2, Before3, Counted
<1>3. CASE CCount(Center)
  <2>1. /\ cpc[Center] = "count" /\ cpc'[Center] = "inc3" /\ Cf2' = Cf2
        /\ g_received_count' = g_received_count + 1 /\ UNCHANGED warned
    BY <1>0, <1>3, Roles DEF CCount, CGoto, clientFlags
  <2> QED
    BY <1>0, <2>1 DEF PartyCounts, Num, Before2, Before3, Counted
<1> QED
  BY <1>1, <1>2, <1>3 DEF CInc2

\* The center goes past the second site with both parties there, and resets.
LEMMA CenterSite2 ==
  ASSUME Places, PartyCounts, CWait2(Center) \/ CReset2(Center)
  PROVE  PartyCounts'
<1>0. /\ cpc \in [Threads -> Range(COrder)] /\ cpc'[Leader] = cpc[Leader]
      /\ UNCHANGED <<g_received_count, warned>>
  BY Roles DEF Places, CWait2, CReset2, CGoto, clientData
<1>1. CASE CWait2(Center)
  <2>1. /\ cpc[Center] = "wait2" /\ cpc'[Center] = "func2" /\ Cf2 = 2 /\ Cf2' = Cf2
    BY <1>0, <1>1, Roles DEF CWait2, CGoto, Quits, clientFlags
  <2> QED
    BY <1>0, <2>1 DEF PartyCounts, Num, Before2, Before3, Counted
<1>2. CASE CReset2(Center) /\ CGoto(Center, "func2", "reset2")
  <2>1. cpc[Center] = "func2" /\ cpc'[Center] = "reset2" /\ Cf2' = 0
    BY <1>0, <1>2, Roles DEF CReset2, CGoto
  <2> QED
    BY <1>0, <2>1 DEF PartyCounts, Num, Before2, Before3, Counted
<1>3. CASE CReset2(Center) /\ CGoto(Center, "reset2", "send")
  <2>1. cpc[Center] = "reset2" /\ cpc'[Center] = "send" /\ Cf2' = 0
    BY <1>0, <1>3, Roles DEF CReset2, CGoto
  <2> QED
    BY <1>0, <2>1 DEF PartyCounts, Num, Before2, Before3, Counted
<1>4. CASE CReset2(Center) /\ CGoto(Center, "reset3", "sci")
  <2>1. cpc[Center] = "reset3" /\ cpc'[Center] = "sci" /\ Cf2' = 0
    BY <1>0, <1>4, Roles DEF CReset2, CGoto
  <2> QED
    BY <1>0, <2>1 DEF PartyCounts, Before2
<1> QED
  BY <1>1, <1>2, <1>3, <1>4 DEF CReset2

\* The center reads 2 at the third site only when the leader is there or past
\* it, which then has counted its sum; so nothing is warned of.
LEMMA CenterSite3 ==
  ASSUME Places, PartyCounts, CWait3(Center) \/ CFunc3(Center)
  PROVE  PartyCounts'
<1>0. cpc \in [Threads -> Range(COrder)] /\ cpc'[Leader] = cpc[Leader]
  BY Roles DEF Places, CWait3, CFunc3, CGoto
<1>1. CASE CWait3(Center)
  <2>1. /\ cpc[Center] = "wait3" /\ cpc'[Center] = "func3" /\ Cf2 = 2 /\ Cf2' = Cf2
        /\ UNCHANGED <<g_received_count, warned>>
    BY <1>0, <1>1, Roles DEF CWait3, CGoto, Quits, clientFlags, clientData
  <2> QED
    BY <1>0, <2>1 DEF PartyCounts, Num, Before2, Before3, Counted
<1>2. CASE CFunc3(Center)
  <2>1. cpc[Center] = "func3" /\ cpc'[Center] = "reset3" /\ Cf2' = 0
    BY <1>0, <1>2, Roles DEF CFunc3, CGoto
  <2>2. cpc[Leader] \in Counted
    <3>1. cpc[Leader] \in Range(COrder) /\ cpc[Leader] \notin Before3
      BY <1>0, <2>1, Roles DEF PartyCounts
    <3>2. cpc[Leader] \in {"wait3", "func3", "reset3", "sci", "done"}
      BY <3>1, Labels DEF Before2, Before3
    <3> QED
      BY <3>2 DEF Counted
  <2>3. g_received_count = 2
    BY <2>1, <2>2 DEF PartyCounts, Num, Counted
  <2>4. UNCHANGED warned
    BY <1>2, <2>3 DEF CFunc3
  <2> QED
    BY <1>0, <2>1, <2>4 DEF PartyCounts, Before2
<1> QED
  BY <1>1, <1>2

\* A thread that is not a party has none of the labels at which the flag, the
\* count or the warning changes.
LEMMA OthersDoNotCount ==
  ASSUME Places, PartyCounts, NEW t \in Threads \ Parties, Client(t)
  PROVE  PartyCounts'
<1>1. cpc[t] \notin PartyOnly
  BY DEF Places
<1>2. UNCHANGED <<Cf2, g_received_count, warned>>
  BY <1>1 DEF Client, COprf1, CInc1, CWait1, CReset1, COprf2, CInc2, CWait2,
              CReset2, CSend, CRecv, CCount, CWait3, CFunc3, CSci, CGoto,
              PartyOnly, CenterOnly, clientFlags, clientData
<1>3. \E to : cpc' = [cpc EXCEPT ![t] = to]
  BY DEF Client, COprf1, CInc1, CWait1, CReset1, COprf2, CInc2, CWait2,
         CReset2, CSend, CRecv, CCount, CWait3, CFunc3, CSci, CGoto
<1>4. cpc'[Leader] = cpc[Leader] /\ cpc'[Center] = cpc[Center]
  BY <1>3, Roles DEF Places
<1> QED
  BY <1>2, <1>4, PartySame

\* The leader's steps.
LEMMA LeaderSteps ==
  ASSUME Places, PartyCounts, Client(Leader)
  PROVE  PartyCounts'
<1> USE DEF clientFlags, clientData, Before2, Before3, Counted
<1>0. cpc[Leader] \notin CenterOnly
  BY Roles DEF Places
<1>1. CASE COprf1(Leader)
  BY <1>1, LeaderGoes DEF COprf1
<1>2. CASE CInc1(Leader)
  BY <1>2, LeaderGoes DEF CInc1
<1>3. CASE CWait1(Leader)
  BY <1>3, LeaderGoes, Roles DEF CWait1, AfterSite1
<1>4. CASE COprf2(Leader)
  BY <1>4, LeaderGoes DEF COprf2
<1>5. CASE CWait2(Leader)
  <2>1. CGoto(Leader, "wait2", "send") /\ Cf2 = 0
    BY <1>5, Roles DEF CWait2, Quits
  <2> QED
    BY <1>5, <2>1, LeaderGoes DEF CWait2
<1>6. CASE CSend(Leader)
  BY <1>6, LeaderGoes DEF CSend
<1>7. CASE CRecv(Leader)
  BY <1>7, LeaderGoes DEF CRecv
<1>8. CASE CWait3(Leader)
  BY <1>8, LeaderGoes, Roles DEF CWait3
<1>9. CASE CSci(Leader)
  BY <1>9, LeaderGoes DEF CSci
<1>10. ~CReset1(Leader) /\ ~CReset2(Leader) /\ ~CFunc3(Leader)
  BY <1>0 DEF CReset1, CReset2, CFunc3, CGoto, CenterOnly
<1> QED
  BY <1>1, <1>2, <1>3, <1>4, <1>5, <1>6, <1>7, <1>8, <1>9, <1>10, LeaderCounts
     DEF Client

\* The center's steps.
LEMMA CenterSteps ==
  ASSUME Places, PartyCounts, Client(Center)
  PROVE  PartyCounts'
<1> USE DEF clientFlags, clientData, Before2
<1>1. CASE COprf1(Center)
  BY <1>1, CenterGoes DEF COprf1
<1>2. CASE CInc1(Center)
  BY <1>2, CenterGoes DEF CInc1
<1>3. CASE CWait1(Center)
  BY <1>3, CenterGoes DEF CWait1
<1>4. CASE CReset1(Center)
  BY <1>4, CenterGoes, Roles DEF CReset1, AfterSite1
<1>5. CASE COprf2(Center)
  BY <1>5, CenterGoes DEF COprf2
<1>6. CASE CSend(Center)
  BY <1>6, CenterGoes DEF CSend
<1>7. CASE CRecv(Center)
  BY <1>7, CenterGoes DEF CRecv
<1>8. CASE CSci(Center)
  BY <1>8, CenterGoes DEF CSci
<1> QED
  BY <1>1, <1>2, <1>3, <1>4, <1>5, <1>6, <1>7, <1>8, CenterCounts, CenterSite2,
     CenterSite3 DEF Client
-----------------------------------------------------------------------------
(* The theorems.                                                           *)

LEMMA InitInvariant == Init => Invariant
<1> SUFFICES ASSUME Init
             PROVE  Invariant
  OBVIOUS
<1>1. /\ cpc = [t \in Threads |-> "oprf1"] /\ spc = [t \in Threads |-> "oprf1"]
      /\ Cf2 = 0 /\ Sf1 = 0 /\ g_received_count = 0 /\ warned = FALSE
      /\ corr = [t \in Threads |-> FALSE]
      /\ up = [t \in Threads |-> <<>>] /\ down = [t \in Threads |-> <<>>]
  BY DEF Init
<1>2. Places
  BY <1>1, Labels DEF Places, PartyOnly, CenterOnly, SPartyOnly, SCenterOnly
<1>3. PairsInStep
  <2>1. ASSUME NEW t \in Threads
        PROVE  Sockets(t) /\ FirstPrf(t)
    <3>1. Asks(t) /\ Silent(t) /\ ~Gone(t) /\ ~Waits(t) /\ ~Left(t)
      BY <1>1 DEF Asks, Silent, Gone, Waits, Left, AskLabels
    <3> QED
      BY <1>1, <3>1 DEF Sockets, PartyPair, OtherPair, FirstPrf
  <2> QED
    BY <1>1, <2>1 DEF PairsInStep
<1>4. BeginCounts
  <2>1. begun = {}
    BY <1>1 DEF begun
  <2> QED
    BY <1>1, <2>1, FS_EmptySet, Roles DEF BeginCounts
<1>5. PartyCounts
  BY <1>1, Roles DEF PartyCounts, Num, Before2, Before3, Counted
<1> QED
  BY <1>2, <1>3, <1>4, <1>5 DEF Invariant

\* The invariant is inductive.
LEMMA NextInvariant == Invariant /\ [Next]_vars => Invariant'
<1> SUFFICES ASSUME Invariant, [Next]_vars
             PROVE  Invariant'
  OBVIOUS
<1> USE DEF Invariant
<1>1. CASE UNCHANGED vars
  <2> USE <1>1 DEF vars, clientVars, clientFlags, clientData, serverVars,
                   serverFlags, serverData, netVars
  <2>1. Places'
    BY DEF Places
  <2>2. PairsInStep'
    <3>1. ASSUME NEW t \in Threads
          PROVE  Sockets(t)' /\ FirstPrf(t)'
      <4>1. Only(t)
        BY DEF Only
      <4>2. Sockets(t)' = Sockets(t) /\ FirstPrf(t)' = FirstPrf(t)
        BY DEF Sockets, PartyPair, OtherPair, FirstPrf, Asks, Expects, Holds,
               Gone, Silent, Answered, Waits, Left
      <4> QED
        BY <4>2 DEF PairsInStep
    <3> QED
      BY <3>1 DEF PairsInStep
  <2>3. BeginCounts'
    BY BeginSame
  <2>4. PartyCounts'
    BY PartySame
  <2> QED
    BY <2>1, <2>2, <2>3, <2>4
<1>2. ASSUME NEW t \in Threads, Client(t)
      PROVE  Invariant'
  <2>1. Places' /\ PairsInStep'
    BY <1>2, ClientPairs
  <2>2. UNCHANGED <<spc, Sf1>>
    BY <1>2 DEF Client, COprf1, CInc1, CWait1, CReset1, COprf2, CInc2, CWait2,
                CReset2, CSend, CRecv, CCount, CWait3, CFunc3, CSci,
                serverVars, serverFlags
  <2>3. BeginCounts'
    BY <2>2, BeginSame
  <2>4. PartyCounts'
    BY <1>2, OthersDoNotCount, LeaderSteps, CenterSteps, Roles
  <2> QED
    BY <2>1, <2>3, <2>4
<1>3. ASSUME NEW t \in Threads, Server(t)
      PROVE  Invariant'
  <2>1. Places' /\ PairsInStep' /\ BeginCounts'
    BY <1>3, ServerPairs, ServerBegins
  <2>2. UNCHANGED <<cpc, Cf2, g_received_count, warned>>
    BY <1>3 DEF Server, SOprf1, SInc1, SWait1, SReset1, SShare, SInc2, SWait2,
                SReset2, SOprf2, SWait3, SSearch, SSciSend, SSciRecv,
                clientVars, clientFlags, clientData
  <2>3. PartyCounts'
    BY <2>2, PartySame
  <2> QED
    BY <2>1, <2>3
<1> QED
  BY <1>1, <1>2, <1>3 DEF Next

LEMMA Invariance == Spec => []Invariant
BY InitInvariant, NextInvariant, PTL DEF Spec

\* The warning of run_smpaq's last site, "g_received_count ... may be error",
\* is printed in no run: the center reads 2 there only if the leader has
\* counted its sum, also when the leader's own increment of Cf2 was lost at
\* the site before and the leader has gone on alone.
THEOREM NeverWarns == Spec => []NeverWarned
<1>1. Invariant => NeverWarned
  BY DEF Invariant, PartyCounts, NeverWarned
<1> QED
  BY <1>1, Invariance, PTL

\* Every message on the unframed sockets is taken by the receive that it was
\* sent for, for any number of threads.
THEOREM InStep == Spec => []SocketsInStep
<1>1. ASSUME Invariant, NEW t \in Threads
      PROVE  /\ down[t] # <<>> /\ cpc[t] = "recv" => Head(down[t]).kind = "number"
             /\ down[t] # <<>> /\ cpc[t] = "sci" => Head(down[t]).kind = "sci"
             /\ up[t] # <<>> /\ spc[t] = "search" => Head(up[t]).kind = "ids"
             /\ up[t] # <<>> /\ spc[t] = "sciRecv" => Head(up[t]).kind = "sci"
  <2>1. CASE t \in Parties
    BY <1>1, <2>1, PairOf, Queues
       DEF Invariant, PartyPair, Asks, Expects, Holds, Gone, Silent, Answered,
           Waits, Left, AskLabels, HoldLabels
  <2>2. CASE t \notin Parties
    BY <1>1, <2>2, PairOf, Queues
       DEF Invariant, Places, PartyOnly, SPartyOnly, OtherPair, Gone, Waits, Left
  <2> QED
    BY <2>1, <2>2
<1>2. Invariant => SocketsInStep
  BY <1>1 DEF SocketsInStep
<1> QED
  BY <1>2, Invariance, PTL

\* The place of a label in program order: the first PRF comes before all else.
LEMMA FirstLabel ==
  /\ \A l \in Range(COrder) : l # "oprf1" => Place(COrder, l) > Place(COrder, "oprf1")
  /\ \A l \in Range(SOrder) : l # "oprf1" => Place(SOrder, l) > Place(SOrder, "oprf1")
<1>1. Place(COrder, "oprf1") = 1 /\ DOMAIN COrder = 1..19
  BY DEF Place, COrder
<1>2. ASSUME NEW l \in Range(COrder)
      PROVE  Place(COrder, l) \in 1..19 /\ COrder[Place(COrder, l)] = l
  BY <1>1 DEF Place, Range
<1>3. Place(SOrder, "oprf1") = 1 /\ DOMAIN SOrder = 1..18
  BY DEF Place, SOrder
<1>4. ASSUME NEW l \in Range(SOrder)
      PROVE  Place(SOrder, l) \in 1..18 /\ SOrder[Place(SOrder, l)] = l
  BY <1>3 DEF Place, Range
<1>5. COrder[1] = "oprf1" /\ SOrder[1] = "oprf1"
  BY DEF COrder, SOrder
<1> QED
  BY <1>1, <1>2, <1>3, <1>4, <1>5

\* A thread comes out of run_smpaq only after every thread of both processes has
\* been through its first PRF: the site on Sf1 holds the server's threads
\* together, and each of them holds the client's thread of its number.
THEOREM BeginFirst == Spec => []EndsAfterAllBegan
<1>1. ASSUME Invariant, NEW t \in Threads, cpc[t] = "done" \/ spc[t] = "done",
             NEW u \in Threads
      PROVE  CPast(u, "oprf1") /\ SPast(u, "oprf1")
  <2>1. spc[t] \in {"sciRecv", "done"}
    BY <1>1, PairOf
       DEF Invariant, PartyPair, OtherPair, Asks, Expects, Holds, Gone, Waits, Left,
           AskLabels, HoldLabels
  <2>2. begun = Threads
    BY <1>1, <2>1 DEF Invariant, BeginCounts
  <2>3. spc[u] # "oprf1"
    BY <1>1, <2>2 DEF begun
  <2>4. cpc[u] # "oprf1"
    BY <1>1, <2>3 DEF Invariant, PairsInStep, FirstPrf
  <2>5. cpc[u] \in Range(COrder) /\ spc[u] \in Range(SOrder)
    BY <1>1 DEF Invariant, Places
  <2> QED
    BY <2>3, <2>4, <2>5, FirstLabel DEF CPast, SPast
<1>2. Invariant => EndsAfterAllBegan
  BY <1>1 DEF EndsAfterAllBegan
<1> QED
  BY <1>2, Invariance, PTL
-----------------------------------------------------------------------------
(* Sites whose function resets the flag.                                   *)

\* The labels r after a function that has reset the flag already: the special
\* thread is still at the site, but holds nobody back any more.
Late(s, r, pc) == HaveLeft(s, pc) \ {u \in {s.special} : pc[u] \in r}
\* A step keeps a site whose special thread has left it before r: it meets, and
\* what changes is what a rendezvous allows.
KeptEarly(s, r, pc, pcn, flag) ==
  /\ Meets(s, pcn, flag)
  /\ Acts(s, Arrived(s, pc), Arrived(s, pcn), HasRun(s, pc), HasRun(s, pcn),
          Late(s, r, pc), Late(s, r, pcn))

\* What the code does at a site: come nearer; count itself; read the full
\* count; read 0; pass without being counted; reset; be on its way from there.
Legal(s, r, t, from, to, flag, flagn) ==
  \/ /\ from \in s.before /\ flagn = flag
     /\ to \in s.before \/ (to \in s.wait /\ t \notin s.arrivers)
  \/ t \in s.arrivers /\ from \in s.before /\ to \in s.wait /\ flagn = flag + 1
  \/ /\ t = s.special /\ from \in s.wait /\ to \in s.func \cup s.reset
     /\ flag = Cardinality(s.arrivers) /\ flagn = flag
  \/ /\ t \in s.arrivers \ {s.special} /\ from \in s.wait /\ to \notin Inside(s) \cup r
     /\ flag = 0 /\ flagn = flag
  \/ /\ t \notin s.arrivers \cup {s.special} /\ from \in s.wait /\ to \notin Inside(s) \cup r
     /\ flagn = flag
  \/ t = s.special /\ from \in s.reset /\ to \notin Inside(s) \cup r
  \/ t = s.special /\ from \in s.func /\ to \in r
  \/ t = s.special /\ from \in r /\ to \notin Inside(s) \cup r
  \/ /\ {from, to} \cap (Inside(s) \cup r) = {}
     /\ flagn = flag \/ t \in s.arrivers \cup {s.special}

\* A thread that is not counted leaves.
LEMMA PassesBy ==
  ASSUME NEW s, NEW pc, NEW pcn, NEW t, NEW from, NEW to, NEW flag,
         IsSite(s), Meets(s, pc, flag), Goes(s, pc, pcn, t, from, to),
         t \notin s.arrivers \cup {s.special}, from \in s.wait, to \notin Inside(s)
  PROVE  Kept(s, pc, pcn, flag)
<1>1. /\ t \in s.threads /\ pc[t] = from /\ pcn[t] = to
      /\ \A u \in s.threads : u # t => pcn[u] = pc[u]
      /\ s.special \in s.threads /\ s.arrivers \subseteq s.threads
  BY GoesFacts
<1>2. Arrived(s, pcn) = Arrived(s, pc) /\ pcn[s.special] = pc[s.special]
  BY <1>1 DEF Arrived
<1>3. HasRun(s, pcn) = HasRun(s, pc)
  BY <1>2 DEF HasRun
<1>4. t \notin HaveLeft(s, pc) /\ HaveLeft(s, pcn) = HaveLeft(s, pc) \cup {t}
  BY <1>1 DEF HaveLeft, Inside
<1>5. \A u \in s.arrivers : pcn[u] = pc[u]
  BY <1>1
<1>6. Meets(s, pcn, flag)
  BY <1>2, <1>5 DEF Meets
<1>7. MayLeave(s, pc, pcn, t)
  BY <1>1, <1>2, <1>3, <1>4 DEF MayLeave
<1> QED
  BY <1>1, <1>6, <1>7 DEF Kept, Promised

\* The special thread's function resets the flag.
LEMMA RunResets ==
  ASSUME NEW s, NEW r, NEW pc, NEW pcn, NEW t, NEW from, NEW to, NEW flag, NEW flagn,
         IsSite(s), r \cap Inside(s) = {}, Meets(s, pc, flag),
         Goes(s, pc, pcn, t, from, to), t = s.special, from \in s.func, to \in r
  PROVE  KeptEarly(s, r, pc, pcn, flagn)
<1>1. /\ t \in s.threads /\ pc[t] = from /\ pcn[t] = to
      /\ \A u \in s.threads : u # t => pcn[u] = pc[u]
      /\ s.special \in s.threads /\ s.arrivers \subseteq s.threads
  BY GoesFacts
<1>2. /\ from \notin s.before \cup s.wait /\ from \in Inside(s)
      /\ to \notin Inside(s) /\ to \notin s.before \cup s.wait \cup s.func
  BY DEF IsSite, Inside
<1>3. Arrived(s, pc) = s.arrivers /\ Arrived(s, pcn) = Arrived(s, pc)
  BY <1>1, <1>2 DEF Arrived, Meets
<1>4. ~HasRun(s, pc) /\ HasRun(s, pcn) = TRUE
  BY <1>1, <1>2 DEF HasRun
<1>5. HaveLeft(s, pcn) = HaveLeft(s, pc) \cup {t} /\ t \notin HaveLeft(s, pc)
  BY <1>1, <1>2 DEF HaveLeft
<1>6. Late(s, r, pcn) = Late(s, r, pc)
  BY <1>1, <1>5 DEF Late
<1>7. Meets(s, pcn, flagn)
  BY <1>1, <1>2, <1>3 DEF Meets
<1> QED
  BY <1>3, <1>4, <1>6, <1>7 DEF KeptEarly, Acts

\* waitFor resets it once more, and the special thread leaves.
LEMMA ResetsAgain ==
  ASSUME NEW s, NEW r, NEW pc, NEW pcn, NEW t, NEW from, NEW to, NEW flag, NEW flagn,
         IsSite(s), r \cap Inside(s) = {}, Meets(s, pc, flag),
         Goes(s, pc, pcn, t, from, to), t = s.special, from \in r, to \notin Inside(s) \cup r
  PROVE  KeptEarly(s, r, pc, pcn, flagn)
<1>1. /\ t \in s.threads /\ pc[t] = from /\ pcn[t] = to
      /\ \A u \in s.threads : u # t => pcn[u] = pc[u]
      /\ s.special \in s.threads /\ s.arrivers \subseteq s.threads
  BY GoesFacts
<1>2. from \notin Inside(s) /\ to \notin Inside(s) /\ to \notin r
  OBVIOUS
<1>3. Arrived(s, pc) = s.arrivers /\ Arrived(s, pcn) = Arrived(s, pc)
  BY <1>1, <1>2 DEF Arrived, Meets, Inside
<1>4. HasRun(s, pc) = TRUE /\ HasRun(s, pcn) = TRUE
  BY <1>1, <1>2 DEF HasRun, Inside
<1>5. HaveLeft(s, pcn) = HaveLeft(s, pc) /\ t \in HaveLeft(s, pc)
  BY <1>1, <1>2 DEF HaveLeft
<1>6. Late(s, r, pcn) = Late(s, r, pc) \cup {t} /\ t \notin Late(s, r, pc)
  BY <1>1, <1>2, <1>5 DEF Late
<1>7. Meets(s, pcn, flagn)
  BY <1>1, <1>2, <1>3 DEF Meets
<1> QED
  BY <1>1, <1>3, <1>4, <1>6, <1>7 DEF KeptEarly, Acts

\* The other steps are those of a site without such labels.
LEMMA KeptIsEarly ==
  ASSUME NEW s, NEW r, NEW pc, NEW pcn, NEW t, NEW from, NEW to, NEW flag,
         IsSite(s), r \cap Inside(s) = {}, Goes(s, pc, pcn, t, from, to),
         Kept(s, pc, pcn, flag), t # s.special \/ {from, to} \cap r = {}
  PROVE  KeptEarly(s, r, pc, pcn, flag)
<1> DEFINE E == {u \in {s.special} : pc[u] \in r}
<1>1. /\ t \in s.threads /\ pc[t] = from /\ pcn[t] = to
      /\ \A u \in s.threads : u # t => pcn[u] = pc[u]
      /\ s.special \in s.threads /\ s.arrivers \subseteq s.threads
  BY GoesFacts
<1>2. E = {u \in {s.special} : pcn[u] \in r} /\ E \subseteq HaveLeft(s, pc)
  BY <1>1 DEF HaveLeft
<1>3. Late(s, r, pc) = HaveLeft(s, pc) \ E /\ Late(s, r, pcn) = HaveLeft(s, pcn) \ E
  BY <1>2 DEF Late
<1> HIDE DEF E
<1>4. HasRun(s, pc) \in BOOLEAN /\ HasRun(s, pcn) \in BOOLEAN
  BY DEF HasRun
<1>5. CASE SameSite(s, pc, pcn)
  BY <1>3, <1>5 DEF SameSite, Acts, KeptEarly, Kept
<1>6. CASE MayRun(s, pc, pcn)
  BY <1>3, <1>4, <1>6 DEF MayRun, Acts, KeptEarly, Kept
<1>7. ASSUME NEW u \in s.threads, MayArrive(s, pc, pcn, u)
      PROVE  KeptEarly(s, r, pc, pcn, flag)
  <2>1. Late(s, r, pcn) = Late(s, r, pc)
    BY <1>3, <1>7 DEF MayArrive
  <2> QED
    BY <1>7, <2>1 DEF MayArrive, Acts, KeptEarly, Kept
<1>8. ASSUME NEW u \in s.threads, MayLeave(s, pc, pcn, u)
      PROVE  KeptEarly(s, r, pc, pcn, flag)
  <2>1. u \notin Late(s, r, pc) /\ Late(s, r, pcn) = Late(s, r, pc) \cup {u}
    BY <1>2, <1>3, <1>8 DEF MayLeave
  <2> QED
    BY <1>8, <2>1 DEF MayLeave, Acts, KeptEarly, Kept
<1> QED
  BY <1>5, <1>6, <1>7, <1>8 DEF Kept, Promised

\* Whatever of this a thread does, the site is kept.
LEMMA LegalKeeps ==
  ASSUME NEW s, NEW r, NEW pc, NEW pcn, NEW t, NEW from, NEW to, NEW flag, NEW flagn,
         IsSite(s), r \cap Inside(s) = {}, Meets(s, pc, flag),
         Goes(s, pc, pcn, t, from, to), Legal(s, r, t, from, to, flag, flagn)
  PROVE  KeptEarly(s, r, pc, pcn, flagn)
<1>1. CASE /\ from \in s.before /\ (to \in s.before \/ (to \in s.wait /\ t \notin s.arrivers))
           /\ flagn = flag
  <2>1. Kept(s, pc, pcn, flagn)
    BY <1>1, Approaches
  <2>2. from \notin r /\ to \notin r
    BY <1>1 DEF Inside
  <2> QED
    BY <2>1, <2>2, KeptIsEarly
<1>2. CASE t \in s.arrivers /\ from \in s.before /\ to \in s.wait /\ flagn = flag + 1
  <2>1. Kept(s, pc, pcn, flagn)
    BY <1>2, Arrives
  <2>2. from \notin r /\ to \notin r
    BY <1>2 DEF Inside
  <2> QED
    BY <2>1, <2>2, KeptIsEarly
<1>3. CASE /\ t = s.special /\ from \in s.wait /\ to \in s.func \cup s.reset
           /\ flag = Cardinality(s.arrivers) /\ flagn = flag
  <2>1. Kept(s, pc, pcn, flagn)
    BY <1>3, SeesAll
  <2>2. from \notin r /\ to \notin r
    BY <1>3 DEF Inside
  <2> QED
    BY <2>1, <2>2, KeptIsEarly
<1>4. CASE /\ t \in s.arrivers \ {s.special} /\ from \in s.wait /\ to \notin Inside(s) \cup r
           /\ flag = 0 /\ flagn = flag
  <2>1. Kept(s, pc, pcn, flagn)
    BY <1>4, SeesZero
  <2> QED
    BY <1>4, <2>1, KeptIsEarly
<1>5. CASE /\ t \notin s.arrivers \cup {s.special} /\ from \in s.wait
           /\ to \notin Inside(s) \cup r /\ flagn = flag
  <2>1. Kept(s, pc, pcn, flagn)
    BY <1>5, PassesBy
  <2> QED
    BY <1>5, <2>1, KeptIsEarly
<1>6. CASE t = s.special /\ from \in s.reset /\ to \notin Inside(s) \cup r
  <2>1. Kept(s, pc, pcn, flagn)
    BY <1>6, Resets
  <2>2. from \notin r /\ to \notin r
    BY <1>6 DEF Inside
  <2> QED
    BY <2>1, <2>2, KeptIsEarly
<1>7. CASE t = s.special /\ from \in s.func /\ to \in r
  BY <1>7, RunResets
<1>8. CASE t = s.special /\ from \in r /\ to \notin Inside(s) \cup r
  BY <1>8, ResetsAgain
<1>9. CASE /\ {from, to} \cap (Inside(s) \cup r) = {}
           /\ flagn = flag \/ t \in s.arrivers \cup {s.special}
  <2>1. from \notin Inside(s) /\ to \notin Inside(s) /\ {from, to} \cap r = {}
    BY <1>9
  <2>2. Kept(s, pc, pcn, flagn)
    BY <1>9, <2>1, GoesOn
  <2> QED
    BY <2>1, <2>2, KeptIsEarly
<1> QED
  BY <1>1, <1>2, <1>3, <1>4, <1>5, <1>6, <1>7, <1>8, <1>9 DEF Legal
-----------------------------------------------------------------------------
(* The five sites that are a rendezvous.                                   *)

\* Who arrives where, by label: ahead of the wait, in it, in the special
\* thread's function, at its reset.
ClientSite1 == [threads |-> Threads, arrivers |-> Threads, special |-> Center,
                before |-> {"oprf1", "inc1"},
                wait |-> {"wait1"}, func |-> {"func1"}, reset |-> {}]
ClientSite2 == [threads |-> Threads, arrivers |-> Parties, special |-> Center,
                before |-> Before2,
                wait |-> {"wait2"}, func |-> {"func2"}, reset |-> {}]
ServerSite1 == [threads |-> Threads, arrivers |-> Threads, special |-> Center,
                before |-> {"oprf1", "inc1"},
                wait |-> {"wait1"}, func |-> {"func1"}, reset |-> {}]
ServerSite2 == [threads |-> Threads, arrivers |-> Threads, special |-> Leader,
                before |-> {"oprf1", "inc1", "wait1", "func1", "reset1", "share", "inc2"},
                wait |-> {"wait2"}, func |-> {}, reset |-> {"reset2"}]
ServerSite3 == [threads |-> Threads, arrivers |-> Parties, special |-> Center,
                before |-> {"oprf1", "inc1", "wait1", "func1", "reset1", "share", "inc2",
                            "wait2", "reset2", "oprf2", "inc3"},
                wait |-> {"wait3"}, func |-> {"func3"}, reset |-> {}]

\* Sf2 is the flag of the last site once the leader has left the other one.
Again(pc, flag) == IF pc[Leader] \in Inside(ServerSite2) THEN 0 ELSE flag

\* The counts that Invariant does not have.
SitesMeet ==
  /\ Meets(ClientSite1, cpc, Cf1)
  /\ Meets(ServerSite2, spc, Sf2) /\ Meets(ServerSite3, spc, Again(spc, Sf2))
LeaderResets == \A t \in Threads : spc[t] = "reset2" => t = Leader
SiteInvariant == Invariant /\ LeaderResets /\ SitesMeet

\* What is where at every site.
LEMMA ClientSites ==
  /\ ClientSite1.threads = Threads /\ ClientSite1.arrivers = Threads
  /\ ClientSite1.special = Center /\ ClientSite1.before = {"oprf1", "inc1"}
  /\ ClientSite1.wait = {"wait1"} /\ ClientSite1.func = {"func1"} /\ ClientSite1.reset = {}
  /\ Inside(ClientSite1) = {"oprf1", "inc1", "wait1", "func1"}
  /\ ClientSite2.threads = Threads /\ ClientSite2.arrivers = Parties
  /\ ClientSite2.special = Center
  /\ ClientSite2.before = {"oprf1", "inc1", "wait1", "func1", "reset1", "oprf2", "inc2"}
  /\ ClientSite2.wait = {"wait2"} /\ ClientSite2.func = {"func2"} /\ ClientSite2.reset = {}
  /\ Inside(ClientSite2) = {"oprf1", "inc1", "wait1", "func1", "reset1", "oprf2", "inc2",
                            "wait2", "func2"}
BY DEF ClientSite1, ClientSite2, Inside, Before2

\* The same for the server's first two sites.
LEMMA ServerSites ==
  /\ ServerSite1.threads = Threads /\ ServerSite1.arrivers = Threads
  /\ ServerSite1.special = Center /\ ServerSite1.before = {"oprf1", "inc1"}
  /\ ServerSite1.wait = {"wait1"} /\ ServerSite1.func = {"func1"} /\ ServerSite1.reset = {}
  /\ Inside(ServerSite1) = {"oprf1", "inc1", "wait1", "func1"}
  /\ ServerSite2.threads = Threads /\ ServerSite2.arrivers = Threads
  /\ ServerSite2.special = Leader
  /\ ServerSite2.before = {"oprf1", "inc1", "wait1", "func1", "reset1", "share", "inc2"}
  /\ ServerSite2.wait = {"wait2"} /\ ServerSite2.func = {} /\ ServerSite2.reset = {"reset2"}
  /\ Inside(ServerSite2) = {"oprf1", "inc1", "wait1", "func1", "reset1", "share", "inc2",
                            "wait2", "reset2"}
BY DEF ServerSite1, ServerSite2, Inside

\* And for its last.
LEMMA LastServerSite ==
  /\ ServerSite3.threads = Threads /\ ServerSite3.arrivers = Parties
  /\ ServerSite3.special = Center
  /\ ServerSite3.before = {"oprf1", "inc1", "wait1", "func1", "reset1", "share", "inc2",
                           "wait2", "reset2", "oprf2", "inc3"}
  /\ ServerSite3.wait = {"wait3"} /\ ServerSite3.func = {"func3"} /\ ServerSite3.reset = {}
  /\ Inside(ServerSite3) = {"oprf1", "inc1", "wait1", "func1", "reset1", "share", "inc2",
                            "wait2", "reset2", "oprf2", "inc3", "wait3", "func3"}
BY DEF ServerSite3, Inside

\* Two of a kind.
LEMMA TwoParties ==
  ASSUME NEW a, NEW b, a # b
  PROVE  IsFiniteSet({a, b}) /\ Cardinality({a, b}) = 2
<1>1. IsFiniteSet({a}) /\ Cardinality({a}) = 1 /\ {a, b} = {a} \cup {b} /\ b \notin {a}
  BY FS_Singleton
<1> QED
  BY <1>1, FS_AddElement

\* They are sites in the sense of RunProofs, where N or two threads are counted.
LEMMA AreSites ==
  /\ IsSite(ClientSite1) /\ IsSite(ClientSite2)
  /\ IsSite(ServerSite1) /\ IsSite(ServerSite2) /\ IsSite(ServerSite3)
  /\ Cardinality(Threads) = N /\ Cardinality(Parties) = 2
<1>1. IsFiniteSet(Threads) /\ Cardinality(Threads) = N
  BY FS_Interval, ProtocolAssumption DEF Threads
<1>2. IsFiniteSet(Parties) /\ Cardinality(Parties) = 2
  BY Roles, TwoParties DEF Parties
<1>3. IsSite(ClientSite1) /\ IsSite(ClientSite2)
  BY <1>1, <1>2, Roles, ClientSites DEF IsSite
<1>4. IsSite(ServerSite1) /\ IsSite(ServerSite2)
  BY <1>1, Roles, ServerSites DEF IsSite
<1>5. IsSite(ServerSite3)
  BY <1>2, Roles, LastServerSite DEF IsSite
<1> QED
  BY <1>1, <1>2, <1>3, <1>4, <1>5

\* What BeginCounts and PartyCounts say of a site, in these terms.
LEMMA OtherSitesMeet ==
  ASSUME Invariant
  PROVE  Meets(ClientSite2, cpc, Cf2) /\ Meets(ServerSite1, spc, Sf1)
<1>1. Meets(ServerSite1, spc, Sf1)
  <2>1. Arrived(ServerSite1, spc) = begun
    BY ServerSites DEF Arrived, begun
  <2> QED
    BY <2>1, ServerSites DEF Meets, Invariant, BeginCounts
<1>2. Meets(ClientSite2, cpc, Cf2)
  <2> DEFINE A == Arrived(ClientSite2, cpc)
  <2>1. /\ A = {p \in Parties : cpc[p] \notin Before2}
        /\ Parties = {Leader, Center} /\ Leader # Center
    BY ClientSites, Roles DEF Arrived, Before2, Parties
  <2>2. Cardinality(A) = Num(cpc[Leader] \notin Before2) + Num(cpc[Center] \notin Before2)
    <3>1. CASE cpc[Leader] \notin Before2 /\ cpc[Center] \notin Before2
      <4>1. A = {Leader, Center}
        BY <2>1, <3>1
      <4>2. Cardinality({Leader, Center}) = 2
        BY Roles, TwoParties
      <4> QED
        BY <3>1, <4>1, <4>2 DEF Num
    <3>2. CASE cpc[Leader] \notin Before2 /\ ~(cpc[Center] \notin Before2)
      <4>1. A = {Leader}
        BY <2>1, <3>2
      <4> QED
        BY <3>2, <4>1, FS_Singleton DEF Num
    <3>3. CASE ~(cpc[Leader] \notin Before2) /\ cpc[Center] \notin Before2
      <4>1. A = {Center}
        BY <2>1, <3>3
      <4> QED
        BY <3>3, <4>1, FS_Singleton DEF Num
    <3>4. CASE ~(cpc[Leader] \notin Before2) /\ ~(cpc[Center] \notin Before2)
      <4>1. A = {}
        BY <2>1, <3>4
      <4> QED
        BY <3>4, <4>1, FS_EmptySet DEF Num
    <3> QED
      BY <3>1, <3>2, <3>3, <3>4
  <2>3. /\ cpc[Center] \in Before2 \cup {"wait2", "func2"} =>
             /\ Cf2 = Cardinality(A)
             /\ cpc[Leader] \in Before2 \cup {"wait2"}
        /\ cpc[Center] \notin Before2 \cup {"wait2"} => cpc[Leader] \notin Before2
    BY <2>2 DEF Invariant, PartyCounts
  <2>4. cpc[Center] \notin Before2 \cup {"wait2"} => A = Parties
    BY <2>1, <2>3
  <2> HIDE DEF A
  <2>5. /\ ClientSite2.before = Before2 /\ Inside(ClientSite2) = Before2 \cup {"wait2", "func2"}
        /\ ClientSite2.wait = {"wait2"} /\ ClientSite2.arrivers = {Leader, Center}
        /\ ClientSite2.special = Center
    BY ClientSites, <2>1 DEF Before2
  <2> QED
    BY <2>1, <2>3, <2>4, <2>5 DEF Meets, A
<1> QED
  BY <1>1, <1>2
-----------------------------------------------------------------------------
(* The steps at the sites.                                                 *)

\* A step of the client, at both of its sites.
ClientLegal(t, from, to) ==
  /\ CGoto(t, from, to)
  /\ Legal(ClientSite1, {"reset1"}, t, from, to, Cf1, Cf1')
  /\ Legal(ClientSite2, {"reset2"}, t, from, to, Cf2, Cf2')

\* The client's steps are what a site allows.
LEMMA ClientIsLegal ==
  ASSUME Places, NEW t \in Threads, Client(t)
  PROVE  \E from, to : ClientLegal(t, from, to)
<1>0. /\ Leader # Center /\ (t \in Parties <=> t = Leader \/ t = Center)
      /\ cpc[t] \in PartyOnly => t \in Parties
      /\ cpc[t] \in CenterOnly => t = Center
      /\ Cardinality(Threads) = N /\ Cardinality(Parties) = 2
  BY Roles, AreSites DEF Places, Parties
<1>1. CASE COprf1(t)
  <2>1. CGoto(t, "oprf1", "inc1") /\ Cf1' = Cf1 /\ Cf2' = Cf2
    BY <1>0, <1>1 DEF COprf1, CGoto, clientFlags, PartyOnly, CenterOnly
  <2>2. Legal(ClientSite1, {"reset1"}, t, "oprf1", "inc1", Cf1, Cf1')
    BY <1>0, <1>1, <2>1, ClientSites DEF Legal
  <2>3. Legal(ClientSite2, {"reset2"}, t, "oprf1", "inc1", Cf2, Cf2')
    BY <1>0, <1>1, <2>1, ClientSites DEF Legal
  <2> QED
    BY <2>1, <2>2, <2>3 DEF ClientLegal
<1>2. CASE CInc1(t)
  <2>1. CGoto(t, "inc1", "wait1") /\ Cf1' = Cf1 + 1 /\ Cf2' = Cf2
    BY <1>0, <1>2 DEF CInc1, CGoto, clientFlags, PartyOnly, CenterOnly
  <2>2. Legal(ClientSite1, {"reset1"}, t, "inc1", "wait1", Cf1, Cf1')
    BY <1>0, <1>2, <2>1, ClientSites DEF Legal
  <2>3. Legal(ClientSite2, {"reset2"}, t, "inc1", "wait1", Cf2, Cf2')
    BY <1>0, <1>2, <2>1, ClientSites DEF Legal
  <2> QED
    BY <2>1, <2>2, <2>3 DEF ClientLegal
<1>3. CASE CWait1(t) /\ t = Center
  <2>1. CGoto(t, "wait1", "func1") /\ Cf1 = N /\ Cf1' = Cf1 /\ Cf2' = Cf2
    BY <1>0, <1>3 DEF CWait1, Quits, AfterSite1, CGoto, clientFlags, PartyOnly, CenterOnly
  <2>2. Legal(ClientSite1, {"reset1"}, t, "wait1", "func1", Cf1, Cf1')
    BY <1>0, <1>3, <2>1, ClientSites DEF Legal
  <2>3. Legal(ClientSite2, {"reset2"}, t, "wait1", "func1", Cf2, Cf2')
    BY <1>0, <1>3, <2>1, ClientSites DEF Legal
  <2> QED
    BY <2>1, <2>2, <2>3 DEF ClientLegal
<1>4. CASE CWait1(t) /\ t = Leader
  <2>1. CGoto(t, "wait1", "oprf2") /\ Cf1 = 0 /\ Cf1' = Cf1 /\ Cf2' = Cf2
    BY <1>0, <1>4 DEF CWait1, Quits, AfterSite1, CGoto, clientFlags, PartyOnly, CenterOnly
  <2>2. Legal(ClientSite1, {"reset1"}, t, "wait1", "oprf2", Cf1, Cf1')
    BY <1>0, <1>4, <2>1, ClientSites DEF Legal
  <2>3. Legal(ClientSite2, {"reset2"}, t, "wait1", "oprf2", Cf2, Cf2')
    BY <1>0, <1>4, <2>1, ClientSites DEF Legal
  <2> QED
    BY <2>1, <2>2, <2>3 DEF ClientLegal
<1>5. CASE CWait1(t) /\ t \notin Parties
  <2>1. CGoto(t, "wait1", "wait2") /\ Cf1 = 0 /\ Cf1' = Cf1 /\ Cf2' = Cf2
    BY <1>0, <1>5 DEF CWait1, Quits, AfterSite1, CGoto, clientFlags, PartyOnly, CenterOnly
  <2>2. Legal(ClientSite1, {"reset1"}, t, "wait1", "wait2", Cf1, Cf1')
    BY <1>0, <1>5, <2>1, ClientSites DEF Legal
  <2>3. Legal(ClientSite2, {"reset2"}, t, "wait1", "wait2", Cf2, Cf2')
    BY <1>0, <1>5, <2>1, ClientSites DEF Legal
  <2> QED
    BY <2>1, <2>2, <2>3 DEF ClientLegal
<1>6. CASE CReset1(t) /\ cpc[t] = "func1"
  <2>1. CGoto(t, "func1", "reset1") /\ t = Center /\ Cf2' = Cf2
    BY <1>0, <1>6 DEF CReset1, AfterSite1, CGoto, clientFlags, PartyOnly, CenterOnly
  <2>2. Legal(ClientSite1, {"reset1"}, t, "func1", "reset1", Cf1, Cf1')
    BY <1>0, <1>6, <2>1, ClientSites DEF Legal
  <2>3. Legal(ClientSite2, {"reset2"}, t, "func1", "reset1", Cf2, Cf2')
    BY <1>0, <1>6, <2>1, ClientSites DEF Legal
  <2> QED
    BY <2>1, <2>2, <2>3 DEF ClientLegal
<1>7. CASE CReset1(t) /\ cpc[t] = "reset1"
  <2>1. CGoto(t, "reset1", "oprf2") /\ t = Center /\ Cf2' = Cf2
    BY <1>0, <1>7 DEF CReset1, AfterSite1, CGoto, clientFlags, PartyOnly, CenterOnly
  <2>2. Legal(ClientSite1, {"reset1"}, t, "reset1", "oprf2", Cf1, Cf1')
    BY <1>0, <1>7, <2>1, ClientSites DEF Legal
  <2>3. Legal(ClientSite2, {"reset2"}, t, "reset1", "oprf2", Cf2, Cf2')
    BY <1>0, <1>7, <2>1, ClientSites DEF Legal
  <2> QED
    BY <2>1, <2>2, <2>3 DEF ClientLegal
<1>8. CASE COprf2(t)
  <2>1. CGoto(t, "oprf2", "inc2") /\ t \in Parties /\ Cf1' = Cf1 /\ Cf2' = Cf2
    BY <1>0, <1>8 DEF COprf2, CGoto, clientFlags, PartyOnly, CenterOnly
  <2>2. Legal(ClientSite1, {"reset1"}, t, "oprf2", "inc2", Cf1, Cf1')
    BY <1>0, <1>8, <2>1, ClientSites DEF Legal
  <2>3. Legal(ClientSite2, {"reset2"}, t, "oprf2", "inc2", Cf2, Cf2')
    BY <1>0, <1>8, <2>1, ClientSites DEF Legal
  <2> QED
    BY <2>1, <2>2, <2>3 DEF ClientLegal
<1>9. CASE CInc2(t) /\ cpc[t] = "inc2"
  <2>1. CGoto(t, "inc2", "wait2") /\ t \in Parties /\ Cf1' = Cf1 /\ Cf2' = Cf2 + 1
    BY <1>0, <1>9 DEF CInc2, CGoto, clientFlags, PartyOnly, CenterOnly
  <2>2. Legal(ClientSite1, {"reset1"}, t, "inc2", "wait2", Cf1, Cf1')
    BY <1>0, <1>9, <2>1, ClientSites DEF Legal
  <2>3. Legal(ClientSite2, {"reset2"}, t, "inc2", "wait2", Cf2, Cf2')
    BY <1>0, <1>9, <2>1, ClientSites DEF Legal
  <2> QED
    BY <2>1, <2>2, <2>3 DEF ClientLegal
<1>10. CASE CInc2(t) /\ cpc[t] = "inc3"
  <2>1. CGoto(t, "inc3", "wait3") /\ t \in Parties /\ Cf1' = Cf1
    BY <1>0, <1>10 DEF CInc2, CGoto, clientFlags, PartyOnly, CenterOnly
  <2>2. Legal(ClientSite1, {"reset1"}, t, "inc3", "wait3", Cf1, Cf1')
    BY <1>0, <1>10, <2>1, ClientSites DEF Legal
  <2>3. Legal(ClientSite2, {"reset2"}, t, "inc3", "wait3", Cf2, Cf2')
    BY <1>0, <1>10, <2>1, ClientSites DEF Legal
  <2> QED
    BY <2>1, <2>2, <2>3 DEF ClientLegal
<1>11. CASE CWait2(t) /\ t = Center
  <2>1. CGoto(t, "wait2", "func2") /\ Cf2 = 2 /\ Cf1' = Cf1 /\ Cf2' = Cf2
    BY <1>0, <1>11 DEF CWait2, Quits, CGoto, clientFlags, PartyOnly, CenterOnly
  <2>2. Legal(ClientSite1, {"reset1"}, t, "wait2", "func2", Cf1, Cf1')
    BY <1>0, <1>11, <2>1, ClientSites DEF Legal
  <2>3. Legal(ClientSite2, {"reset2"}, t, "wait2", "func2", Cf2, Cf2')
    BY <1>0, <1>11, <2>1, ClientSites DEF Legal
  <2> QED
    BY <2>1, <2>2, <2>3 DEF ClientLegal
<1>12. CASE CWait2(t) /\ t = Leader
  <2>1. CGoto(t, "wait2", "send") /\ Cf2 = 0 /\ Cf1' = Cf1 /\ Cf2' = Cf2
    BY <1>0, <1>12 DEF CWait2, Quits, CGoto, clientFlags, PartyOnly, CenterOnly
  <2>2. Legal(ClientSite1, {"reset1"}, t, "wait2", "send", Cf1, Cf1')
    BY <1>0, <1>12, <2>1, ClientSites DEF Legal
  <2>3. Legal(ClientSite2, {"reset2"}, t, "wait2", "send", Cf2, Cf2')
    BY <1>0, <1>12, <2>1, ClientSites DEF Legal
  <2> QED
    BY <2>1, <2>2, <2>3 DEF ClientLegal
<1>13. CASE CWait2(t) /\ t \notin Parties
  <2>1. CGoto(t, "wait2", "wait3") /\ Cf1' = Cf1 /\ Cf2' = Cf2
    BY <1>0, <1>13 DEF CWait2, Quits, CGoto, clientFlags, PartyOnly, CenterOnly
  <2>2. Legal(ClientSite1, {"reset1"}, t, "wait2", "wait3", Cf1, Cf1')
    BY <1>0, <1>13, <2>1, ClientSites DEF Legal
  <2>3. Legal(ClientSite2, {"reset2"}, t, "wait2", "wait3", Cf2, Cf2')
    BY <1>0, <1>13, <2>1, ClientSites DEF Legal
  <2> QED
    BY <2>1, <2>2, <2>3 DEF ClientLegal
<1>14. CASE CReset2(t) /\ cpc[t] = "func2"
  <2>1. CGoto(t, "func2", "reset2") /\ t = Center /\ Cf1' = Cf1
    BY <1>0, <1>14 DEF CReset2, CGoto, clientFlags, PartyOnly, CenterOnly
  <2>2. Legal(ClientSite1, {"reset1"}, t, "func2", "reset2", Cf1, Cf1')
    BY <1>0, <1>14, <2>1, ClientSites DEF Legal
  <2>3. Legal(ClientSite2, {"reset2"}, t, "func2", "reset2", Cf2, Cf2')
    BY <1>0, <1>14, <2>1, ClientSites DEF Legal
  <2> QED
    BY <2>1, <2>2, <2>3 DEF ClientLegal
<1>15. CASE CReset2(t) /\ cpc[t] = "reset2"
  <2>1. CGoto(t, "reset2", "send") /\ t = Center /\ Cf1' = Cf1
    BY <1>0, <1>15 DEF CReset2, CGoto, clientFlags, PartyOnly, CenterOnly
  <2>2. Legal(ClientSite1, {"reset1"}, t, "reset2", "send", Cf1, Cf1')
    BY <1>0, <1>15, <2>1, ClientSites DEF Legal
  <2>3. Legal(ClientSite2, {"reset2"}, t, "reset2", "send", Cf2, Cf2')
    BY <1>0, <1>15, <2>1, ClientSites DEF Legal
  <2> QED
    BY <2>1, <2>2, <2>3 DEF ClientLegal
<1>16. CASE CReset2(t) /\ cpc[t] = "reset3"
  <2>1. CGoto(t, "reset3", "sci") /\ t = Center /\ Cf1' = Cf1
    BY <1>0, <1>16 DEF CReset2, CGoto, clientFlags, PartyOnly, CenterOnly
  <2>2. Legal(ClientSite1, {"reset1"}, t, "reset3", "sci", Cf1, Cf1')
    BY <1>0, <1>16, <2>1, ClientSites DEF Legal
  <2>3. Legal(ClientSite2, {"reset2"}, t, "reset3", "sci", Cf2, Cf2')
    BY <1>0, <1>16, <2>1, ClientSites DEF Legal
  <2> QED
    BY <2>1, <2>2, <2>3 DEF ClientLegal
<1>17. CASE CSend(t)
  <2>1. CGoto(t, "send", "recv") /\ Cf1' = Cf1 /\ Cf2' = Cf2
    BY <1>0, <1>17 DEF CSend, CGoto, clientFlags, PartyOnly, CenterOnly
  <2>2. Legal(ClientSite1, {"reset1"}, t, "send", "recv", Cf1, Cf1')
    BY <1>0, <1>17, <2>1, ClientSites DEF Legal
  <2>3. Legal(ClientSite2, {"reset2"}, t, "send", "recv", Cf2, Cf2')
    BY <1>0, <1>17, <2>1, ClientSites DEF Legal
  <2> QED
    BY <2>1, <2>2, <2>3 DEF ClientLegal
<1>18. CASE CRecv(t)
  <2>1. CGoto(t, "recv", "count") /\ Cf1' = Cf1 /\ Cf2' = Cf2
    BY <1>0, <1>18 DEF CRecv, CGoto, clientFlags, PartyOnly, CenterOnly
  <2>2. Legal(ClientSite1, {"reset1"}, t, "recv", "count", Cf1, Cf1')
    BY <1>0, <1>18, <2>1, ClientSites DEF Legal
  <2>3. Legal(ClientSite2, {"reset2"}, t, "recv", "count", Cf2, Cf2')
    BY <1>0, <1>18, <2>1, ClientSites DEF Legal
  <2> QED
    BY <2>1, <2>2, <2>3 DEF ClientLegal
<1>19. CASE CCount(t)
  <2>1. CGoto(t, "count", "inc3") /\ Cf1' = Cf1 /\ Cf2' = Cf2
    BY <1>0, <1>19 DEF CCount, CGoto, clientFlags, PartyOnly, CenterOnly
  <2>2. Legal(ClientSite1, {"reset1"}, t, "count", "inc3", Cf1, Cf1')
    BY <1>0, <1>19, <2>1, ClientSites DEF Legal
  <2>3. Legal(ClientSite2, {"reset2"}, t, "count", "inc3", Cf2, Cf2')
    BY <1>0, <1>19, <2>1, ClientSites DEF Legal
  <2> QED
    BY <2>1, <2>2, <2>3 DEF ClientLegal
<1>20. CASE CWait3(t) /\ t = Center
  <2>1. CGoto(t, "wait3", "func3") /\ Cf1' = Cf1 /\ Cf2' = Cf2
    BY <1>0, <1>20 DEF CWait3, Quits, CGoto, clientFlags, PartyOnly, CenterOnly
  <2>2. Legal(ClientSite1, {"reset1"}, t, "wait3", "func3", Cf1, Cf1')
    BY <1>0, <1>20, <2>1, ClientSites DEF Legal
  <2>3. Legal(ClientSite2, {"reset2"}, t, "wait3", "func3", Cf2, Cf2')
    BY <1>0, <1>20, <2>1, ClientSites DEF Legal
  <2> QED
    BY <2>1, <2>2, <2>3 DEF ClientLegal
<1>21. CASE CWait3(t) /\ t # Center
  <2>1. CGoto(t, "wait3", "sci") /\ Cf1' = Cf1 /\ Cf2' = Cf2
    BY <1>0, <1>21 DEF CWait3, Quits, CGoto, clientFlags, PartyOnly, CenterOnly
  <2>2. Legal(ClientSite1, {"reset1"}, t, "wait3", "sci", Cf1, Cf1')
    BY <1>0, <1>21, <2>1, ClientSites DEF Legal
  <2>3. Legal(ClientSite2, {"reset2"}, t, "wait3", "sci", Cf2, Cf2')
    BY <1>0, <1>21, <2>1, ClientSites DEF Legal
  <2> QED
    BY <2>1, <2>2, <2>3 DEF ClientLegal
<1>22. CASE CFunc3(t)
  <2>1. CGoto(t, "func3", "reset3") /\ t = Center /\ Cf1' = Cf1
    BY <1>0, <1>22 DEF CFunc3, CGoto, clientFlags, PartyOnly, CenterOnly
  <2>2. Legal(ClientSite1, {"reset1"}, t, "func3", "reset3", Cf1, Cf1')
    BY <1>0, <1>22, <2>1, ClientSites DEF Legal
  <2>3. Legal(ClientSite2, {"reset2"}, t, "func3", "reset3", Cf2, Cf2')
    BY <1>0, <1>22, <2>1, ClientSites DEF Legal
  <2> QED
    BY <2>1, <2>2, <2>3 DEF ClientLegal
<1>23. CASE CSci(t)
  <2>1. CGoto(t, "sci", "done") /\ Cf1' = Cf1 /\ Cf2' = Cf2
    BY <1>0, <1>23 DEF CSci, CGoto, clientFlags, PartyOnly, CenterOnly
  <2>2. Legal(ClientSite1, {"reset1"}, t, "sci", "done", Cf1, Cf1')
    BY <1>0, <1>23, <2>1, ClientSites DEF Legal
  <2>3. Legal(ClientSite2, {"reset2"}, t, "sci", "done", Cf2, Cf2')
    BY <1>0, <1>23, <2>1, ClientSites DEF Legal
  <2> QED
    BY <2>1, <2>2, <2>3 DEF ClientLegal
<1> QED
  BY <1>0, <1>1, <1>2, <1>3, <1>4, <1>5, <1>6, <1>7, <1>8, <1>9, <1>10, <1>11, <1>12,
     <1>13, <1>14, <1>15, <1>16, <1>17, <1>18, <1>19, <1>20, <1>21, <1>22, <1>23
     DEF Client, CReset1, CReset2, CInc2, CGoto

\* A step of the server, at its three sites.
ServerLegal(t, from, to) ==
  /\ SGoto(t, from, to)
  /\ Legal(ServerSite1, {"reset1"}, t, from, to, Sf1, Sf1')
  /\ Legal(ServerSite2, {}, t, from, to, Sf2, Sf2')
  /\ Legal(ServerSite3, {"reset3"}, t, from, to, Again(spc, Sf2), Again(spc, Sf2)')

\* Before anybody has left the site of the leader its flag is not the last
\* site's, and afterwards it is.
LEMMA WhenAgain ==
  ASSUME Places, NEW t \in Threads, NEW from, NEW to, SGoto(t, from, to)
  PROVE  /\ from \in Inside(ServerSite2) <=> to \in Inside(ServerSite2)
              => (Sf2' = Sf2 => Again(spc, Sf2)' = Again(spc, Sf2))
         /\ t # Leader => (Sf2' = Sf2 => Again(spc, Sf2)' = Again(spc, Sf2))
         /\ spc[Leader] \in Inside(ServerSite2) => Again(spc, Sf2) = 0
         /\ spc[Leader] \notin Inside(ServerSite2) => Again(spc, Sf2) = Sf2
         /\ spc'[t] = to /\ spc[t] = from
         /\ t # Leader => spc'[Leader] = spc[Leader]
         /\ spc'[Leader] \in Inside(ServerSite2) => Again(spc, Sf2)' = 0
         /\ spc'[Leader] \notin Inside(ServerSite2) => Again(spc, Sf2)' = Sf2'
<1>1. /\ spc'[t] = to /\ spc[t] = from
      /\ t # Leader => spc'[Leader] = spc[Leader]
  BY Roles DEF Places, SGoto
<1>2. Inside(ServerSite2)' = Inside(ServerSite2)
  BY DEF Inside, ServerSite2
<1> QED
  BY <1>1, <1>2 DEF Again

\* A thread that waits, or is still to, at the leader's site holds it there.
LEMMA LeaderStays ==
  ASSUME Meets(ServerSite2, spc, Sf2), NEW t \in Threads,
         spc[t] \in {"oprf1", "inc1", "wait1", "func1", "reset1", "share", "inc2"}
  PROVE  spc[Leader] \in Inside(ServerSite2)
<1>1. ServerSite2.special = Leader /\ ServerSite2.arrivers = Threads
      /\ spc[t] \in ServerSite2.before
  BY ServerSites
<1> QED
  BY <1>1, AllMet

\* A party that is past it finds the leader past it.
LEMMA LeaderPast ==
  ASSUME Meets(ServerSite2, spc, Sf2), NEW t \in Threads,
         spc[t] \notin Inside(ServerSite2)
  PROVE  spc[Leader] \notin Inside(ServerSite2)
<1>1. ServerSite2.special = Leader /\ ServerSite2.arrivers = Threads
  BY ServerSites
<1> QED
  BY <1>1, AllMet

\* The server's steps are what a site allows.
LEMMA ServerIsLegal ==
  ASSUME Places, LeaderResets, Meets(ServerSite2, spc, Sf2), NEW t \in Threads, Server(t)
  PROVE  \E from, to : ServerLegal(t, from, to)
<1>0. /\ Leader # Center /\ (t \in Parties <=> t = Leader \/ t = Center)
      /\ spc[t] \in SPartyOnly => t \in Parties
      /\ spc[t] \in SCenterOnly => t = Center
      /\ Cardinality(Threads) = N /\ Cardinality(Parties) = 2
      /\ spc[t] = "reset2" => t = Leader
  BY Roles, AreSites DEF Places, Parties, LeaderResets
<1>1. CASE SOprf1(t)
  <2>1. SGoto(t, "oprf1", "inc1") /\ Sf1' = Sf1 /\ Sf2' = Sf2
    BY <1>0, <1>1 DEF SOprf1, SGoto, serverFlags, SPartyOnly, SCenterOnly
  <2>2. Legal(ServerSite1, {"reset1"}, t, "oprf1", "inc1", Sf1, Sf1')
    BY <1>0, <1>1, <2>1, ServerSites DEF Legal
  <2>3. Legal(ServerSite2, {}, t, "oprf1", "inc1", Sf2, Sf2')
    BY <1>0, <1>1, <2>1, ServerSites DEF Legal
  <2>4. Again(spc, Sf2)' = Again(spc, Sf2)
    BY <1>0, <1>1, <2>1, WhenAgain, ServerSites
  <2>5. Legal(ServerSite3, {"reset3"}, t, "oprf1", "inc1", Again(spc, Sf2), Again(spc, Sf2)')
    BY <1>0, <1>1, <2>1, <2>4, LastServerSite DEF Legal
  <2> QED
    BY <2>1, <2>2, <2>3, <2>5 DEF ServerLegal
<1>2. CASE SInc1(t)
  <2>1. SGoto(t, "inc1", "wait1") /\ Sf1' = Sf1 + 1 /\ Sf2' = Sf2
    BY <1>0, <1>2 DEF SInc1, SGoto, serverFlags, SPartyOnly, SCenterOnly
  <2>2. Legal(ServerSite1, {"reset1"}, t, "inc1", "wait1", Sf1, Sf1')
    BY <1>0, <1>2, <2>1, ServerSites DEF Legal
  <2>3. Legal(ServerSite2, {}, t, "inc1", "wait1", Sf2, Sf2')
    BY <1>0, <1>2, <2>1, ServerSites DEF Legal
  <2>4. Again(spc, Sf2)' = Again(spc, Sf2)
    BY <1>0, <1>2, <2>1, WhenAgain, ServerSites
  <2>5. Legal(ServerSite3, {"reset3"}, t, "inc1", "wait1", Again(spc, Sf2), Again(spc, Sf2)')
    BY <1>0, <1>2, <2>1, <2>4, LastServerSite DEF Legal
  <2> QED
    BY <2>1, <2>2, <2>3, <2>5 DEF ServerLegal
<1>3. CASE SWait1(t) /\ t = Center
  <2>1. SGoto(t, "wait1", "func1") /\ Sf1 = N /\ Sf1' = Sf1 /\ Sf2' = Sf2
    BY <1>0, <1>3 DEF SWait1, Quits, SGoto, serverFlags, SPartyOnly, SCenterOnly
  <2>2. Legal(ServerSite1, {"reset1"}, t, "wait1", "func1", Sf1, Sf1')
    BY <1>0, <1>3, <2>1, ServerSites DEF Legal
  <2>3. Legal(ServerSite2, {}, t, "wait1", "func1", Sf2, Sf2')
    BY <1>0, <1>3, <2>1, ServerSites DEF Legal
  <2>4. Again(spc, Sf2)' = Again(spc, Sf2)
    BY <1>0, <1>3, <2>1, WhenAgain, ServerSites
  <2>5. Legal(ServerSite3, {"reset3"}, t, "wait1", "func1", Again(spc, Sf2), Again(spc, Sf2)')
    BY <1>0, <1>3, <2>1, <2>4, LastServerSite DEF Legal
  <2> QED
    BY <2>1, <2>2, <2>3, <2>5 DEF ServerLegal
<1>4. CASE SWait1(t) /\ t # Center
  <2>1. SGoto(t, "wait1", "share") /\ Sf1 = 0 /\ Sf1' = Sf1 /\ Sf2' = Sf2
    BY <1>0, <1>4 DEF SWait1, Quits, SGoto, serverFlags, SPartyOnly, SCenterOnly
  <2>2. Legal(ServerSite1, {"reset1"}, t, "wait1", "share", Sf1, Sf1')
    BY <1>0, <1>4, <2>1, ServerSites DEF Legal
  <2>3. Legal(ServerSite2, {}, t, "wait1", "share", Sf2, Sf2')
    BY <1>0, <1>4, <2>1, ServerSites DEF Legal
  <2>4. Again(spc, Sf2)' = Again(spc, Sf2)
    BY <1>0, <1>4, <2>1, WhenAgain, ServerSites
  <2>5. Legal(ServerSite3, {"reset3"}, t, "wait1", "share", Again(spc, Sf2), Again(spc, Sf2)')
    BY <1>0, <1>4, <2>1, <2>4, LastServerSite DEF Legal
  <2> QED
    BY <2>1, <2>2, <2>3, <2>5 DEF ServerLegal
<1>5. CASE SReset1(t) /\ spc[t] = "func1"
  <2>1. SGoto(t, "func1", "reset1") /\ t = Center /\ Sf2' = Sf2
    BY <1>0, <1>5 DEF SReset1, SGoto, serverFlags, SPartyOnly, SCenterOnly
  <2>2. Legal(ServerSite1, {"reset1"}, t, "func1", "reset1", Sf1, Sf1')
    BY <1>0, <1>5, <2>1, ServerSites DEF Legal
  <2>3. Legal(ServerSite2, {}, t, "func1", "reset1", Sf2, Sf2')
    BY <1>0, <1>5, <2>1, ServerSites DEF Legal
  <2>4. Again(spc, Sf2)' = Again(spc, Sf2)
    BY <1>0, <1>5, <2>1, WhenAgain, ServerSites
  <2>5. Legal(ServerSite3, {"reset3"}, t, "func1", "reset1", Again(spc, Sf2), Again(spc, Sf2)')
    BY <1>0, <1>5, <2>1, <2>4, LastServerSite DEF Legal
  <2> QED
    BY <2>1, <2>2, <2>3, <2>5 DEF ServerLegal
<1>6. CASE SReset1(t) /\ spc[t] = "reset1"
  <2>1. SGoto(t, "reset1", "share") /\ t = Center /\ Sf2' = Sf2
    BY <1>0, <1>6 DEF SReset1, SGoto, serverFlags, SPartyOnly, SCenterOnly
  <2>2. Legal(ServerSite1, {"reset1"}, t, "reset1", "share", Sf1, Sf1')
    BY <1>0, <1>6, <2>1, ServerSites DEF Legal
  <2>3. Legal(ServerSite2, {}, t, "reset1", "share", Sf2, Sf2')
    BY <1>0, <1>6, <2>1, ServerSites DEF Legal
  <2>4. Again(spc, Sf2)' = Again(spc, Sf2)
    BY <1>0, <1>6, <2>1, WhenAgain, ServerSites
  <2>5. Legal(ServerSite3, {"reset3"}, t, "reset1", "share", Again(spc, Sf2), Again(spc, Sf2)')
    BY <1>0, <1>6, <2>1, <2>4, LastServerSite DEF Legal
  <2> QED
    BY <2>1, <2>2, <2>3, <2>5 DEF ServerLegal
<1>7. CASE SShare(t)
  <2>1. SGoto(t, "share", "inc2") /\ Sf1' = Sf1 /\ Sf2' = Sf2
    BY <1>0, <1>7 DEF SShare, SGoto, serverFlags, SPartyOnly, SCenterOnly
  <2>2. Legal(ServerSite1, {"reset1"}, t, "share", "inc2", Sf1, Sf1')
    BY <1>0, <1>7, <2>1, ServerSites DEF Legal
  <2>3. Legal(ServerSite2, {}, t, "share", "inc2", Sf2, Sf2')
    BY <1>0, <1>7, <2>1, ServerSites DEF Legal
  <2>4. Again(spc, Sf2)' = Again(spc, Sf2)
    BY <1>0, <1>7, <2>1, WhenAgain, ServerSites
  <2>5. Legal(ServerSite3, {"reset3"}, t, "share", "inc2", Again(spc, Sf2), Again(spc, Sf2)')
    BY <1>0, <1>7, <2>1, <2>4, LastServerSite DEF Legal
  <2> QED
    BY <2>1, <2>2, <2>3, <2>5 DEF ServerLegal
<1>8. CASE SInc2(t) /\ spc[t] = "inc2"
  <2>1. SGoto(t, "inc2", "wait2") /\ Sf1' = Sf1 /\ Sf2' = Sf2 + 1
    BY <1>0, <1>8 DEF SInc2, SGoto, serverFlags, SPartyOnly, SCenterOnly
  <2>2. Legal(ServerSite1, {"reset1"}, t, "inc2", "wait2", Sf1, Sf1')
    BY <1>0, <1>8, <2>1, ServerSites DEF Legal
  <2>3. Legal(ServerSite2, {}, t, "inc2", "wait2", Sf2, Sf2')
    BY <1>0, <1>8, <2>1, ServerSites DEF Legal
  <2>4. Again(spc, Sf2)' = Again(spc, Sf2)
    <3>1. spc[Leader] \in Inside(ServerSite2)
      BY <2>1, LeaderStays DEF SGoto
    <3>2. spc'[Leader] \in Inside(ServerSite2)
      BY <2>1, <3>1, WhenAgain, ServerSites
    <3> QED
      BY <2>1, <3>1, <3>2, WhenAgain
  <2>5. Legal(ServerSite3, {"reset3"}, t, "inc2", "wait2", Again(spc, Sf2), Again(spc, Sf2)')
    BY <1>0, <1>8, <2>1, <2>4, LastServerSite DEF Legal
  <2> QED
    BY <2>1, <2>2, <2>3, <2>5 DEF ServerLegal
<1>9. CASE SInc2(t) /\ spc[t] = "inc3"
  <2>1. SGoto(t, "inc3", "wait3") /\ t \in Parties /\ Sf1' = Sf1 /\ Sf2' = Sf2 + 1
    BY <1>0, <1>9 DEF SInc2, SGoto, serverFlags, SPartyOnly, SCenterOnly
  <2>2. Legal(ServerSite1, {"reset1"}, t, "inc3", "wait3", Sf1, Sf1')
    BY <1>0, <1>9, <2>1, ServerSites DEF Legal
  <2>3. Legal(ServerSite2, {}, t, "inc3", "wait3", Sf2, Sf2')
    BY <1>0, <1>9, <2>1, ServerSites DEF Legal
  <2>4. Again(spc, Sf2)' = Sf2' /\ Again(spc, Sf2) = Sf2
    <3>1. spc[Leader] \notin Inside(ServerSite2)
      BY <1>0, <2>1, LeaderPast, ServerSites DEF SGoto
    <3>2. spc'[Leader] \notin Inside(ServerSite2)
      BY <2>1, <3>1, WhenAgain, ServerSites
    <3> QED
      BY <2>1, <3>1, <3>2, WhenAgain
  <2>5. Legal(ServerSite3, {"reset3"}, t, "inc3", "wait3", Again(spc, Sf2), Again(spc, Sf2)')
    BY <1>0, <1>9, <2>1, <2>4, LastServerSite DEF Legal
  <2> QED
    BY <2>1, <2>2, <2>3, <2>5 DEF ServerLegal
<1>10. CASE SWait2(t) /\ t = Leader
  <2>1. SGoto(t, "wait2", "reset2") /\ Sf2 = N /\ Sf1' = Sf1 /\ Sf2' = Sf2
    BY <1>0, <1>10 DEF SWait2, Quits, SGoto, serverFlags, SPartyOnly, SCenterOnly
  <2>2. Legal(ServerSite1, {"reset1"}, t, "wait2", "reset2", Sf1, Sf1')
    BY <1>0, <1>10, <2>1, ServerSites DEF Legal
  <2>3. Legal(ServerSite2, {}, t, "wait2", "reset2", Sf2, Sf2')
    BY <1>0, <1>10, <2>1, ServerSites DEF Legal
  <2>4. Again(spc, Sf2)' = Again(spc, Sf2)
    BY <1>0, <1>10, <2>1, WhenAgain, ServerSites
  <2>5. Legal(ServerSite3, {"reset3"}, t, "wait2", "reset2", Again(spc, Sf2), Again(spc, Sf2)')
    BY <1>0, <1>10, <2>1, <2>4, LastServerSite DEF Legal
  <2> QED
    BY <2>1, <2>2, <2>3, <2>5 DEF ServerLegal
<1>11. CASE SWait2(t) /\ t = Center
  <2>1. SGoto(t, "wait2", "oprf2") /\ Sf2 = 0 /\ Sf1' = Sf1 /\ Sf2' = Sf2
    BY <1>0, <1>11 DEF SWait2, Quits, SGoto, serverFlags, SPartyOnly, SCenterOnly
  <2>2. Legal(ServerSite1, {"reset1"}, t, "wait2", "oprf2", Sf1, Sf1')
    BY <1>0, <1>11, <2>1, ServerSites DEF Legal
  <2>3. Legal(ServerSite2, {}, t, "wait2", "oprf2", Sf2, Sf2')
    BY <1>0, <1>11, <2>1, ServerSites DEF Legal
  <2>4. Again(spc, Sf2)' = Again(spc, Sf2)
    BY <1>0, <1>11, <2>1, WhenAgain, ServerSites
  <2>5. Legal(ServerSite3, {"reset3"}, t, "wait2", "oprf2", Again(spc, Sf2), Again(spc, Sf2)')
    BY <1>0, <1>11, <2>1, <2>4, LastServerSite DEF Legal
  <2> QED
    BY <2>1, <2>2, <2>3, <2>5 DEF ServerLegal
<1>12. CASE SWait2(t) /\ t \notin Parties
  <2>1. SGoto(t, "wait2", "wait3") /\ Sf2 = 0 /\ Sf1' = Sf1 /\ Sf2' = Sf2
    BY <1>0, <1>12 DEF SWait2, Quits, SGoto, serverFlags, SPartyOnly, SCenterOnly
  <2>2. Legal(ServerSite1, {"reset1"}, t, "wait2", "wait3", Sf1, Sf1')
    BY <1>0, <1>12, <2>1, ServerSites DEF Legal
  <2>3. Legal(ServerSite2, {}, t, "wait2", "wait3", Sf2, Sf2')
    BY <1>0, <1>12, <2>1, ServerSites DEF Legal
  <2>4. Again(spc, Sf2)' = Again(spc, Sf2)
    BY <1>0, <1>12, <2>1, WhenAgain, ServerSites
  <2>5. Legal(ServerSite3, {"reset3"}, t, "wait2", "wait3", Again(spc, Sf2), Again(spc, Sf2)')
    BY <1>0, <1>12, <2>1, <2>4, LastServerSite DEF Legal
  <2> QED
    BY <2>1, <2>2, <2>3, <2>5 DEF ServerLegal
<1>13. CASE SReset2(t) /\ spc[t] = "reset2"
  <2>1. SGoto(t, "reset2", "oprf2") /\ t = Leader /\ Sf1' = Sf1 /\ Sf2' = 0
    BY <1>0, <1>13 DEF SReset2, SGoto, serverFlags, SPartyOnly, SCenterOnly
  <2>2. Legal(ServerSite1, {"reset1"}, t, "reset2", "oprf2", Sf1, Sf1')
    BY <1>0, <1>13, <2>1, ServerSites DEF Legal
  <2>3. Legal(ServerSite2, {}, t, "reset2", "oprf2", Sf2, Sf2')
    BY <1>0, <1>13, <2>1, ServerSites DEF Legal
  <2>4. Again(spc, Sf2)' = Again(spc, Sf2)
    BY <2>1, WhenAgain, ServerSites
  <2>5. Legal(ServerSite3, {"reset3"}, t, "reset2", "oprf2", Again(spc, Sf2), Again(spc, Sf2)')
    BY <1>0, <1>13, <2>1, <2>4, LastServerSite DEF Legal
  <2> QED
    BY <2>1, <2>2, <2>3, <2>5 DEF ServerLegal
<1>14. CASE SReset2(t) /\ spc[t] = "func3"
  <2>1. SGoto(t, "func3", "reset3") /\ t = Center /\ Sf1' = Sf1
    BY <1>0, <1>14 DEF SReset2, SGoto, serverFlags, SPartyOnly, SCenterOnly
  <2>2. Legal(ServerSite1, {"reset1"}, t, "func3", "reset3", Sf1, Sf1')
    BY <1>0, <1>14, <2>1, ServerSites DEF Legal
  <2>3. Legal(ServerSite2, {}, t, "func3", "reset3", Sf2, Sf2')
    BY <1>0, <1>14, <2>1, ServerSites DEF Legal
  <2>5. Legal(ServerSite3, {"reset3"}, t, "func3", "reset3", Again(spc, Sf2), Again(spc, Sf2)')
    BY <1>0, <1>14, <2>1, LastServerSite DEF Legal
  <2> QED
    BY <2>1, <2>2, <2>3, <2>5 DEF ServerLegal
<1>15. CASE SReset2(t) /\ spc[t] = "reset3"
  <2>1. SGoto(t, "reset3", "search") /\ t = Center /\ Sf1' = Sf1
    BY <1>0, <1>15 DEF SReset2, SGoto, serverFlags, SPartyOnly, SCenterOnly
  <2>2. Legal(ServerSite1, {"reset1"}, t, "reset3", "search", Sf1, Sf1')
    BY <1>0, <1>15, <2>1, ServerSites DEF Legal
  <2>3. Legal(ServerSite2, {}, t, "reset3", "search", Sf2, Sf2')
    BY <1>0, <1>15, <2>1, ServerSites DEF Legal
  <2>5. Legal(ServerSite3, {"reset3"}, t, "reset3", "search", Again(spc, Sf2), Again(spc, Sf2)')
    BY <1>0, <1>15, <2>1, LastServerSite DEF Legal
  <2> QED
    BY <2>1, <2>2, <2>3, <2>5 DEF ServerLegal
<1>16. CASE SOprf2(t)
  <2>1. SGoto(t, "oprf2", "inc3") /\ t \in Parties /\ Sf1' = Sf1 /\ Sf2' = Sf2
    BY <1>0, <1>16 DEF SOprf2, SGoto, serverFlags, SPartyOnly, SCenterOnly
  <2>2. Legal(ServerSite1, {"reset1"}, t, "oprf2", "inc3", Sf1, Sf1')
    BY <1>0, <1>16, <2>1, ServerSites DEF Legal
  <2>3. Legal(ServerSite2, {}, t, "oprf2", "inc3", Sf2, Sf2')
    BY <1>0, <1>16, <2>1, ServerSites DEF Legal
  <2>4. Again(spc, Sf2)' = Again(spc, Sf2)
    BY <1>0, <1>16, <2>1, WhenAgain, ServerSites
  <2>5. Legal(ServerSite3, {"reset3"}, t, "oprf2", "inc3", Again(spc, Sf2), Again(spc, Sf2)')
    BY <1>0, <1>16, <2>1, <2>4, LastServerSite DEF Legal
  <2> QED
    BY <2>1, <2>2, <2>3, <2>5 DEF ServerLegal
<1>17. CASE SWait3(t) /\ t = Center
  <2>1. SGoto(t, "wait3", "func3") /\ Sf2 = 2 /\ Sf1' = Sf1 /\ Sf2' = Sf2
    BY <1>0, <1>17 DEF SWait3, Quits, SGoto, serverFlags, SPartyOnly, SCenterOnly
  <2>2. Legal(ServerSite1, {"reset1"}, t, "wait3", "func3", Sf1, Sf1')
    BY <1>0, <1>17, <2>1, ServerSites DEF Legal
  <2>3. Legal(ServerSite2, {}, t, "wait3", "func3", Sf2, Sf2')
    BY <1>0, <1>17, <2>1, ServerSites DEF Legal
  <2>4. Again(spc, Sf2)' = Sf2' /\ Again(spc, Sf2) = Sf2
    <3>1. spc[Leader] \notin Inside(ServerSite2)
      BY <1>0, <2>1, LeaderPast, ServerSites DEF SGoto
    <3>2. spc'[Leader] \notin Inside(ServerSite2)
      BY <2>1, <3>1, WhenAgain, ServerSites
    <3> QED
      BY <2>1, <3>1, <3>2, WhenAgain
  <2>5. Legal(ServerSite3, {"reset3"}, t, "wait3", "func3", Again(spc, Sf2), Again(spc, Sf2)')
    BY <1>0, <1>17, <2>1, <2>4, LastServerSite DEF Legal
  <2> QED
    BY <2>1, <2>2, <2>3, <2>5 DEF ServerLegal
<1>18. CASE SWait3(t) /\ t = Leader
  <2>1. SGoto(t, "wait3", "search") /\ Sf2 = 0 /\ Sf1' = Sf1 /\ Sf2' = Sf2
    BY <1>0, <1>18 DEF SWait3, Quits, SGoto, serverFlags, SPartyOnly, SCenterOnly
  <2>2. Legal(ServerSite1, {"reset1"}, t, "wait3", "search", Sf1, Sf1')
    BY <1>0, <1>18, <2>1, ServerSites DEF Legal
  <2>3. Legal(ServerSite2, {}, t, "wait3", "search", Sf2, Sf2')
    BY <1>0, <1>18, <2>1, ServerSites DEF Legal
  <2>4. Again(spc, Sf2)' = Sf2' /\ Again(spc, Sf2) = Sf2
    <3>1. spc[Leader] \notin Inside(ServerSite2)
      BY <1>0, <2>1, LeaderPast, ServerSites DEF SGoto
    <3>2. spc'[Leader] \notin Inside(ServerSite2)
      BY <2>1, <3>1, WhenAgain, ServerSites
    <3> QED
      BY <2>1, <3>1, <3>2, WhenAgain
  <2>5. Legal(ServerSite3, {"reset3"}, t, "wait3", "search", Again(spc, Sf2), Again(spc, Sf2)')
    BY <1>0, <1>18, <2>1, <2>4, LastServerSite DEF Legal
  <2> QED
    BY <2>1, <2>2, <2>3, <2>5 DEF ServerLegal
<1>19. CASE SWait3(t) /\ t \notin Parties
  <2>1. SGoto(t, "wait3", "sciSend") /\ Sf1' = Sf1 /\ Sf2' = Sf2
    BY <1>0, <1>19 DEF SWait3, Quits, SGoto, serverFlags, SPartyOnly, SCenterOnly
  <2>2. Legal(ServerSite1, {"reset1"}, t, "wait3", "sciSend", Sf1, Sf1')
    BY <1>0, <1>19, <2>1, ServerSites DEF Legal
  <2>3. Legal(ServerSite2, {}, t, "wait3", "sciSend", Sf2, Sf2')
    BY <1>0, <1>19, <2>1, ServerSites DEF Legal
  <2>4. Again(spc, Sf2)' = Again(spc, Sf2)
    BY <1>0, <1>19, <2>1, WhenAgain, ServerSites
  <2>5. Legal(ServerSite3, {"reset3"}, t, "wait3", "sciSend", Again(spc, Sf2), Again(spc, Sf2)')
    BY <1>0, <1>19, <2>1, <2>4, LastServerSite DEF Legal
  <2> QED
    BY <2>1, <2>2, <2>3, <2>5 DEF ServerLegal
<1>20. CASE SSearch(t)
  <2>1. SGoto(t, "search", "sciSend") /\ Sf1' = Sf1 /\ Sf2' = Sf2
    BY <1>0, <1>20 DEF SSearch, SGoto, serverFlags, SPartyOnly, SCenterOnly
  <2>2. Legal(ServerSite1, {"reset1"}, t, "search", "sciSend", Sf1, Sf1')
    BY <1>0, <1>20, <2>1, ServerSites DEF Legal
  <2>3. Legal(ServerSite2, {}, t, "search", "sciSend", Sf2, Sf2')
    BY <1>0, <1>20, <2>1, ServerSites DEF Legal
  <2>4. Again(spc, Sf2)' = Again(spc, Sf2)
    BY <1>0, <1>20, <2>1, WhenAgain, ServerSites
  <2>5. Legal(ServerSite3, {"reset3"}, t, "search", "sciSend", Again(spc, Sf2), Again(spc, Sf2)')
    BY <1>0, <1>20, <2>1, <2>4, LastServerSite DEF Legal
  <2> QED
    BY <2>1, <2>2, <2>3, <2>5 DEF ServerLegal
<1>21. CASE SSciSend(t)
  <2>1. SGoto(t, "sciSend", "sciRecv") /\ Sf1' = Sf1 /\ Sf2' = Sf2
    BY <1>0, <1>21 DEF SSciSend, SGoto, serverFlags, SPartyOnly, SCenterOnly
  <2>2. Legal(ServerSite1, {"reset1"}, t, "sciSend", "sciRecv", Sf1, Sf1')
    BY <1>0, <1>21, <2>1, ServerSites DEF Legal
  <2>3. Legal(ServerSite2, {}, t, "sciSend", "sciRecv", Sf2, Sf2')
    BY <1>0, <1>21, <2>1, ServerSites DEF Legal
  <2>4. Again(spc, Sf2)' = Again(spc, Sf2)
    BY <1>0, <1>21, <2>1, WhenAgain, ServerSites
  <2>5. Legal(ServerSite3, {"reset3"}, t, "sciSend", "sciRecv", Again(spc, Sf2), Again(spc, Sf2)')
    BY <1>0, <1>21, <2>1, <2>4, LastServerSite DEF Legal
  <2> QED
    BY <2>1, <2>2, <2>3, <2>5 DEF ServerLegal
<1>22. CASE SSciRecv(t)
  <2>1. SGoto(t, "sciRecv", "done") /\ Sf1' = Sf1 /\ Sf2' = Sf2
    BY <1>0, <1>22 DEF SSciRecv, SGoto, serverFlags, SPartyOnly, SCenterOnly
  <2>2. Legal(ServerSite1, {"reset1"}, t, "sciRecv", "done", Sf1, Sf1')
    BY <1>0, <1>22, <2>1, ServerSites DEF Legal
  <2>3. Legal(ServerSite2, {}, t, "sciRecv", "done", Sf2, Sf2')
    BY <1>0, <1>22, <2>1, ServerSites DEF Legal
  <2>4. Again(spc, Sf2)' = Again(spc, Sf2)
    BY <1>0, <1>22, <2>1, WhenAgain, ServerSites
  <2>5. Legal(ServerSite3, {"reset3"}, t, "sciRecv", "done", Again(spc, Sf2), Again(spc, Sf2)')
    BY <1>0, <1>22, <2>1, <2>4, LastServerSite DEF Legal
  <2> QED
    BY <2>1, <2>2, <2>3, <2>5 DEF ServerLegal
<1> QED
  BY <1>0, <1>1, <1>2, <1>3, <1>4, <1>5, <1>6, <1>7, <1>8, <1>9, <1>10, <1>11, <1>12,
     <1>13, <1>14, <1>15, <1>16, <1>17, <1>18, <1>19, <1>20, <1>21, <1>22
     DEF Server, SReset1, SReset2, SInc2, SGoto

-----------------------------------------------------------------------------
(* The sites are kept.                                                     *)

\* A step of the client, or of the server, keeps its sites.
ClientKept ==
  /\ KeptEarly(ClientSite1, {"reset1"}, cpc, cpc', Cf1')
  /\ KeptEarly(ClientSite2, {"reset2"}, cpc, cpc', Cf2')
ServerKept ==
  /\ KeptEarly(ServerSite1, {"reset1"}, spc, spc', Sf1')
  /\ KeptEarly(ServerSite2, {}, spc, spc', Sf2')
  /\ KeptEarly(ServerSite3, {"reset3"}, spc, spc', Again(spc, Sf2)')

\* A step of one thread, as a site sees it.
LEMMA ClientGoes ==
  ASSUME Places, NEW t \in Threads, NEW from, NEW to, CGoto(t, from, to)
  PROVE  /\ Goes(ClientSite1, cpc, cpc', t, from, to)
         /\ Goes(ClientSite2, cpc, cpc', t, from, to)
<1>1. /\ DOMAIN cpc = Threads /\ cpc = [u \in Threads |-> cpc[u]]
      /\ cpc[t] = from /\ cpc' = [cpc EXCEPT ![t] = to]
  BY DEF Places, CGoto
<1> QED
  BY <1>1, ClientSites DEF Goes

\* The same for the server.
LEMMA ServerGoes ==
  ASSUME Places, NEW t \in Threads, NEW from, NEW to, SGoto(t, from, to)
  PROVE  /\ Goes(ServerSite1, spc, spc', t, from, to)
         /\ Goes(ServerSite2, spc, spc', t, from, to)
         /\ Goes(ServerSite3, spc, spc', t, from, to)
<1>1. /\ DOMAIN spc = Threads /\ spc = [u \in Threads |-> spc[u]]
      /\ spc[t] = from /\ spc' = [spc EXCEPT ![t] = to]
  BY DEF Places, SGoto
<1> QED
  BY <1>1, ServerSites, LastServerSite DEF Goes

\* A step of one process leaves the sites of the other alone.
LEMMA EarlyRests ==
  ASSUME NEW s, NEW r, NEW pc, NEW flag, Meets(s, pc, flag)
  PROVE  KeptEarly(s, r, pc, pc, flag)
BY DEF KeptEarly, Acts

\* So a step of the server keeps the client's sites.
LEMMA ClientRests ==
  ASSUME Meets(ClientSite1, cpc, Cf1), Meets(ClientSite2, cpc, Cf2),
         UNCHANGED <<cpc, Cf1, Cf2>>
  PROVE  ClientKept
BY EarlyRests DEF ClientKept

\* And a step of the client the server's.
LEMMA ServerRests ==
  ASSUME Meets(ServerSite1, spc, Sf1), SitesMeet, UNCHANGED <<spc, Sf1, Sf2>>
  PROVE  ServerKept
<1>1. Again(spc, Sf2)' = Again(spc, Sf2)
  BY DEF Again, Inside, ServerSite2
<1> QED
  BY <1>1, EarlyRests DEF ServerKept, SitesMeet

\* What keeps the sites is what the invariant says of the next state.
LEMMA SitesKept == ClientKept /\ ServerKept => SitesMeet'
<1> SUFFICES ASSUME ClientKept, ServerKept
             PROVE  SitesMeet'
  OBVIOUS
<1>1. Meets(ClientSite1, cpc', Cf1')
  BY DEF ClientKept, KeptEarly
<1>2. Meets(ServerSite2, spc', Sf2') /\ Meets(ServerSite3, spc', Again(spc, Sf2)')
  BY DEF ServerKept, KeptEarly
<1>3. /\ Meets(ClientSite1, cpc, Cf1)' = Meets(ClientSite1, cpc', Cf1')
      /\ Meets(ServerSite2, spc, Sf2)' = Meets(ServerSite2, spc', Sf2')
      /\ Meets(ServerSite3, spc, Again(spc, Sf2))' = Meets(ServerSite3, spc', Again(spc, Sf2)')
  BY DEF Meets, Arrived, Inside, ClientSite1, ServerSite2, ServerSite3
<1> QED
  BY <1>1, <1>2, <1>3 DEF SitesMeet

\* The leader's label is reached by the leader.
LEMMA LeaderResetsStep ==
  ASSUME Places, LeaderResets, NEW t \in Threads, Server(t)
  PROVE  LeaderResets'
<1>1. \A u \in Threads : u # t => spc'[u] = spc[u]
  BY DEF Places, Server, SOprf1, SInc1, SWait1, SReset1, SShare, SInc2, SWait2, SReset2,
         SOprf2, SWait3, SSearch, SSciSend, SSciRecv, SGoto
<1>2. spc'[t] = "reset2" => t = Leader
  <2>1. CASE SWait2(t)
    BY <2>1 DEF SWait2, SGoto, Places
  <2>2. CASE SOprf1(t) \/ SInc1(t) \/ SWait1(t) \/ SReset1(t) \/ SShare(t) \/ SInc2(t)
    BY <2>2 DEF Places, SOprf1, SInc1, SWait1, SReset1, SShare, SInc2, SGoto
  <2>3. CASE SReset2(t) \/ SOprf2(t) \/ SWait3(t) \/ SSearch(t) \/ SSciSend(t) \/ SSciRecv(t)
    BY <2>3 DEF Places, SReset2, SOprf2, SWait3, SSearch, SSciSend, SSciRecv, SGoto
  <2> QED
    BY <2>1, <2>2, <2>3 DEF Server
<1> QED
  BY <1>1, <1>2 DEF LeaderResets

\* Every step keeps the sites.
LEMMA NextSites == SiteInvariant /\ [Next]_vars => SiteInvariant' /\ ClientKept /\ ServerKept
<1> SUFFICES ASSUME SiteInvariant, [Next]_vars
             PROVE  SiteInvariant' /\ ClientKept /\ ServerKept
  OBVIOUS
<1>1. Invariant' /\ Places
  BY NextInvariant DEF SiteInvariant, Invariant
<1>2. /\ Meets(ClientSite1, cpc, Cf1) /\ Meets(ClientSite2, cpc, Cf2)
      /\ Meets(ServerSite1, spc, Sf1) /\ Meets(ServerSite2, spc, Sf2)
      /\ Meets(ServerSite3, spc, Again(spc, Sf2)) /\ LeaderResets /\ SitesMeet
  BY OtherSitesMeet DEF SiteInvariant, SitesMeet
<1>3. CASE UNCHANGED vars
  <2>1. UNCHANGED <<cpc, Cf1, Cf2, spc, Sf1, Sf2>>
    BY <1>3 DEF vars, clientVars, clientFlags, serverVars, serverFlags
  <2>2. ClientKept /\ ServerKept
    BY <1>2, <2>1, ClientRests, ServerRests
  <2>3. LeaderResets'
    BY <1>2, <2>1 DEF LeaderResets
  <2> QED
    BY <1>1, <2>2, <2>3, SitesKept DEF SiteInvariant
<1>4. ASSUME NEW t \in Threads, Client(t)
      PROVE  SiteInvariant' /\ ClientKept /\ ServerKept
  <2>1. UNCHANGED <<spc, Sf1, Sf2>>
    BY <1>4 DEF Client, COprf1, CInc1, CWait1, CReset1, COprf2, CInc2, CWait2, CReset2,
                CSend, CRecv, CCount, CWait3, CFunc3, CSci, serverVars, serverFlags
  <2>2. ServerKept
    BY <1>2, <2>1, ServerRests
  <2>3. PICK from, to : ClientLegal(t, from, to)
    BY <1>1, <1>4, ClientIsLegal
  <2>4. Goes(ClientSite1, cpc, cpc', t, from, to) /\ Goes(ClientSite2, cpc, cpc', t, from, to)
    BY <1>1, <2>3, ClientGoes DEF ClientLegal
  <2>5. /\ IsSite(ClientSite1) /\ {"reset1"} \cap Inside(ClientSite1) = {}
        /\ IsSite(ClientSite2) /\ {"reset2"} \cap Inside(ClientSite2) = {}
    BY AreSites, ClientSites
  <2>6. KeptEarly(ClientSite1, {"reset1"}, cpc, cpc', Cf1')
    BY <1>2, <2>3, <2>4, <2>5, LegalKeeps DEF ClientLegal
  <2>7. KeptEarly(ClientSite2, {"reset2"}, cpc, cpc', Cf2')
    BY <1>2, <2>3, <2>4, <2>5, LegalKeeps DEF ClientLegal
  <2>8. LeaderResets'
    BY <1>2, <2>1 DEF LeaderResets
  <2> QED
    BY <1>1, <2>2, <2>6, <2>7, <2>8, SitesKept DEF SiteInvariant, ClientKept
<1>5. ASSUME NEW t \in Threads, Server(t)
      PROVE  SiteInvariant' /\ ClientKept /\ ServerKept
  <2>1. UNCHANGED <<cpc, Cf1, Cf2>>
    BY <1>5 DEF Server, SOprf1, SInc1, SWait1, SReset1, SShare, SInc2, SWait2, SReset2,
                SOprf2, SWait3, SSearch, SSciSend, SSciRecv, clientVars, clientFlags
  <2>2. ClientKept
    BY <1>2, <2>1, ClientRests
  <2>3. PICK from, to : ServerLegal(t, from, to)
    BY <1>1, <1>2, <1>5, ServerIsLegal
  <2>4. /\ Goes(ServerSite1, spc, spc', t, from, to) /\ Goes(ServerSite2, spc, spc', t, from, to)
        /\ Goes(ServerSite3, spc, spc', t, from, to)
    BY <1>1, <2>3, ServerGoes DEF ServerLegal
  <2>5. /\ IsSite(ServerSite1) /\ {"reset1"} \cap Inside(ServerSite1) = {}
        /\ IsSite(ServerSite2) /\ {} \cap Inside(ServerSite2) = {}
        /\ IsSite(ServerSite3) /\ {"reset3"} \cap Inside(ServerSite3) = {}
    BY AreSites, ServerSites, LastServerSite
  <2>6. KeptEarly(ServerSite1, {"reset1"}, spc, spc', Sf1')
    BY <1>2, <2>3, <2>4, <2>5, LegalKeeps DEF ServerLegal
  <2>7. KeptEarly(ServerSite2, {}, spc, spc', Sf2')
    BY <1>2, <2>3, <2>4, <2>5, LegalKeeps DEF ServerLegal
  <2>8. KeptEarly(ServerSite3, {"reset3"}, spc, spc', Again(spc, Sf2)')
    BY <1>2, <2>3, <2>4, <2>5, LegalKeeps DEF ServerLegal
  <2>9. LeaderResets'
    BY <1>1, <1>2, <1>5, LeaderResetsStep
  <2> QED
    BY <1>1, <2>2, <2>6, <2>7, <2>8, <2>9, SitesKept DEF SiteInvariant, ServerKept
<1> QED
  BY <1>3, <1>4, <1>5 DEF Next

-----------------------------------------------------------------------------
(* The sites of the two processes are the rendezvous of Smpaq2.            *)

\* The places of the labels in program order.
LEMMA ClientPast ==
  ASSUME NEW l \in Range(COrder)
  PROVE  /\ Place(COrder, l) > Place(COrder, "inc1") <=> l \notin ClientSite1.before
         /\ Place(COrder, l) > Place(COrder, "func1") <=>
              l \notin ClientSite1.before \cup ClientSite1.wait \cup ClientSite1.func
         /\ Place(COrder, l) > Place(COrder, "reset1") <=>
              l \notin Inside(ClientSite1) \cup {"reset1"}
         /\ Place(COrder, l) > Place(COrder, "inc2") <=> l \notin ClientSite2.before
         /\ Place(COrder, l) > Place(COrder, "func2") <=>
              l \notin ClientSite2.before \cup ClientSite2.wait \cup ClientSite2.func
         /\ Place(COrder, l) > Place(COrder, "reset2") <=>
              l \notin Inside(ClientSite2) \cup {"reset2"}
<1>1. /\ Place(COrder, "oprf1") = 1 /\ Place(COrder, "inc1") = 2
      /\ Place(COrder, "wait1") = 3 /\ Place(COrder, "func1") = 4
      /\ Place(COrder, "reset1") = 5 /\ Place(COrder, "oprf2") = 6
      /\ Place(COrder, "inc2") = 7 /\ Place(COrder, "wait2") = 8
      /\ Place(COrder, "func2") = 9 /\ Place(COrder, "reset2") = 10
      /\ Place(COrder, "send") = 11 /\ Place(COrder, "recv") = 12
      /\ Place(COrder, "count") = 13 /\ Place(COrder, "inc3") = 14
      /\ Place(COrder, "wait3") = 15 /\ Place(COrder, "func3") = 16
      /\ Place(COrder, "reset3") = 17 /\ Place(COrder, "sci") = 18
      /\ Place(COrder, "done") = 19
  BY DEF Place, COrder
<1>2. l \in {"oprf1", "inc1", "wait1", "func1", "reset1", "oprf2", "inc2", "wait2", "func2",
             "reset2", "send", "recv", "count", "inc3", "wait3", "func3", "reset3", "sci",
             "done"}
  BY DEF Range, COrder
<1>3. /\ Place(COrder, l) > 2 <=> l \notin ClientSite1.before
      /\ Place(COrder, l) > 4 <=>
           l \notin ClientSite1.before \cup ClientSite1.wait \cup ClientSite1.func
      /\ Place(COrder, l) > 5 <=> l \notin Inside(ClientSite1) \cup {"reset1"}
  BY <1>1, <1>2, ClientSites
<1>4. /\ Place(COrder, l) > 7 <=> l \notin ClientSite2.before
      /\ Place(COrder, l) > 9 <=>
           l \notin ClientSite2.before \cup ClientSite2.wait \cup ClientSite2.func
      /\ Place(COrder, l) > 10 <=> l \notin Inside(ClientSite2) \cup {"reset2"}
  BY <1>1, <1>2, ClientSites
<1> QED
  BY <1>1, <1>3, <1>4

\* The same for the server.
LEMMA ServerPast ==
  ASSUME NEW l \in Range(SOrder)
  PROVE  /\ Place(SOrder, l) > Place(SOrder, "inc1") <=> l \notin ServerSite1.before
         /\ Place(SOrder, l) > Place(SOrder, "func1") <=>
              l \notin ServerSite1.before \cup ServerSite1.wait \cup ServerSite1.func
         /\ Place(SOrder, l) > Place(SOrder, "reset1") <=>
              l \notin Inside(ServerSite1) \cup {"reset1"}
         /\ Place(SOrder, l) > Place(SOrder, "inc2") <=> l \notin ServerSite2.before
         /\ Place(SOrder, l) > Place(SOrder, "wait2") <=>
              l \notin ServerSite2.before \cup ServerSite2.wait \cup ServerSite2.func
         /\ Place(SOrder, l) > Place(SOrder, "reset2") <=>
              l \notin Inside(ServerSite2) \cup {}
         /\ Place(SOrder, l) > Place(SOrder, "inc3") <=> l \notin ServerSite3.before
         /\ Place(SOrder, l) > Place(SOrder, "func3") <=>
              l \notin ServerSite3.before \cup ServerSite3.wait \cup ServerSite3.func
         /\ Place(SOrder, l) > Place(SOrder, "reset3") <=>
              l \notin Inside(ServerSite3) \cup {"reset3"}
<1>1. /\ Place(SOrder, "oprf1") = 1 /\ Place(SOrder, "inc1") = 2
      /\ Place(SOrder, "wait1") = 3 /\ Place(SOrder, "func1") = 4
      /\ Place(SOrder, "reset1") = 5 /\ Place(SOrder, "share") = 6
      /\ Place(SOrder, "inc2") = 7 /\ Place(SOrder, "wait2") = 8
      /\ Place(SOrder, "reset2") = 9 /\ Place(SOrder, "oprf2") = 10
      /\ Place(SOrder, "inc3") = 11 /\ Place(SOrder, "wait3") = 12
      /\ Place(SOrder, "func3") = 13 /\ Place(SOrder, "reset3") = 14
      /\ Place(SOrder, "search") = 15 /\ Place(SOrder, "sciSend") = 16
      /\ Place(SOrder, "sciRecv") = 17 /\ Place(SOrder, "done") = 18
  BY DEF Place, SOrder
<1>2. l \in {"oprf1", "inc1", "wait1", "func1", "reset1", "share", "inc2", "wait2", "reset2",
             "oprf2", "inc3", "wait3", "func3", "reset3", "search", "sciSend", "sciRecv", "done"}
  BY DEF Range, SOrder
<1>3. /\ Place(SOrder, l) > 2 <=> l \notin ServerSite1.before
      /\ Place(SOrder, l) > 4 <=>
           l \notin ServerSite1.before \cup ServerSite1.wait \cup ServerSite1.func
      /\ Place(SOrder, l) > 5 <=> l \notin Inside(ServerSite1) \cup {"reset1"}
  BY <1>1, <1>2, ServerSites
<1>4. /\ Place(SOrder, l) > 7 <=> l \notin ServerSite2.before
      /\ Place(SOrder, l) > 8 <=>
           l \notin ServerSite2.before \cup ServerSite2.wait \cup ServerSite2.func
      /\ Place(SOrder, l) > 9 <=> l \notin Inside(ServerSite2) \cup {}
  BY <1>1, <1>2, ServerSites
<1>5. /\ Place(SOrder, l) > 11 <=> l \notin ServerSite3.before
      /\ Place(SOrder, l) > 13 <=>
           l \notin ServerSite3.before \cup ServerSite3.wait \cup ServerSite3.func
      /\ Place(SOrder, l) > 14 <=> l \notin Inside(ServerSite3) \cup {"reset3"}
  BY <1>1, <1>2, LastServerSite
<1> QED
  BY <1>1, <1>3, <1>4, <1>5

\* Only the special thread is at a label of a second reset.
LEMMA LateIs ==
  ASSUME NEW s, NEW r, NEW pc, \A u \in s.threads : pc[u] \in r => u = s.special
  PROVE  Late(s, r, pc) = {u \in s.threads : pc[u] \notin Inside(s) \cup r}
BY DEF Late, HaveLeft

\* The step of a site in the words of Rendezvous.
LEMMA EarlyActs ==
  ASSUME NEW s, NEW r, NEW pc, NEW pcn, NEW flag, KeptEarly(s, r, pc, pcn, flag),
         NEW arrived, NEW arrivedn, NEW ran \in BOOLEAN, NEW rann \in BOOLEAN,
         NEW left, NEW leftn,
         arrived = Arrived(s, pc), arrivedn = Arrived(s, pcn),
         ran <=> HasRun(s, pc), rann <=> HasRun(s, pcn),
         left = Late(s, r, pc), leftn = Late(s, r, pcn)
  PROVE  Acts(s, arrived, arrivedn, ran, rann, left, leftn)
<1>1. HasRun(s, pc) \in BOOLEAN /\ HasRun(s, pcn) \in BOOLEAN
  BY DEF HasRun
<1>2. ran = HasRun(s, pc) /\ rann = HasRun(s, pcn)
  BY <1>1
<1> QED
  BY <1>2 DEF KeptEarly

\* At each site, a step that keeps the site is a step of the rendezvous or none.
\* The client's first site.
LEMMA CSite1Step ==
  ASSUME Places, Places', KeptEarly(ClientSite1, {"reset1"}, cpc, cpc', Cf1')
  PROVE  [CSite1!Next]_(CSite1!vars)
<1> DEFINE arrived == {t \in Threads : CPast(t, "inc1")}
           ran     == CPast(Center, "func1")
           left    == {t \in Threads : CPast(t, "reset1")}
<1>0. /\ cpc \in [Threads -> Range(COrder)] /\ cpc' \in [Threads -> Range(COrder)]
      /\ \A u \in Threads : cpc[u] \in {"reset1"} => u = Center
      /\ \A u \in Threads : cpc'[u] \in {"reset1"} => u = Center
  BY DEF Places, CenterOnly
<1>1. arrived = Arrived(ClientSite1, cpc) /\ arrived' = Arrived(ClientSite1, cpc')
  BY <1>0, Roles, ClientPast, ClientSites DEF CPast, Arrived
<1>2. /\ Late(ClientSite1, {"reset1"}, cpc)
           = {u \in Threads : cpc[u] \notin Inside(ClientSite1) \cup {"reset1"}}
      /\ Late(ClientSite1, {"reset1"}, cpc')
           = {u \in Threads : cpc'[u] \notin Inside(ClientSite1) \cup {"reset1"}}
  BY <1>0, LateIs, ClientSites
<1>3. left = Late(ClientSite1, {"reset1"}, cpc) /\ left' = Late(ClientSite1, {"reset1"}, cpc')
  BY <1>0, <1>2, ClientPast, ClientSites DEF CPast
<1>4. /\ (ran <=> HasRun(ClientSite1, cpc)) /\ (ran' <=> HasRun(ClientSite1, cpc'))
      /\ ran \in BOOLEAN /\ ran' \in BOOLEAN
  BY <1>0, Roles, ClientPast, ClientSites DEF CPast, HasRun
<1> HIDE DEF arrived, ran, left
<1>5. Acts(ClientSite1, arrived, arrived', ran, ran', left, left')
  BY <1>1, <1>3, <1>4, EarlyActs
<1> QED
  BY <1>5, ClientSites
     DEF Acts, CSite1!Next, CSite1!Run, CSite1!Arrive, CSite1!Leave, CSite1!vars,
         arrived, ran, left

\* The client's second site.
LEMMA CSite2Step ==
  ASSUME Places, Places', KeptEarly(ClientSite2, {"reset2"}, cpc, cpc', Cf2')
  PROVE  [CSite2!Next]_(CSite2!vars)
<1> DEFINE arrived == {t \in Parties : CPast(t, "inc2")}
           ran     == CPast(Center, "func2")
           left    == {t \in Threads : CPast(t, "reset2")}
<1>0. /\ cpc \in [Threads -> Range(COrder)] /\ cpc' \in [Threads -> Range(COrder)]
      /\ \A u \in Threads : cpc[u] \in {"reset2"} => u = Center
      /\ \A u \in Threads : cpc'[u] \in {"reset2"} => u = Center
  BY DEF Places, CenterOnly
<1>1. arrived = Arrived(ClientSite2, cpc) /\ arrived' = Arrived(ClientSite2, cpc')
  BY <1>0, Roles, ClientPast, ClientSites DEF CPast, Arrived
<1>2. /\ Late(ClientSite2, {"reset2"}, cpc)
           = {u \in Threads : cpc[u] \notin Inside(ClientSite2) \cup {"reset2"}}
      /\ Late(ClientSite2, {"reset2"}, cpc')
           = {u \in Threads : cpc'[u] \notin Inside(ClientSite2) \cup {"reset2"}}
  BY <1>0, LateIs, ClientSites
<1>3. left = Late(ClientSite2, {"reset2"}, cpc) /\ left' = Late(ClientSite2, {"reset2"}, cpc')
  BY <1>0, <1>2, ClientPast, ClientSites DEF CPast
<1>4. /\ (ran <=> HasRun(ClientSite2, cpc)) /\ (ran' <=> HasRun(ClientSite2, cpc'))
      /\ ran \in BOOLEAN /\ ran' \in BOOLEAN
  BY <1>0, Roles, ClientPast, ClientSites DEF CPast, HasRun
<1> HIDE DEF arrived, ran, left
<1>5. Acts(ClientSite2, arrived, arrived', ran, ran', left, left')
  BY <1>1, <1>3, <1>4, EarlyActs
<1> QED
  BY <1>5, ClientSites
     DEF Acts, CSite2!Next, CSite2!Run, CSite2!Arrive, CSite2!Leave, CSite2!vars,
         arrived, ran, left

\* The server's first site.
LEMMA SSite1Step ==
  ASSUME Places, Places', KeptEarly(ServerSite1, {"reset1"}, spc, spc', Sf1')
  PROVE  [SSite1!Next]_(SSite1!vars)
<1> DEFINE arrived == {t \in Threads : SPast(t, "inc1")}
           ran     == SPast(Center, "func1")
           left    == {t \in Threads : SPast(t, "reset1")}
<1>0. /\ spc \in [Threads -> Range(SOrder)] /\ spc' \in [Threads -> Range(SOrder)]
      /\ \A u \in Threads : spc[u] \in {"reset1"} => u = Center
      /\ \A u \in Threads : spc'[u] \in {"reset1"} => u = Center
  BY DEF Places, SCenterOnly
<1>1. arrived = Arrived(ServerSite1, spc) /\ arrived' = Arrived(ServerSite1, spc')
  BY <1>0, Roles, ServerPast, ServerSites DEF SPast, Arrived
<1>2. /\ Late(ServerSite1, {"reset1"}, spc)
           = {u \in Threads : spc[u] \notin Inside(ServerSite1) \cup {"reset1"}}
      /\ Late(ServerSite1, {"reset1"}, spc')
           = {u \in Threads : spc'[u] \notin Inside(ServerSite1) \cup {"reset1"}}
  BY <1>0, LateIs, ServerSites
<1>3. left = Late(ServerSite1, {"reset1"}, spc) /\ left' = Late(ServerSite1, {"reset1"}, spc')
  BY <1>0, <1>2, ServerPast, ServerSites DEF SPast
<1>4. /\ (ran <=> HasRun(ServerSite1, spc)) /\ (ran' <=> HasRun(ServerSite1, spc'))
      /\ ran \in BOOLEAN /\ ran' \in BOOLEAN
  BY <1>0, Roles, ServerPast, ServerSites DEF SPast, HasRun
<1> HIDE DEF arrived, ran, left
<1>5. Acts(ServerSite1, arrived, arrived', ran, ran', left, left')
  BY <1>1, <1>3, <1>4, EarlyActs
<1> QED
  BY <1>5, ServerSites
     DEF Acts, SSite1!Next, SSite1!Run, SSite1!Arrive, SSite1!Leave, SSite1!vars,
         arrived, ran, left

\* The server's second site, the leader's.
LEMMA SSite2Step ==
  ASSUME Places, Places', KeptEarly(ServerSite2, {}, spc, spc', Sf2')
  PROVE  [SSite2!Next]_(SSite2!vars)
<1> DEFINE arrived == {t \in Threads : SPast(t, "inc2")}
           ran     == SPast(Leader, "wait2")
           left    == {t \in Threads : SPast(t, "reset2")}
<1>0. /\ spc \in [Threads -> Range(SOrder)] /\ spc' \in [Threads -> Range(SOrder)]
      /\ \A u \in Threads : spc[u] \in {} => u = Center
      /\ \A u \in Threads : spc'[u] \in {} => u = Center
  BY DEF Places, SCenterOnly
<1>1. arrived = Arrived(ServerSite2, spc) /\ arrived' = Arrived(ServerSite2, spc')
  BY <1>0, Roles, ServerPast, ServerSites DEF SPast, Arrived
<1>2. /\ Late(ServerSite2, {}, spc)
           = {u \in Threads : spc[u] \notin Inside(ServerSite2) \cup {}}
      /\ Late(ServerSite2, {}, spc')
           = {u \in Threads : spc'[u] \notin Inside(ServerSite2) \cup {}}
  BY <1>0, LateIs, ServerSites
<1>3. left = Late(ServerSite2, {}, spc) /\ left' = Late(ServerSite2, {}, spc')
  BY <1>0, <1>2, ServerPast, ServerSites DEF SPast
<1>4. /\ (ran <=> HasRun(ServerSite2, spc)) /\ (ran' <=> HasRun(ServerSite2, spc'))
      /\ ran \in BOOLEAN /\ ran' \in BOOLEAN
  BY <1>0, Roles, ServerPast, ServerSites DEF SPast, HasRun
<1> HIDE DEF arrived, ran, left
<1>5. Acts(ServerSite2, arrived, arrived', ran, ran', left, left')
  BY <1>1, <1>3, <1>4, EarlyActs
<1> QED
  BY <1>5, ServerSites
     DEF Acts, SSite2!Next, SSite2!Run, SSite2!Arrive, SSite2!Leave, SSite2!vars,
         arrived, ran, left

\* The server's third site.
LEMMA SSite3Step ==
  ASSUME Places, Places', KeptEarly(ServerSite3, {"reset3"}, spc, spc', Again(spc, Sf2)')
  PROVE  [SSite3!Next]_(SSite3!vars)
<1> DEFINE arrived == {t \in Parties : SPast(t, "inc3")}
           ran     == SPast(Center, "func3")
           left    == {t \in Threads : SPast(t, "reset3")}
<1>0. /\ spc \in [Threads -> Range(SOrder)] /\ spc' \in [Threads -> Range(SOrder)]
      /\ \A u \in Threads : spc[u] \in {"reset3"} => u = Center
      /\ \A u \in Threads : spc'[u] \in {"reset3"} => u = Center
  BY DEF Places, SCenterOnly
<1>1. arrived = Arrived(ServerSite3, spc) /\ arrived' = Arrived(ServerSite3, spc')
  BY <1>0, Roles, ServerPast, LastServerSite DEF SPast, Arrived
<1>2. /\ Late(ServerSite3, {"reset3"}, spc)
           = {u \in Threads : spc[u] \notin Inside(ServerSite3) \cup {"reset3"}}
      /\ Late(ServerSite3, {"reset3"}, spc')
           = {u \in Threads : spc'[u] \notin Inside(ServerSite3) \cup {"reset3"}}
  BY <1>0, LateIs, LastServerSite
<1>3. left = Late(ServerSite3, {"reset3"}, spc) /\ left' = Late(ServerSite3, {"reset3"}, spc')
  BY <1>0, <1>2, ServerPast, LastServerSite DEF SPast
<1>4. /\ (ran <=> HasRun(ServerSite3, spc)) /\ (ran' <=> HasRun(ServerSite3, spc'))
      /\ ran \in BOOLEAN /\ ran' \in BOOLEAN
  BY <1>0, Roles, ServerPast, LastServerSite DEF SPast, HasRun
<1> HIDE DEF arrived, ran, left
<1>5. Acts(ServerSite3, arrived, arrived', ran, ran', left, left')
  BY <1>1, <1>3, <1>4, EarlyActs
<1> QED
  BY <1>5, LastServerSite
     DEF Acts, SSite3!Next, SSite3!Run, SSite3!Arrive, SSite3!Leave, SSite3!vars,
         arrived, ran, left

\* At the start nobody has been counted anywhere.
LEMMA InitSites ==
  ASSUME Init
  PROVE  /\ SiteInvariant
         /\ CSite1!Init /\ CSite2!Init /\ SSite1!Init /\ SSite2!Init /\ SSite3!Init
<1>1. /\ spc = [t \in Threads |-> "oprf1"] /\ cpc = [t \in Threads |-> "oprf1"]
      /\ Cf1 = 0 /\ Cf2 = 0 /\ Sf1 = 0 /\ Sf2 = 0
  BY DEF Init
<1>2. cpc \in [Threads -> Range(COrder)] /\ spc \in [Threads -> Range(SOrder)]
  BY <1>1, Labels
<1>3. \A t \in Threads : cpc[t] = "oprf1" /\ spc[t] = "oprf1"
  BY <1>1
<1>4. Again(spc, Sf2) = 0
  BY <1>1 DEF Again
<1>5. /\ Meets(ClientSite1, cpc, Cf1) /\ Arrived(ClientSite1, cpc) = {}
      /\ ~HasRun(ClientSite1, cpc) /\ HaveLeft(ClientSite1, cpc) = {}
  <2>1. /\ IsSite(ClientSite1) /\ Cf1 = 0
        /\ \A t \in ClientSite1.threads : cpc[t] \in ClientSite1.before \cup ClientSite1.wait
        /\ \A t \in ClientSite1.arrivers : cpc[t] \in ClientSite1.before
    BY <1>1, <1>3, <1>4, AreSites, Roles, ClientSites
  <2> QED
    BY <2>1, Starts
<1>6. /\ Meets(ClientSite2, cpc, Cf2) /\ Arrived(ClientSite2, cpc) = {}
      /\ ~HasRun(ClientSite2, cpc) /\ HaveLeft(ClientSite2, cpc) = {}
  <2>1. /\ IsSite(ClientSite2) /\ Cf2 = 0
        /\ \A t \in ClientSite2.threads : cpc[t] \in ClientSite2.before \cup ClientSite2.wait
        /\ \A t \in ClientSite2.arrivers : cpc[t] \in ClientSite2.before
    BY <1>1, <1>3, <1>4, AreSites, Roles, ClientSites
  <2> QED
    BY <2>1, Starts
<1>7. /\ Meets(ServerSite1, spc, Sf1) /\ Arrived(ServerSite1, spc) = {}
      /\ ~HasRun(ServerSite1, spc) /\ HaveLeft(ServerSite1, spc) = {}
  <2>1. /\ IsSite(ServerSite1) /\ Sf1 = 0
        /\ \A t \in ServerSite1.threads : spc[t] \in ServerSite1.before \cup ServerSite1.wait
        /\ \A t \in ServerSite1.arrivers : spc[t] \in ServerSite1.before
    BY <1>1, <1>3, <1>4, AreSites, Roles, ServerSites
  <2> QED
    BY <2>1, Starts
<1>8. /\ Meets(ServerSite2, spc, Sf2) /\ Arrived(ServerSite2, spc) = {}
      /\ ~HasRun(ServerSite2, spc) /\ HaveLeft(ServerSite2, spc) = {}
  <2>1. /\ IsSite(ServerSite2) /\ Sf2 = 0
        /\ \A t \in ServerSite2.threads : spc[t] \in ServerSite2.before \cup ServerSite2.wait
        /\ \A t \in ServerSite2.arrivers : spc[t] \in ServerSite2.before
    BY <1>1, <1>3, <1>4, AreSites, Roles, ServerSites
  <2> QED
    BY <2>1, Starts
<1>9. /\ Meets(ServerSite3, spc, Again(spc, Sf2)) /\ Arrived(ServerSite3, spc) = {}
      /\ ~HasRun(ServerSite3, spc) /\ HaveLeft(ServerSite3, spc) = {}
  <2>1. /\ IsSite(ServerSite3) /\ Again(spc, Sf2) = 0
        /\ \A t \in ServerSite3.threads : spc[t] \in ServerSite3.before \cup ServerSite3.wait
        /\ \A t \in ServerSite3.arrivers : spc[t] \in ServerSite3.before
    BY <1>1, <1>3, <1>4, AreSites, Roles, LastServerSite
  <2> QED
    BY <2>1, Starts
<1>10. CSite1!Init
  BY <1>2, <1>3, <1>5, Roles, ClientPast, ClientSites
     DEF CSite1!Init, CPast, Arrived, HasRun
<1>11. CSite2!Init
  BY <1>2, <1>3, <1>6, Roles, ClientPast, ClientSites
     DEF CSite2!Init, CPast, Arrived, HasRun
<1>12. SSite1!Init
  BY <1>2, <1>3, <1>7, Roles, ServerPast, ServerSites
     DEF SSite1!Init, SPast, Arrived, HasRun
<1>13. SSite2!Init
  BY <1>2, <1>3, <1>8, Roles, ServerPast, ServerSites
     DEF SSite2!Init, SPast, Arrived, HasRun
<1>14. SSite3!Init
  BY <1>2, <1>3, <1>9, Roles, ServerPast, LastServerSite
     DEF SSite3!Init, SPast, Arrived, HasRun
<1>15. SiteInvariant
  BY <1>3, <1>5, <1>8, <1>9, InitInvariant DEF SiteInvariant, SitesMeet, LeaderResets
<1> QED
  BY <1>10, <1>11, <1>12, <1>13, <1>14, <1>15

\* What every run keeps: the counts at all the sites.
LEMMA SiteInvariance == Spec => []SiteInvariant
BY InitSites, NextSites, PTL DEF Spec

\* Five of the six call sites of waitFor in run_smpaq implement Rendezvous, for
\* any number of threads: those on one flag, Sf2 on the server, do not disturb
\* each other, and the lost increment of Cf2 is of the client's third.
THEOREM Sites == Spec => SitesAreRendezvous
<1>1. SiteInvariant /\ SiteInvariant' /\ ClientKept /\ ServerKept =>
        /\ [CSite1!Next]_(CSite1!vars) /\ [CSite2!Next]_(CSite2!vars)
        /\ [SSite1!Next]_(SSite1!vars) /\ [SSite2!Next]_(SSite2!vars)
        /\ [SSite3!Next]_(SSite3!vars)
  BY CSite1Step, CSite2Step, SSite1Step, SSite2Step, SSite3Step
     DEF SiteInvariant, Invariant, ClientKept, ServerKept
<1>2. SiteInvariant /\ [Next]_vars =>
        /\ [CSite1!Next]_(CSite1!vars) /\ [CSite2!Next]_(CSite2!vars)
        /\ [SSite1!Next]_(SSite1!vars) /\ [SSite2!Next]_(SSite2!vars)
        /\ [SSite3!Next]_(SSite3!vars)
  BY <1>1, NextSites
<1>3. Init => CSite1!Init /\ CSite2!Init /\ SSite1!Init /\ SSite2!Init /\ SSite3!Init
  BY InitSites
<1> QED
  BY <1>2, <1>3, SiteInvariance, PTL
     DEF Spec, SitesAreRendezvous, CSite1!Spec, CSite2!Spec, SSite1!Spec,
         SSite2!Spec, SSite3!Spec

-----------------------------------------------------------------------------
(* What the tables, the messages and the sums hold.                        *)

\* The rows after the first PRF, of the client and of the servers.
asked == [t \in Threads |-> Oprf(t, 1, <<QueryItem>>)]
held  == [t \in Threads |-> [k \in 1..SNELES |-> Oprf(t, 1, <<k>>)]]

\* A party's labels before it has its rows of the second PRF, and a server
\* thread's before it has put its shares in.
Unasked     == {"oprf1", "inc1", "wait1", "func1", "reset1", "oprf2"}
Unevaluated == {"oprf1", "inc1", "wait1", "func1", "reset1", "share", "inc2", "wait2",
                "reset2", "oprf2"}
Unshared    == {"oprf1", "inc1", "wait1", "func1", "reset1", "share"}

\* What a thread's slot holds, by where the threads are: after the first PRF,
\* and in the tables of party p.
CRow(pc, t)       == IF pc[t] = "oprf1" THEN <<>> ELSE <<asked[t]>>
CEncoded(pc, p, t) == IF pc[p] \in Unasked THEN <<>> ELSE <<Oprf(p, t + 1, asked[t])>>
SRow(pc, t)       == IF pc[t] = "oprf1" THEN <<>> ELSE held[t]
SEncoded(pc, p, t) == IF pc[p] \in Unevaluated \/ ~(t < SNELES) THEN <<>>
                      ELSE LookedUp(p, held, t)

\* The client's tables and the server's hold just that.
ClientRows ==
  /\ clientID = [t \in Threads |-> CRow(cpc, t)]
  /\ clientID_party = [p \in Parties |-> [t \in Threads |-> CEncoded(cpc, p, t)]]
ServerRows ==
  /\ serverID = [t \in Threads |-> SRow(spc, t)]
  /\ serverID_party = [p \in Parties |-> [t \in Threads |-> SEncoded(spc, p, t)]]

\* The two shares of a payload add up to it.
SharesOf(t, forCenter, forLeader) ==
  /\ forCenter \in [1..SNELES -> 0..Word-1]
  /\ forLeader = [k \in 1..SNELES |-> (Payload[t][k] - forCenter[k]) % Word]
Shares ==
  /\ serverData_party = [p \in Parties |-> [t \in Threads |-> serverData_party[p][t]]]
  /\ \A t \in Threads :
       IF spc[t] \in Unshared
       THEN \A p \in Parties : serverData_party[p][t] = <<>>
       ELSE SharesOf(t, serverData_party[Center][t], serverData_party[Leader][t])

\* What a party sends, and the sum that it gets back: of the shares that the
\* servers in Found put in for it.
Queries(p)   == Identifiers(p, asked)
PartySum(shares, p) ==
  SumFunctionOnSet([t \in Threads |-> shares[p][t][QueryItem]], Found) % Word
Total == SumFunctionOnSet([t \in Threads |-> Payload[t][QueryItem]], Found)

\* A party's socket, its sum, and the report.
Replied    == {"sciSend", "sciRecv", "done"}
PastReport == {"reset3", "sci", "done"}
Gathered   == {"count", "inc3", "wait3", "func3", "reset3", "sci", "done"}
Exchange ==
  \A p \in Parties :
    cpc[p] = "recv" =>
      IF spc[p] \in Replied THEN Head(down[p]).body = PartySum(serverData_party, p)
      ELSE Head(up[p]).body = Queries(p)
Sums ==
  g_sum = [p \in Parties |->
             IF cpc[Center] \in PastReport \/ cpc[p] \notin Gathered THEN 0
             ELSE PartySum(serverData_party, p)]
Reported ==
  reports = IF cpc[Center] \in PastReport THEN <<Total % Word>> ELSE <<>>

\* The last site's function runs when the leader has counted itself, and resets
\* the count.
CountReset ==
  cpc[Center] \in PastReport => cpc[Leader] \notin Before3 /\ g_received_count = 0

\* All of it together.
DataInvariant == /\ ClientRows /\ ServerRows /\ Shares
                 /\ Exchange /\ Sums /\ Reported /\ CountReset

-----------------------------------------------------------------------------
(* What the sites give: who is complete when.                              *)

\* A party that is past the client's first site finds every row there.
LEMMA AllAsked ==
  ASSUME SiteInvariant, NEW p \in Parties, cpc[p] = "oprf2", NEW t \in Threads
  PROVE  cpc[t] # "oprf1"
<1>1. Meets(ClientSite1, cpc, Cf1) /\ p \in Threads
  BY Roles DEF SiteInvariant, SitesMeet
<1> QED
  BY <1>1, AllMet, ClientSites

\* A party that is past the leader's site finds every row and every share there.
LEMMA AllSharedAt ==
  ASSUME Meets(ServerSite2, spc, Sf2), NEW p \in Parties,
         spc[p] \notin Inside(ServerSite2), NEW t \in Threads
  PROVE  spc[t] \notin Unshared /\ spc[t] \notin {"oprf1", "inc2"}
<1>1. p \in Threads
  BY Roles
<1> QED
  BY <1>1, AllMet, ServerSites DEF Unshared

\* So it does in every run.
LEMMA AllShared ==
  ASSUME SiteInvariant, NEW p \in Parties, spc[p] \notin Inside(ServerSite2),
         NEW t \in Threads
  PROVE  spc[t] \notin Unshared /\ spc[t] \notin {"oprf1", "inc2"}
<1>1. Meets(ServerSite2, spc, Sf2)
  BY DEF SiteInvariant, SitesMeet
<1> QED
  BY <1>1, AllSharedAt

\* The sums come from servers that are past it.
LEMMA GatheredLate ==
  ASSUME Invariant, NEW p \in Parties, cpc[p] \in Gathered
  PROVE  spc[p] \in Replied
BY Roles, PairOf DEF Invariant, PartyPair, Asks, AskLabels, Expects, Holds, Gone, Silent,
   Answered, Waits, Left, Gathered, Replied

\* As long as a share is missing nothing has been added up.
LEMMA NothingYet ==
  ASSUME SiteInvariant, NEW t \in Threads, spc[t] \in Unshared
  PROVE  /\ \A p \in Parties : spc[p] \notin Replied /\ cpc[p] \notin Gathered
         /\ cpc[Center] \notin PastReport
<1>1. ASSUME NEW p \in Parties
      PROVE  spc[p] \notin Replied
  BY AllShared, ServerSites DEF Replied
<1>2. ASSUME NEW p \in Parties
      PROVE  cpc[p] \notin Gathered
  BY <1>1, GatheredLate DEF SiteInvariant
<1>3. cpc[Center] \notin PastReport
  BY <1>2, Roles DEF PastReport, Gathered
<1> QED
  BY <1>1, <1>2, <1>3
-----------------------------------------------------------------------------
(* Steps that leave the data alone.                                        *)

\* A step between two labels that say the same of the rows keeps the rows.
LEMMA SameClientRows ==
  ASSUME Places, ClientRows, UNCHANGED <<clientID, clientID_party>>, NEW t \in Threads,
         NEW from, NEW to, CGoto(t, from, to), "oprf1" \notin {from, to},
         t \in Parties => (from \in Unasked <=> to \in Unasked)
  PROVE  ClientRows'
<1>1. cpc \in [Threads -> Range(COrder)] /\ cpc[t] = from /\ cpc' = [cpc EXCEPT ![t] = to]
  BY DEF Places, CGoto
<1>2. ASSUME NEW u \in Threads
      PROVE  CRow(cpc', u) = CRow(cpc, u)
  BY <1>1 DEF CRow
<1>3. ASSUME NEW p \in Parties, NEW u \in Threads
      PROVE  CEncoded(cpc', p, u) = CEncoded(cpc, p, u)
  <2>1. p \in Threads /\ (cpc'[p] \in Unasked <=> cpc[p] \in Unasked)
    BY <1>1, Roles
  <2> QED
    BY <2>1 DEF CEncoded
<1> QED
  BY <1>2, <1>3 DEF ClientRows

\* So it is with the sums, the report and the count.
LEMMA SameSums ==
  ASSUME Places, Sums, Reported, CountReset,
         UNCHANGED <<g_sum, reports, serverData_party>>, NEW t \in Threads,
         NEW from, NEW to, CGoto(t, from, to),
         t \in Parties => (from \in Gathered <=> to \in Gathered),
         t = Center => (from \in PastReport <=> to \in PastReport),
         t = Leader => (from \notin Before3 => to \notin Before3),
         cpc[Center] \in PastReport => UNCHANGED g_received_count
  PROVE  Sums' /\ Reported' /\ CountReset'
<1>1. cpc \in [Threads -> Range(COrder)] /\ cpc[t] = from /\ cpc' = [cpc EXCEPT ![t] = to]
  BY DEF Places, CGoto
<1>2. /\ cpc'[Center] \in PastReport <=> cpc[Center] \in PastReport
      /\ cpc[Leader] \notin Before3 => cpc'[Leader] \notin Before3
  BY <1>1, Roles
<1>3. \A p \in Parties : cpc'[p] \in Gathered <=> cpc[p] \in Gathered
  BY <1>1, Roles
<1>4. Sums'
  BY <1>2, <1>3 DEF Sums
<1>5. Reported' /\ CountReset'
  BY <1>2 DEF Reported, CountReset
<1> QED
  BY <1>4, <1>5

\* And with what is on the sockets of a party that waits for its sum.
LEMMA SameExchange ==
  ASSUME Exchange, UNCHANGED serverData_party,
         \A p \in Parties : cpc'[p] = "recv" =>
           /\ cpc[p] = "recv"
           /\ spc[p] \in Replied <=> spc'[p] \in Replied
           /\ up'[p] = up[p] /\ down'[p] = down[p]
  PROVE  Exchange'
BY DEF Exchange

\* The server's rows, likewise.
LEMMA SameServerRows ==
  ASSUME Places, ServerRows, UNCHANGED <<serverID, serverID_party>>, NEW t \in Threads,
         NEW from, NEW to, SGoto(t, from, to), "oprf1" \notin {from, to},
         t \in Parties => (from \in Unevaluated <=> to \in Unevaluated)
  PROVE  ServerRows'
<1>1. spc \in [Threads -> Range(SOrder)] /\ spc[t] = from /\ spc' = [spc EXCEPT ![t] = to]
  BY DEF Places, SGoto
<1>2. ASSUME NEW u \in Threads
      PROVE  SRow(spc', u) = SRow(spc, u)
  BY <1>1 DEF SRow
<1>3. ASSUME NEW p \in Parties, NEW u \in Threads
      PROVE  SEncoded(spc', p, u) = SEncoded(spc, p, u)
  <2>1. p \in Threads /\ (spc'[p] \in Unevaluated <=> spc[p] \in Unevaluated)
    BY <1>1, Roles
  <2> QED
    BY <2>1 DEF SEncoded
<1> QED
  BY <1>2, <1>3 DEF ServerRows

\* And its shares.
LEMMA SameShares ==
  ASSUME Places, Shares, UNCHANGED serverData_party, NEW t \in Threads,
         NEW from, NEW to, SGoto(t, from, to), from \in Unshared <=> to \in Unshared
  PROVE  Shares'
<1>1. spc \in [Threads -> Range(SOrder)] /\ spc[t] = from /\ spc' = [spc EXCEPT ![t] = to]
  BY DEF Places, SGoto
<1>2. \A u \in Threads : spc'[u] \in Unshared <=> spc[u] \in Unshared
  BY <1>1
<1> QED
  BY <1>2 DEF Shares

\* A client step leaves the server's data alone, and the other way round.
LEMMA ServerSideRests ==
  ASSUME ServerRows, Shares, UNCHANGED serverVars
  PROVE  ServerRows' /\ Shares'
BY DEF ServerRows, Shares, SRow, SEncoded, serverVars, serverData

\* A server step leaves the client's rows and report alone.
LEMMA ClientSideRests ==
  ASSUME ClientRows, Reported, CountReset, UNCHANGED clientVars
  PROVE  ClientRows' /\ Reported' /\ CountReset'
BY DEF ClientRows, Reported, CountReset, CRow, CEncoded, clientVars, clientData

-----------------------------------------------------------------------------
(* The client's steps.                                                     *)

\* What a client step has to keep.
ClientDataKept == ClientRows' /\ Exchange' /\ Sums' /\ Reported' /\ CountReset'

\* A step that the sums and the sockets of the parties do not notice.
LEMMA QuietSums ==
  ASSUME Places, DataInvariant, UNCHANGED <<g_sum, reports, serverData_party, spc>>,
         NEW t \in Threads, NEW from, NEW to, CGoto(t, from, to), to # "recv",
         t \in Parties => (from \in Gathered <=> to \in Gathered),
         t = Center => (from \in PastReport <=> to \in PastReport),
         t = Leader => (from \notin Before3 => to \notin Before3),
         cpc[Center] \in PastReport => UNCHANGED g_received_count,
         \A p \in Parties \ {t} : up'[p] = up[p] /\ down'[p] = down[p]
  PROVE  Exchange' /\ Sums' /\ Reported' /\ CountReset'
<1>1. Sums' /\ Reported' /\ CountReset'
  BY SameSums DEF DataInvariant
<1>2. cpc \in [Threads -> Range(COrder)] /\ cpc[t] = from /\ cpc' = [cpc EXCEPT ![t] = to]
  BY DEF Places, CGoto
<1>3. ASSUME NEW p \in Parties, cpc'[p] = "recv"
      PROVE  p # t /\ cpc[p] = "recv"
  BY <1>2, <1>3, Roles
<1>4. Exchange'
  BY <1>3, SameExchange DEF DataInvariant
<1> QED
  BY <1>1, <1>4

\* Increments, polls and resets leave the tables and the sockets alone.
LEMMA CQuietData ==
  ASSUME Places, DataInvariant, NEW t \in Threads,
         CInc1(t) \/ CInc2(t) \/ CWait1(t) \/ CWait2(t) \/ CWait3(t)
           \/ CReset1(t) \/ CReset2(t)
  PROVE  ClientDataKept
<1> DEFINE Quietly(from, to) ==
             /\ CGoto(t, from, to) /\ "oprf1" \notin {from, to} /\ to # "recv"
             /\ t \in Parties => /\ from \in Unasked <=> to \in Unasked
                                 /\ from \in Gathered <=> to \in Gathered
             /\ t = Center => (from \in PastReport <=> to \in PastReport)
             /\ t = Leader => (from \notin Before3 => to \notin Before3)
<1>0. /\ Leader # Center /\ (t \in Parties <=> t = Leader \/ t = Center)
      /\ cpc[t] \in PartyOnly => t \in Parties
      /\ cpc[t] \in CenterOnly => t = Center
  BY Roles DEF Places, Parties
<1>1. UNCHANGED <<clientID, clientID_party, g_sum, g_received_count, reports,
                  serverData_party, spc, up, down>>
  BY DEF CInc1, CInc2, CWait1, CWait2, CWait3, CReset1, CReset2, clientData, serverVars,
         serverData, netVars
<1>2. \E from, to : Quietly(from, to)
  <2> USE DEF Unasked, Gathered, PastReport, Before3, Before2
  <2>1. CASE CInc1(t)
    <3>1. Quietly("inc1", "wait1")
      BY <2>1 DEF CInc1
    <3> QED
      BY <3>1
  <2>2. CASE CInc2(t)
    <3>1. Quietly("inc2", "wait2") \/ Quietly("inc3", "wait3")
      BY <2>2 DEF CInc2
    <3> QED
      BY <3>1
  <2>3. CASE CWait1(t)
    <3>1. \/ Quietly("wait1", "func1") \/ Quietly("wait1", "oprf2")
          \/ Quietly("wait1", "wait2")
      BY <1>0, <2>3 DEF CWait1, AfterSite1
    <3> QED
      BY <3>1
  <2>4. CASE CWait2(t)
    <3>1. \/ Quietly("wait2", "func2") \/ Quietly("wait2", "send")
          \/ Quietly("wait2", "wait3")
      BY <1>0, <2>4 DEF CWait2
    <3> QED
      BY <3>1
  <2>5. CASE CWait3(t)
    <3>1. Quietly("wait3", "func3") \/ Quietly("wait3", "sci")
      BY <1>0, <2>5 DEF CWait3
    <3> QED
      BY <3>1
  <2>6. CASE CReset1(t)
    <3>1. Quietly("func1", "reset1") \/ Quietly("reset1", "oprf2")
      BY <1>0, <2>6 DEF CReset1, AfterSite1, CGoto, CenterOnly
    <3> QED
      BY <3>1
  <2>7. CASE CReset2(t)
    <3>1. Quietly("func2", "reset2") \/ Quietly("reset2", "send") \/ Quietly("reset3", "sci")
      BY <1>0, <2>7 DEF CReset2, CGoto, CenterOnly
    <3> QED
      BY <3>1
  <2> QED
    BY <2>1, <2>2, <2>3, <2>4, <2>5, <2>6, <2>7
<1>3. PICK from, to : Quietly(from, to)
  BY <1>2
<1>4. ClientRows'
  BY <1>1, <1>3, SameClientRows DEF DataInvariant
<1>5. Exchange' /\ Sums' /\ Reported' /\ CountReset'
  BY <1>1, <1>3, QuietSums
<1> QED
  BY <1>4, <1>5 DEF ClientDataKept

\* The first PRF of a client thread.
LEMMA COprf1Rows ==
  ASSUME Places, ClientRows, NEW t \in Threads, COprf1(t)
  PROVE  ClientRows'
<1>1. /\ cpc \in [Threads -> Range(COrder)] /\ cpc[t] = "oprf1"
      /\ cpc' = [cpc EXCEPT ![t] = "inc1"] /\ clientID_party' = clientID_party
  BY DEF Places, COprf1, CGoto
<1>2. clientID' = [clientID EXCEPT ![t] = <<asked[t]>>]
  BY <1>1, FirstRows DEF COprf1, asked
<1>3. ASSUME NEW u \in Threads
      PROVE  CRow(cpc', u) = IF u = t THEN <<asked[t]>> ELSE CRow(cpc, u)
  BY <1>1 DEF CRow
<1>4. ASSUME NEW p \in Parties, NEW u \in Threads
      PROVE  CEncoded(cpc', p, u) = CEncoded(cpc, p, u)
  <2>1. p \in Threads /\ (cpc'[p] \in Unasked <=> cpc[p] \in Unasked)
    BY <1>1, Roles DEF Unasked
  <2> QED
    BY <2>1 DEF CEncoded
<1> QED
  BY <1>1, <1>2, <1>3, <1>4 DEF ClientRows

\* So the first PRF keeps the data.
LEMMA COprf1Data ==
  ASSUME Places, DataInvariant, NEW t \in Threads, COprf1(t)
  PROVE  ClientDataKept
<1>1. /\ CGoto(t, "oprf1", "inc1")
      /\ UNCHANGED <<g_sum, reports, serverData_party, spc, g_received_count, up, down>>
  BY DEF COprf1, serverVars, serverData
<1>2. ClientRows'
  BY COprf1Rows DEF DataInvariant
<1>3. Exchange' /\ Sums' /\ Reported' /\ CountReset'
  BY <1>1, QuietSums DEF Gathered, PastReport, Before3, Before2
<1> QED
  BY <1>2, <1>3 DEF ClientDataKept

\* At a party's second PRF every row is there, so row t is read as input t + 1.
LEMMA COprf2Rows ==
  ASSUME Places, Meets(ClientSite1, cpc, Cf1), ClientRows, NEW t \in Threads, COprf2(t)
  PROVE  ClientRows'
<1>1. /\ cpc \in [Threads -> Range(COrder)] /\ cpc[t] = "oprf2"
      /\ cpc' = [cpc EXCEPT ![t] = "inc2"] /\ t \in Parties /\ clientID' = clientID
  BY DEF Places, PartyOnly, COprf2, CGoto
<1>2. ASSUME NEW u \in Threads
      PROVE  CRow(cpc, u) = <<asked[u]>> /\ CRow(cpc', u) = CRow(cpc, u)
  <2>1. cpc[u] # "oprf1"
    BY <1>1, AllMet, ClientSites
  <2> QED
    BY <1>1, <2>1 DEF CRow
<1>3. clientID = [u \in Threads |-> <<asked[u]>>]
  BY <1>2 DEF ClientRows
<1> DEFINE row == AddRows(clientID_party[t], AsRows(ot_receiver(t, flatten(clientID))))
<1>4. row = [u \in Threads |-> <<Oprf(t, u + 1, asked[u])>>]
  <2>1. \A u \in Threads : clientID[u] = <<clientID[u][1]>> /\ clientID[u][1] = asked[u]
    BY <1>3
  <2>2. \A u \in Threads : row[u] = <<Oprf(t, u + 1, asked[u])>>
    BY <1>3, <2>1, Received
  <2>3. row = [u \in Threads |-> row[u]]
    BY DEF AddRows
  <2> HIDE DEF row
  <2> QED
    BY <2>2, <2>3
<1>5. clientID_party' = [clientID_party EXCEPT ![t] = row]
  BY <1>1 DEF COprf2, ClientRows
<1> HIDE DEF row
<1>6. ASSUME NEW p \in Parties, NEW u \in Threads
      PROVE  CEncoded(cpc', p, u) = IF p = t THEN <<Oprf(t, u + 1, asked[u])>>
                                    ELSE CEncoded(cpc, p, u)
  <2>1. p \in Threads
    BY Roles
  <2> QED
    BY <1>1, <2>1 DEF CEncoded, Unasked
<1>7. clientID_party' = [p \in Parties |-> [u \in Threads |-> CEncoded(cpc', p, u)]]
  <2>1. clientID_party = [p \in Parties |-> [u \in Threads |-> CEncoded(cpc, p, u)]]
    BY DEF ClientRows
  <2>2. \A p \in Parties :
          clientID_party'[p] = [u \in Threads |-> CEncoded(cpc', p, u)]
    BY <1>4, <1>5, <1>6, <2>1
  <2> QED
    BY <1>5, <2>1, <2>2
<1> QED
  BY <1>1, <1>2, <1>7 DEF ClientRows

\* So does the second.
LEMMA COprf2Data ==
  ASSUME SiteInvariant, DataInvariant, NEW t \in Threads, COprf2(t)
  PROVE  ClientDataKept
<1>1. /\ CGoto(t, "oprf2", "inc2")
      /\ UNCHANGED <<g_sum, reports, serverData_party, spc, g_received_count, up, down>>
  BY DEF COprf2, serverVars, serverData
<1>2. Places /\ Meets(ClientSite1, cpc, Cf1)
  BY DEF SiteInvariant, SitesMeet, Invariant
<1>3. ClientRows'
  BY <1>2, COprf2Rows DEF DataInvariant
<1>4. Exchange' /\ Sums' /\ Reported' /\ CountReset'
  BY <1>1, <1>2, QuietSums DEF Gathered, PastReport, Before3, Before2
<1> QED
  BY <1>3, <1>4 DEF ClientDataKept

\* What a party sends once it has its rows of the second PRF.
LEMMA SendsQueries ==
  ASSUME ClientRows, NEW t \in Parties, cpc[t] = "send"
  PROVE  flatten(clientID_party[t]) = Queries(t)
<1>4. clientID_party[t] = [u \in Threads |-> <<Oprf(t, u + 1, asked[u])>>]
  BY DEF ClientRows, CEncoded, Unasked
<1>5. flatten(clientID_party[t]) = Queries(t)
  <2> DEFINE b == [u \in Threads |-> Oprf(t, u + 1, asked[u])]
             S == {b[u] : u \in Threads}
  <2>1. b \in [Threads -> S]
    OBVIOUS
  <2>2. clientID_party[t] = [u \in Threads |-> <<b[u]>>]
    BY <1>4
  <2>3. flatten(clientID_party[t]) = [k \in 1..N |-> b[k-1]]
    <3> HIDE DEF b, S
    <3> QED
      BY <2>1, <2>2, FlattenTable
  <2>4. \A k \in 1..N : k-1 \in Threads /\ b[k-1] = Oprf(t, k, asked[k-1])
    BY ProtocolAssumption DEF Threads
  <2> QED
    BY <2>3, <2>4 DEF Queries, Identifiers
<1> QED
  BY <1>5

\* A party sends the entries of all its rows as one list.
LEMMA CSendData ==
  ASSUME Invariant, DataInvariant, NEW t \in Threads, CSend(t)
  PROVE  ClientDataKept
<1>0. Places /\ PairsInStep
  BY DEF Invariant
<1>1. /\ cpc \in [Threads -> Range(COrder)] /\ cpc[t] = "send" /\ CGoto(t, "send", "recv")
      /\ cpc' = [cpc EXCEPT ![t] = "recv"] /\ t \in Parties
      /\ UNCHANGED <<clientID, clientID_party, g_sum, reports, serverData_party, spc,
                     g_received_count, down>>
      /\ up' = [up EXCEPT ![t] = Append(@, ids(flatten(clientID_party[t])))]
  BY <1>0 DEF Places, PartyOnly, CSend, CGoto, serverVars, serverData, clientData
<1>2. ClientRows'
  BY <1>0, <1>1, SameClientRows DEF DataInvariant, Unasked
<1>3. Sums' /\ Reported' /\ CountReset'
  BY <1>0, <1>1, SameSums, Roles DEF DataInvariant, Gathered, PastReport, Before3, Before2
<1>5. flatten(clientID_party[t]) = Queries(t)
  BY <1>1, SendsQueries DEF DataInvariant
<1>6. up[t] = <<>> /\ spc[t] \notin Replied /\ DOMAIN up = Threads
  BY <1>0, <1>1, PairOf DEF PartyPair, Asks, AskLabels, Expects, Holds, HoldLabels, Gone,
                            Silent, Replied, PairsInStep
<1>7. Head(up'[t]).body = Queries(t)
  BY <1>1, <1>5, <1>6 DEF ids
<1>8. Exchange'
  <2>1. ASSUME NEW p \in Parties, p # t
        PROVE  cpc'[p] = cpc[p] /\ up'[p] = up[p] /\ down'[p] = down[p] /\ spc'[p] = spc[p]
    BY <1>1, <1>6, <2>1, Roles
  <2> QED
    BY <1>1, <1>6, <1>7, <2>1 DEF DataInvariant, Exchange
<1> QED
  BY <1>2, <1>3, <1>8 DEF ClientDataKept

\* What comes back is the party's sum.
LEMMA CRecvData ==
  ASSUME Invariant, DataInvariant, NEW t \in Threads, CRecv(t)
  PROVE  ClientDataKept
<1>0. Places /\ PairsInStep /\ DOMAIN down = Threads
  BY DEF Invariant, PairsInStep
<1>1. /\ cpc \in [Threads -> Range(COrder)] /\ cpc[t] = "recv" /\ CGoto(t, "recv", "count")
      /\ cpc' = [cpc EXCEPT ![t] = "count"] /\ t \in Parties
      /\ UNCHANGED <<clientID, clientID_party, reports, serverData_party, spc,
                     g_received_count, up>>
      /\ down[t] # <<>> /\ down' = [down EXCEPT ![t] = Tail(@)]
      /\ g_sum' = [g_sum EXCEPT ![t] = Head(down[t]).body]
  BY <1>0 DEF Places, PartyOnly, CRecv, CGoto, serverVars, serverData
<1>2. ClientRows'
  BY <1>0, <1>1, SameClientRows DEF DataInvariant, Unasked
<1>3. spc[t] \in Replied
  BY <1>0, <1>1, PairOf DEF PartyPair, Asks, AskLabels, Expects, Holds, HoldLabels, Gone,
                            Silent, Answered, Waits, Left, Replied
<1>4. Head(down[t]).body = PartySum(serverData_party, t)
  BY <1>1, <1>3 DEF DataInvariant, Exchange
<1>5. cpc[Center] \notin PastReport /\ cpc'[Center] \notin PastReport
  <2>1. CASE t = Center
    BY <1>1, <2>1 DEF PastReport
  <2>2. CASE t # Center
    <3>1. t = Leader /\ cpc'[Center] = cpc[Center]
      BY <1>1, <2>2, Roles
    <3> QED
      BY <1>1, <3>1 DEF DataInvariant, CountReset, Before3
  <2> QED
    BY <2>1, <2>2
<1>6. Sums'
  BY <1>1, <1>4, <1>5, Roles DEF DataInvariant, Sums, Gathered
<1>7. Reported' /\ CountReset'
  BY <1>1, <1>5 DEF DataInvariant, Reported, CountReset
<1>8. Exchange'
  <2>1. ASSUME NEW p \in Parties, p # t
        PROVE  cpc'[p] = cpc[p] /\ up'[p] = up[p] /\ down'[p] = down[p] /\ spc'[p] = spc[p]
    BY <1>0, <1>1, <2>1, Roles
  <2> QED
    BY <1>1, <2>1, Roles DEF DataInvariant, Exchange
<1> QED
  BY <1>2, <1>6, <1>7, <1>8 DEF ClientDataKept

\* The count of the sums goes up only before the report.
LEMMA CCountData ==
  ASSUME Places, DataInvariant, NEW t \in Threads, CCount(t)
  PROVE  ClientDataKept
<1>1. /\ cpc \in [Threads -> Range(COrder)] /\ cpc[t] = "count" /\ CGoto(t, "count", "inc3")
      /\ cpc' = [cpc EXCEPT ![t] = "inc3"] /\ t \in Parties
      /\ UNCHANGED <<clientID, clientID_party, g_sum, reports, serverData_party, spc, up, down>>
  BY DEF Places, PartyOnly, CCount, CGoto, serverVars, serverData, netVars
<1>2. ClientRows'
  BY <1>1, SameClientRows DEF DataInvariant, Unasked
<1>3. cpc[Center] \notin PastReport
  BY <1>1, Roles DEF DataInvariant, CountReset, PastReport, Before3
<1>4. Exchange' /\ Sums' /\ Reported' /\ CountReset'
  BY <1>1, <1>3, QuietSums DEF Gathered, PastReport, Before3, Before2
<1> QED
  BY <1>2, <1>4 DEF ClientDataKept

\* The last step of a client thread.
LEMMA CSciData ==
  ASSUME Invariant, DataInvariant, NEW t \in Threads, CSci(t)
  PROVE  ClientDataKept
<1>0. Places /\ DOMAIN up = Threads /\ DOMAIN down = Threads
  BY DEF Invariant, PairsInStep
<1>1. /\ cpc[t] = "sci" /\ CGoto(t, "sci", "done")
      /\ UNCHANGED <<clientID, clientID_party, g_sum, reports, serverData_party, spc,
                     g_received_count>>
      /\ down' = [down EXCEPT ![t] = Tail(@)] /\ up' = [up EXCEPT ![t] = Append(@, sci)]
  BY DEF CSci, CGoto, serverVars, serverData, clientData
<1>2. ClientRows'
  BY <1>0, <1>1, SameClientRows DEF DataInvariant, Unasked
<1>3. \A p \in Parties \ {t} : up'[p] = up[p] /\ down'[p] = down[p]
  BY <1>0, <1>1, Roles
<1>4. Exchange' /\ Sums' /\ Reported' /\ CountReset'
  BY <1>0, <1>1, <1>3, QuietSums DEF Gathered, PastReport, Before3, Before2
<1> QED
  BY <1>2, <1>4 DEF ClientDataKept

\* The two sums of shares add up to the sum of the payloads.
LEMMA SharesAddUp ==
  ASSUME Shares, \A t \in Threads : spc[t] \notin Unshared
  PROVE  (PartySum(serverData_party, Center) + PartySum(serverData_party, Leader)) % Word
           = Total % Word
<1> DEFINE c == [t \in Threads |-> serverData_party[Center][t][QueryItem]]
           l == [t \in Threads |-> serverData_party[Leader][t][QueryItem]]
           w == [t \in Threads |-> Payload[t][QueryItem]]
           both == [t \in Found |-> c[t] + l[t]]
           C == SumFunctionOnSet(c, Found)
           L == SumFunctionOnSet(l, Found)
           T == SumFunctionOnSet(w, Found)
           B == SumFunctionOnSet(both, Found)
<1>1. /\ Word \in Nat \ {0} /\ IsFiniteSet(Found)
      /\ PartySum(serverData_party, Center) = C % Word
      /\ PartySum(serverData_party, Leader) = L % Word /\ Total = T
  BY Smpaq2Assumption, FiniteThreads DEF PartySum, Total
<1>2. ASSUME NEW t \in Found
      PROVE  /\ c[t] \in Int /\ l[t] \in Int /\ w[t] \in Int
             /\ l[t] = (w[t] - c[t]) % Word
             /\ both[t] = c[t] + l[t]
  <2>1. t \in Threads /\ QueryItem \in 1..SNELES
    BY ProtocolAssumption DEF Found
  <2>2. SharesOf(t, serverData_party[Center][t], serverData_party[Leader][t])
    BY <2>1 DEF Shares
  <2>3. Payload[t][QueryItem] \in 0..Word-1
    BY <2>1, Smpaq2Assumption
  <2>4. /\ serverData_party[Center][t][QueryItem] \in 0..Word-1
        /\ serverData_party[Leader][t][QueryItem]
             = (Payload[t][QueryItem] - serverData_party[Center][t][QueryItem]) % Word
    BY <2>1, <2>2 DEF SharesOf
  <2>5. c[t] \in Int /\ w[t] \in Int /\ l[t] = (w[t] - c[t]) % Word
    BY <1>1, <2>1, <2>3, <2>4
  <2>6. w[t] - c[t] \in Int
    BY <2>5
  <2>7. l[t] \in Int
    BY <1>1, <2>5, <2>6, ModuloTwice
  <2> QED
    BY <2>5, <2>7
<1> HIDE DEF c, l, w
<1>3. ASSUME NEW t \in Found
      PROVE  both[t] \in Int /\ w[t] \in Int /\ both[t] % Word = w[t] % Word
  <2>1. w[t] - c[t] \in Int
    BY <1>2
  <2>2. Same(Word, l[t], w[t] - c[t])
    BY <1>1, <1>2, <2>1, ModuloTwice DEF Same
  <2>3. Same(Word, c[t], c[t])
    BY DEF Same
  <2>4. Same(Word, c[t] + l[t], c[t] + (w[t] - c[t]))
    BY <1>1, <1>2, <2>1, <2>2, <2>3, AddModulo
  <2>5. c[t] + (w[t] - c[t]) = w[t]
    BY <1>2
  <2>6. Same(Word, both[t], w[t])
    BY <1>2, <2>4, <2>5
  <2> QED
    BY <1>2, <2>6 DEF Same
<1>4. C + L = B
  BY <1>1, <1>2, SumPlus
<1>5. B % Word = T % Word
  <2> HIDE DEF both
  <2> QED
    BY <1>1, <1>3, SumModulo
<1>6. C \in Int /\ L \in Int
  BY <1>1, <1>2, SumInt
<1> HIDE DEF C, L, T, B
<1>7. Same(Word, (C % Word) + (L % Word), C + L)
  <2>1. /\ C % Word \in Int /\ L % Word \in Int
        /\ Same(Word, C % Word, C) /\ Same(Word, L % Word, L)
    BY <1>1, <1>6, ModuloTwice DEF Same
  <2> QED
    BY <1>1, <1>6, <2>1, AddModulo
<1> QED
  BY <1>1, <1>4, <1>5, <1>7 DEF Same

\* The center adds two sums, and they are those of the two parties.
LEMMA CFunc3Data ==
  ASSUME SiteInvariant, DataInvariant, NEW t \in Threads, CFunc3(t)
  PROVE  ClientDataKept /\ reports = <<>> /\ reports' = <<Total % Word>>
<1>0. Places /\ PartyCounts /\ Invariant
  BY DEF SiteInvariant, Invariant
<1>1. /\ cpc \in [Threads -> Range(COrder)] /\ cpc[t] = "func3" /\ CGoto(t, "func3", "reset3")
      /\ cpc' = [cpc EXCEPT ![t] = "reset3"] /\ t = Center
      /\ UNCHANGED <<clientID, clientID_party, serverData_party, spc, up, down>>
  BY <1>0 DEF Places, CenterOnly, CFunc3, CGoto, serverVars, serverData, netVars
<1>2. ClientRows'
  BY <1>0, <1>1, SameClientRows DEF DataInvariant, Unasked
<1>3. cpc[Leader] \notin Before3 /\ cpc[Leader] \in Range(COrder)
  BY <1>0, <1>1, Roles DEF PartyCounts
<1>4. cpc[Leader] \in Counted /\ cpc[Leader] \in Gathered
  BY <1>3, Labels DEF Before3, Before2, Counted, Gathered
<1>5. g_received_count = 2
  BY <1>0, <1>1, <1>4 DEF PartyCounts, Counted, Num
<1>6. /\ reports' = Append(reports, (g_sum[Center] + g_sum[Leader]) % Word)
      /\ g_sum' = [p \in Parties |-> 0] /\ g_received_count' = 0
  BY <1>5 DEF CFunc3
<1>7. reports = <<>>
  BY <1>1 DEF DataInvariant, Reported, PastReport
<1>8. /\ g_sum[Center] = PartySum(serverData_party, Center)
      /\ g_sum[Leader] = PartySum(serverData_party, Leader)
  BY <1>1, <1>4, Roles DEF DataInvariant, Sums, Gathered, PastReport
<1>9. \A u \in Threads : spc[u] \notin Unshared
  BY <1>1, NothingYet, Roles DEF Gathered
<1>10. (g_sum[Center] + g_sum[Leader]) % Word = Total % Word
  BY <1>8, <1>9, SharesAddUp DEF DataInvariant
<1>11. reports' = <<Total % Word>>
  BY <1>6, <1>7, <1>10
<1>12. cpc'[Center] = "reset3" /\ cpc'[Leader] = cpc[Leader]
  BY <1>1, Roles
<1>13. Sums' /\ Reported' /\ CountReset'
  BY <1>3, <1>6, <1>11, <1>12 DEF Sums, Reported, CountReset, PastReport
<1>14. Exchange'
  <2>1. ASSUME NEW p \in Parties, cpc'[p] = "recv"
        PROVE  cpc[p] = "recv"
    BY <1>1, <2>1, Roles
  <2> QED
    BY <1>1, <2>1, SameExchange DEF DataInvariant
<1> QED
  BY <1>2, <1>7, <1>11, <1>13, <1>14 DEF ClientDataKept

\* Every step of the client.
LEMMA ClientData ==
  ASSUME SiteInvariant, DataInvariant, NEW t \in Threads, Client(t)
  PROVE  DataInvariant'
<1>1. UNCHANGED serverVars
  BY DEF Client, COprf1, CInc1, CWait1, CReset1, COprf2, CInc2, CWait2, CReset2, CSend,
         CRecv, CCount, CWait3, CFunc3, CSci
<1>2. ServerRows' /\ Shares'
  BY <1>1, ServerSideRests DEF DataInvariant
<1>3. Invariant /\ Places
  BY DEF SiteInvariant, Invariant
<1>4. ClientDataKept
  BY <1>3, COprf1Data, COprf2Data, CSendData, CRecvData, CCountData, CFunc3Data, CSciData,
     CQuietData DEF Client
<1> QED
  BY <1>2, <1>4 DEF DataInvariant, ClientDataKept

-----------------------------------------------------------------------------
(* The server's steps.                                                     *)

\* What a server step has to keep.
ServerDataKept == ServerRows' /\ Shares' /\ Exchange' /\ Sums'

\* A step that the client sees nothing of, and that no row or share is put in by.
LEMMA QuietServerData ==
  ASSUME Places, DataInvariant, UNCHANGED <<cpc, g_sum, serverData_party>>,
         NEW t \in Threads, NEW from, NEW to, SGoto(t, from, to),
         from \in Unshared <=> to \in Unshared,
         from \in Replied <=> to \in Replied,
         \A p \in Parties : cpc[p] = "recv" => up'[p] = up[p] /\ down'[p] = down[p]
  PROVE  Shares' /\ Exchange' /\ Sums'
<1>1. Shares'
  BY SameShares DEF DataInvariant
<1>2. spc \in [Threads -> Range(SOrder)] /\ spc[t] = from /\ spc' = [spc EXCEPT ![t] = to]
  BY DEF Places, SGoto
<1>3. \A p \in Parties : spc'[p] \in Replied <=> spc[p] \in Replied
  BY <1>2, Roles
<1>4. Exchange'
  BY <1>3, SameExchange DEF DataInvariant
<1>5. Sums'
  BY DEF DataInvariant, Sums
<1> QED
  BY <1>1, <1>4, <1>5

\* A step between two server labels that say the same of the rows, the shares
\* and the answer.
SQuietly(t, from, to) ==
  /\ SGoto(t, from, to) /\ "oprf1" \notin {from, to}
  /\ from \in Unshared <=> to \in Unshared
  /\ t \in Parties => /\ from \in Unevaluated <=> to \in Unevaluated
                      /\ from \in Replied <=> to \in Replied

\* Increments, polls and resets are such steps.
LEMMA SGoesQuietly ==
  ASSUME Places, NEW t \in Threads,
         SInc1(t) \/ SInc2(t) \/ SWait1(t) \/ SWait2(t) \/ SWait3(t)
           \/ SReset1(t) \/ SReset2(t)
  PROVE  \E from, to : SQuietly(t, from, to)
<1>0. /\ Leader # Center /\ (t \in Parties <=> t = Leader \/ t = Center)
      /\ spc[t] \in SPartyOnly => t \in Parties
      /\ spc[t] \in SCenterOnly => t = Center
  BY Roles DEF Places, Parties
<1> USE DEF SQuietly, Unshared, Unevaluated, Replied
<1>1. CASE SInc1(t)
  <2>1. SQuietly(t, "inc1", "wait1")
    BY <1>1 DEF SInc1
  <2> QED
    BY <2>1
<1>2. CASE SInc2(t)
  <2>1. SQuietly(t, "inc2", "wait2") \/ SQuietly(t, "inc3", "wait3")
    BY <1>2 DEF SInc2
  <2> QED
    BY <2>1
<1>3. CASE SWait1(t)
  <2>1. SQuietly(t, "wait1", "func1") \/ SQuietly(t, "wait1", "share")
    BY <1>0, <1>3 DEF SWait1
  <2> QED
    BY <2>1
<1>4. CASE SWait2(t)
  <2>1. \/ SQuietly(t, "wait2", "reset2") \/ SQuietly(t, "wait2", "oprf2")
        \/ SQuietly(t, "wait2", "wait3")
    BY <1>0, <1>4 DEF SWait2
  <2> QED
    BY <2>1
<1>5. CASE SWait3(t)
  <2>1. \/ SQuietly(t, "wait3", "func3") \/ SQuietly(t, "wait3", "search")
        \/ SGoto(t, "wait3", "sciSend") /\ t \notin Parties
    BY <1>0, <1>5 DEF SWait3
  <2>2. SGoto(t, "wait3", "sciSend") /\ t \notin Parties => SQuietly(t, "wait3", "sciSend")
    OBVIOUS
  <2> QED
    BY <2>1, <2>2
<1>6. CASE SReset1(t)
  <2>1. SQuietly(t, "func1", "reset1") \/ SQuietly(t, "reset1", "share")
    BY <1>6 DEF SReset1
  <2> QED
    BY <2>1
<1>7. CASE SReset2(t)
  <2>1. \/ SQuietly(t, "reset2", "oprf2") \/ SQuietly(t, "func3", "reset3")
        \/ SQuietly(t, "reset3", "search")
    BY <1>7 DEF SReset2
  <2> QED
    BY <2>1
<1> QED
  BY <1>1, <1>2, <1>3, <1>4, <1>5, <1>6, <1>7

\* They leave the tables and the sockets alone.
LEMMA SQuietData ==
  ASSUME Places, DataInvariant, NEW t \in Threads,
         SInc1(t) \/ SInc2(t) \/ SWait1(t) \/ SWait2(t) \/ SWait3(t)
           \/ SReset1(t) \/ SReset2(t)
  PROVE  ServerDataKept
<1>1. UNCHANGED <<cpc, g_sum, serverID, serverID_party, serverData_party, up, down>>
  BY DEF SInc1, SInc2, SWait1, SWait2, SWait3, SReset1, SReset2, clientVars, clientData,
         serverData, netVars
<1>3. PICK from, to : SQuietly(t, from, to)
  BY SGoesQuietly
<1>4. ServerRows'
  BY <1>1, <1>3, SameServerRows DEF DataInvariant, SQuietly
<1>5. Shares'
  BY <1>1, <1>3, SameShares DEF DataInvariant, SQuietly
<1>6. spc \in [Threads -> Range(SOrder)] /\ spc[t] = from /\ spc' = [spc EXCEPT ![t] = to]
  BY <1>3 DEF Places, SGoto, SQuietly
<1>7. \A p \in Parties : spc'[p] \in Replied <=> spc[p] \in Replied
  BY <1>3, <1>6, Roles DEF SQuietly
<1>8. Exchange'
  BY <1>1, <1>7, SameExchange DEF DataInvariant
<1>9. Sums'
  BY <1>1 DEF DataInvariant, Sums
<1> QED
  BY <1>4, <1>5, <1>8, <1>9 DEF ServerDataKept

\* The first PRF of a server thread puts its rows in.
LEMMA SOprf1Rows ==
  ASSUME Places, ServerRows, NEW t \in Threads, SOprf1(t)
  PROVE  ServerRows'
<1>1. /\ spc \in [Threads -> Range(SOrder)] /\ spc[t] = "oprf1" /\ SGoto(t, "oprf1", "inc1")
      /\ spc' = [spc EXCEPT ![t] = "inc1"] /\ serverID_party' = serverID_party
      /\ UNCHANGED <<cpc, g_sum, serverData_party, up, down>>
  BY DEF Places, SOprf1, SGoto, clientVars, clientData
<1>2. serverID' = [serverID EXCEPT ![t] = held[t]]
  BY <1>1, FirstRows DEF SOprf1, held
<1>3. ASSUME NEW u \in Threads
      PROVE  SRow(spc', u) = IF u = t THEN held[t] ELSE SRow(spc, u)
  BY <1>1 DEF SRow
<1>4. ASSUME NEW p \in Parties, NEW u \in Threads
      PROVE  SEncoded(spc', p, u) = SEncoded(spc, p, u)
  <2>1. p \in Threads /\ (spc'[p] \in Unevaluated <=> spc[p] \in Unevaluated)
    BY <1>1, Roles DEF Unevaluated
  <2> QED
    BY <2>1 DEF SEncoded
<1> QED
  BY <1>1, <1>2, <1>3, <1>4 DEF ServerRows

\* Nothing else comes of it.
LEMMA SOprf1Data ==
  ASSUME Places, DataInvariant, NEW t \in Threads, SOprf1(t)
  PROVE  ServerDataKept
<1>1. SGoto(t, "oprf1", "inc1") /\ UNCHANGED <<cpc, g_sum, serverData_party, up, down>>
  BY DEF SOprf1, clientVars, clientData
<1>2. ServerRows'
  BY SOprf1Rows DEF DataInvariant
<1>3. Shares' /\ Exchange' /\ Sums'
  BY <1>1, QuietServerData DEF Unshared, Replied
<1> QED
  BY <1>2, <1>3 DEF ServerDataKept

\* A server thread splits its payloads.
LEMMA SShareShares ==
  ASSUME Places, Shares, NEW t \in Threads, SShare(t)
  PROVE  Shares'
<1>1. /\ spc \in [Threads -> Range(SOrder)]
      /\ spc' = [spc EXCEPT ![t] = "inc2"]
  BY DEF Places, SShare, SGoto
<1>7. PICK s1 \in [1..SNELES -> Masks] :
        serverData_party' = [serverData_party EXCEPT
          ![Center][t] = s1,
          ![Leader][t] = [k \in 1..SNELES |-> (Payload[t][k] - s1[k]) % Word]]
  BY DEF SShare
<1>8. /\ serverData_party = [p \in Parties |-> [u \in Threads |-> serverData_party[p][u]]]
      /\ \A u \in Threads :
           IF spc[u] \in Unshared
           THEN \A p \in Parties : serverData_party[p][u] = <<>>
           ELSE SharesOf(u, serverData_party[Center][u], serverData_party[Leader][u])
  BY DEF Shares
<1>9. Leader \in Parties /\ Center \in Parties /\ Leader # Center
      /\ \A p \in Parties : p = Leader \/ p = Center
  BY Roles
<1> DEFINE s2 == [k \in 1..SNELES |-> (Payload[t][k] - s1[k]) % Word]
<1>10. serverData_party' = [serverData_party EXCEPT ![Center][t] = s1, ![Leader][t] = s2]
  BY <1>7
<1>11. SharesOf(t, s1, s2)
  BY Smpaq2Assumption DEF SharesOf
<1> HIDE DEF s2
<1>12. /\ serverData_party' =
            [p \in Parties |-> [u \in Threads |-> serverData_party'[p][u]]]
       /\ serverData_party'[Center][t] = s1 /\ serverData_party'[Leader][t] = s2
       /\ \A p \in Parties, u \in Threads :
            u # t => serverData_party'[p][u] = serverData_party[p][u]
  <2> DEFINE old == serverData_party
             mid == [old EXCEPT ![Center] = [@ EXCEPT ![t] = s1]]
             new == [mid EXCEPT ![Leader] = [@ EXCEPT ![t] = s2]]
  <2>1. serverData_party' = new
    BY <1>10
  <2>2. /\ DOMAIN old = Parties /\ \A p \in Parties : DOMAIN old[p] = Threads
    BY <1>8
  <2> HIDE DEF old
  <2>3. /\ mid[Center] = [old[Center] EXCEPT ![t] = s1] /\ mid[Leader] = old[Leader]
        /\ DOMAIN mid = Parties
    BY <1>9, <2>2
  <2> HIDE DEF mid
  <2>4. /\ new[Center] = [old[Center] EXCEPT ![t] = s1]
        /\ new[Leader] = [old[Leader] EXCEPT ![t] = s2]
        /\ DOMAIN new = Parties /\ new = [p \in Parties |-> new[p]]
    BY <1>9, <2>3
  <2> HIDE DEF new
  <2>5. \A p \in Parties : new[p] = [u \in Threads |-> new[p][u]]
    <3>1. new[Center] = [u \in Threads |-> new[Center][u]]
      BY <1>9, <2>2, <2>4
    <3>2. new[Leader] = [u \in Threads |-> new[Leader][u]]
      BY <1>9, <2>2, <2>4
    <3> QED
      BY <1>9, <3>1, <3>2
  <2>6. /\ new[Center][t] = s1 /\ new[Leader][t] = s2
        /\ \A p \in Parties, u \in Threads : u # t => new[p][u] = old[p][u]
    BY <1>9, <2>2, <2>4
  <2>7. new = [p \in Parties |-> [u \in Threads |-> new[p][u]]]
    BY <2>4, <2>5
  <2> QED
    BY <2>1, <2>6, <2>7 DEF old
<1>13. ASSUME NEW u \in Threads
       PROVE  IF spc'[u] \in Unshared
              THEN \A p \in Parties : serverData_party'[p][u] = <<>>
              ELSE SharesOf(u, serverData_party'[Center][u], serverData_party'[Leader][u])
  <2>1. CASE u = t
    <3>1. spc'[u] \notin Unshared
      BY <1>1, <2>1 DEF Unshared
    <3> QED
      BY <1>11, <1>12, <2>1, <3>1
  <2>2. CASE u # t
    <3>1. spc'[u] = spc[u]
      BY <1>1, <2>2
    <3> QED
      BY <1>8, <1>9, <1>12, <2>2, <3>1
  <2> QED
    BY <2>1, <2>2
<1>14. Shares'
  <2>1. \A u \in Threads : SharesOf(u, serverData_party[Center][u], serverData_party[Leader][u])'
          <=> SharesOf(u, serverData_party'[Center][u], serverData_party'[Leader][u])
    BY DEF SharesOf
  <2> QED
    BY <1>12, <1>13, <2>1 DEF Shares
<1> QED
  BY <1>14

\* It does so before anything was added up.
LEMMA SShareData ==
  ASSUME SiteInvariant, DataInvariant, NEW t \in Threads, SShare(t)
  PROVE  ServerDataKept
<1>0. Places
  BY DEF SiteInvariant, Invariant
<1>1. /\ spc \in [Threads -> Range(SOrder)] /\ spc[t] = "share" /\ SGoto(t, "share", "inc2")
      /\ spc' = [spc EXCEPT ![t] = "inc2"]
      /\ UNCHANGED <<cpc, g_sum, serverID, serverID_party, up, down>>
  BY <1>0 DEF Places, SShare, SGoto, clientVars, clientData, netVars
<1>2. ServerRows'
  BY <1>0, <1>1, SameServerRows DEF DataInvariant, Unevaluated
<1>3. /\ \A p \in Parties : spc[p] \notin Replied /\ cpc[p] \notin Gathered
      /\ cpc[Center] \notin PastReport
  BY <1>1, NothingYet DEF Unshared
<1>4. \A p \in Parties : p \in Threads /\ spc'[p] \notin Replied
  BY <1>1, <1>3, Roles DEF Replied
<1>5. Sums'
  BY <1>1, <1>3 DEF DataInvariant, Sums
<1>6. Exchange'
  BY <1>1, <1>3, <1>4 DEF DataInvariant, Exchange
<1>7. Shares'
  BY <1>0, SShareShares DEF DataInvariant
<1> QED
  BY <1>2, <1>5, <1>6, <1>7 DEF ServerDataKept

\* Of the rows of all the servers the party's copy gets as many as a server has
\* elements.
LEMMA Evaluated ==
  ASSUME NEW c, NEW table, NEW old, \A u \in Threads : table[u] = held[u],
         \A u \in Threads : old[u] = <<>>
  PROVE  \A u \in Threads :
           AddRows(old, fromServerOprfData(ot_sender(c, Rows(table), N), SNELES))[u]
             = IF u < SNELES THEN LookedUp(c, held, u) ELSE <<>>
<1>1. ASSUME NEW u \in Threads
      PROVE  /\ u >= SNELES <=> ~(u < SNELES)
             /\ table[u] = held[u] /\ Len(table[u]) = SNELES
  BY ProtocolAssumption DEF held, Threads
<1>2. AddRows(old, fromServerOprfData(ot_sender(c, Rows(table), N), SNELES))
        = [u \in Threads |->
             IF u >= SNELES THEN old[u]
             ELSE [m \in 1..Len(table[u]) |-> Oprf(c, u + 1, table[u][m])]]
  BY Sent
<1> QED
  BY <1>1, <1>2 DEF LookedUp

\* At a party's second PRF every row is there.
LEMMA SOprf2Rows ==
  ASSUME Places, ServerRows, Meets(ServerSite2, spc, Sf2), NEW t \in Threads, SOprf2(t)
  PROVE  ServerRows'
<1>1. /\ spc \in [Threads -> Range(SOrder)] /\ spc[t] = "oprf2" /\ SGoto(t, "oprf2", "inc3")
      /\ spc' = [spc EXCEPT ![t] = "inc3"] /\ t \in Parties /\ serverID' = serverID
      /\ UNCHANGED <<cpc, g_sum, serverData_party, up, down>>
  BY DEF Places, SPartyOnly, SOprf2, SGoto, clientVars, clientData
<1>2. spc[t] \notin Inside(ServerSite2)
  BY <1>1, ServerSites
<1>3. ASSUME NEW u \in Threads
      PROVE  SRow(spc, u) = held[u] /\ SRow(spc', u) = SRow(spc, u)
  BY <1>1, <1>2, AllSharedAt DEF SRow
<1>4. serverID = [u \in Threads |-> held[u]]
  BY <1>3 DEF ServerRows
<1>5. serverID_party = [p \in Parties |-> [u \in Threads |-> SEncoded(spc, p, u)]]
  BY DEF ServerRows
<1>6. \A u \in Threads : serverID_party[t][u] = <<>>
  BY <1>1, <1>5 DEF SEncoded, Unevaluated
<1> DEFINE row == AddRows(serverID_party[t],
                           fromServerOprfData(ot_sender(t, Rows(serverID), N), SNELES))
<1>7. serverID_party' = [serverID_party EXCEPT ![t] = row]
  BY <1>1, <1>5 DEF SOprf2
<1>8. row = [u \in Threads |-> row[u]]
  BY DEF AddRows
<1>9. \A u \in Threads : row[u] = IF u < SNELES THEN LookedUp(t, held, u) ELSE <<>>
  <2>1. \A u \in Threads : serverID[u] = held[u]
    BY <1>4
  <2> QED
    BY <1>6, <2>1, Evaluated
<1> HIDE DEF row
<1>10. ASSUME NEW p \in Parties, NEW u \in Threads
       PROVE  SEncoded(spc', p, u) = IF p = t THEN row[u] ELSE SEncoded(spc, p, u)
  <2>1. p \in Threads
    BY Roles
  <2> QED
    BY <1>1, <1>9, <2>1 DEF SEncoded, Unevaluated
<1>11. serverID_party' = [p \in Parties |-> [u \in Threads |-> SEncoded(spc', p, u)]]
  <2>1. \A p \in Parties :
          serverID_party'[p] = [u \in Threads |-> SEncoded(spc', p, u)]
    BY <1>1, <1>5, <1>7, <1>8, <1>10
  <2> QED
    BY <1>5, <1>7, <2>1
<1> QED
  BY <1>1, <1>3, <1>11 DEF ServerRows

\* Nothing else comes of it.
LEMMA SOprf2Data ==
  ASSUME SiteInvariant, DataInvariant, NEW t \in Threads, SOprf2(t)
  PROVE  ServerDataKept
<1>1. Places /\ Meets(ServerSite2, spc, Sf2) /\ ServerRows
  BY DEF SiteInvariant, Invariant, SitesMeet, DataInvariant
<1>2. SGoto(t, "oprf2", "inc3") /\ UNCHANGED <<cpc, g_sum, serverData_party, up, down>>
  BY DEF SOprf2, clientVars, clientData
<1>3. ServerRows'
  BY <1>1, SOprf2Rows
<1>4. Shares' /\ Exchange' /\ Sums'
  BY <1>1, <1>2, QuietServerData DEF Unshared, Replied
<1> QED
  BY <1>3, <1>4 DEF ServerDataKept

\* The entries of the tables, and which of them are held are held.
LEMMA FirstEntries ==
  /\ asked \in [Threads -> Seq(Piece)]
  /\ held \in [Threads -> [1..SNELES -> Seq(Piece)]]
  /\ \A t \in Threads, k \in 1..SNELES : asked[t] = held[t][k] <=> k = QueryItem
<1>1. \A k \in Int : <<k>> \in Seq(Piece) /\ k \in Piece
  BY DEF Piece
<1>2. QueryItem \in Int /\ 1..SNELES \subseteq Int /\ Threads \subseteq Int /\ 1 \in Int
  BY ProtocolAssumption DEF Threads
<1>3. \A t \in Threads, k \in Int : Oprf(t, 1, <<k>>) \in Seq(Piece)
  BY <1>1, <1>2, OprfInjective
<1>4. asked \in [Threads -> Seq(Piece)]
  BY <1>1, <1>2, <1>3 DEF asked
<1>5. held \in [Threads -> [1..SNELES -> Seq(Piece)]]
  BY <1>1, <1>2, <1>3 DEF held
<1>6. ASSUME NEW t \in Threads, NEW k \in 1..SNELES
      PROVE  asked[t] = held[t][k] <=> k = QueryItem
  <2>1. Oprf(t, 1, <<QueryItem>>) = Oprf(t, 1, <<k>>) => <<QueryItem>> = <<k>>
    BY <1>1, <1>2, OprfSame
  <2> QED
    BY <2>1 DEF asked, held
<1> QED
  BY <1>4, <1>5, <1>6

\* What a party's server adds up is one share of each server in Found.
LEMMA SearchSum ==
  ASSUME Shares, \A u \in Threads : spc[u] \notin Unshared, NEW p \in Parties, NEW table,
         \A u \in Threads : table[u] = IF u < SNELES THEN LookedUp(p, held, u) ELSE <<>>
  PROVE  MatchSum(Queries(p), table, serverData_party[p]) % Word
           = PartySum(serverData_party, p)
<1>1. p \in Int
  BY Roles, ProtocolAssumption DEF Threads
<1>2. ASSUME NEW t \in Threads, NEW u \in Threads, NEW k \in 1..SNELES,
             t >= SNELES, k <= Len(table[t])
      PROVE  table[t][k] # Oprf(p, u + 1, asked[u])
  <2>1. ~(t < SNELES)
    BY <1>2, ProtocolAssumption DEF Threads
  <2>2. table[t] = <<>>
    BY <2>1
  <2>3. Len(table[t]) = 0
    BY <2>2
  <2> QED
    BY <1>2, <2>3
<1>3. \A t \in Threads : t < SNELES => table[t] = LookedUp(p, held, t)
  OBVIOUS
<1>4. Comparable(p, asked, held, table)
  BY <1>1, <1>2, <1>3, FirstEntries DEF Comparable
<1>5. Matches(Queries(p), table) = FoundAt
  BY <1>4, Matching DEF Queries
<1>6. ASSUME NEW t \in Found
      PROVE  serverData_party[p][t][QueryItem] \in Int
  <2>1. t \in Threads /\ QueryItem \in 1..SNELES
    BY ProtocolAssumption DEF Found
  <2>2. SharesOf(t, serverData_party[Center][t], serverData_party[Leader][t])
    BY <2>1 DEF Shares
  <2>3. serverData_party[Center][t][QueryItem] \in 0..Word-1
    BY <2>1, <2>2 DEF SharesOf
  <2>4. Payload[t][QueryItem] \in 0..Word-1 /\ Word \in Nat \ {0}
    BY <2>1, Smpaq2Assumption
  <2>5. serverData_party[Leader][t][QueryItem]
          = (Payload[t][QueryItem] - serverData_party[Center][t][QueryItem]) % Word
    BY <2>1, <2>2 DEF SharesOf
  <2>6. serverData_party[Leader][t][QueryItem] \in Int
    <3> DEFINE d == Payload[t][QueryItem] - serverData_party[Center][t][QueryItem]
    <3>1. d \in Int /\ serverData_party[Leader][t][QueryItem] = d % Word
      BY <2>3, <2>4, <2>5
    <3> HIDE DEF d
    <3> QED
      BY <2>4, <3>1, ModuloTwice
  <2>7. p = Leader \/ p = Center
    BY Roles
  <2> QED
    BY <2>3, <2>4, <2>6, <2>7
<1> DEFINE data == serverData_party[p]
<1>7. MatchSum(Queries(p), table, data)
        = SumFunctionOnSet([t \in Threads |-> data[t][QueryItem]], Found)
  <2>1. \A t \in Found : data[t][QueryItem] \in Int
    BY <1>6
  <2> HIDE DEF data
  <2> QED
    BY <1>5, <2>1, FoundSum
<1> QED
  BY <1>7 DEF PartySum

\* A party's server has every row and every share when the identifiers come.
LEMMA SSearchData ==
  ASSUME SiteInvariant, DataInvariant, NEW t \in Threads, SSearch(t)
  PROVE  ServerDataKept
<1>0. Places /\ PairsInStep
  BY DEF SiteInvariant, Invariant
<1>1. /\ spc \in [Threads -> Range(SOrder)] /\ spc[t] = "search" /\ SGoto(t, "search", "sciSend")
      /\ spc' = [spc EXCEPT ![t] = "sciSend"] /\ t \in Parties
      /\ UNCHANGED <<cpc, g_sum, serverID, serverID_party, serverData_party>>
      /\ up[t] # <<>> /\ up' = [up EXCEPT ![t] = Tail(@)]
  BY <1>0 DEF Places, SPartyOnly, SSearch, SGoto, clientVars, clientData, serverData
<1>2. ServerRows'
  BY <1>0, <1>1, SameServerRows DEF DataInvariant, Unevaluated
<1>3. Shares'
  BY <1>0, <1>1, SameShares DEF DataInvariant, Unshared
<1>4. Sums'
  BY <1>1 DEF DataInvariant, Sums
<1>5. cpc[t] = "recv" /\ down[t] = <<>>
  BY <1>0, <1>1, PairOf DEF PartyPair, Asks, AskLabels, Expects, Holds, HoldLabels, Gone,
                            Silent, Answered, Waits, Left
<1>6. Head(up[t]).body = Queries(t)
  BY <1>1, <1>5 DEF DataInvariant, Exchange, Replied
<1>7. \A u \in Threads : spc[u] \notin Unshared
  BY <1>1, AllShared, ServerSites
<1>8. \A u \in Threads :
        serverID_party[t][u] = IF u < SNELES THEN LookedUp(t, held, u) ELSE <<>>
  BY <1>1 DEF DataInvariant, ServerRows, SEncoded, Unevaluated
<1> DEFINE table == serverID_party[t]
<1>9. MatchSum(Queries(t), table, serverData_party[t]) % Word
        = PartySum(serverData_party, t)
  <2>1. \A u \in Threads : table[u] = IF u < SNELES THEN LookedUp(t, held, u) ELSE <<>>
    BY <1>8
  <2> HIDE DEF table
  <2> QED
    BY <1>1, <1>7, <2>1, SearchSum DEF DataInvariant
<1> DEFINE m == number(PartySum(serverData_party, t))
<1>10. down' = [down EXCEPT ![t] = Append(@, m)] /\ m.body = PartySum(serverData_party, t)
  BY <1>6, <1>9 DEF SSearch, number
<1> HIDE DEF m
<1>11. down'[t] = <<m>>
  BY <1>0, <1>1, <1>5, <1>10 DEF PairsInStep
<1>12. Head(down'[t]).body = PartySum(serverData_party, t)
  BY <1>10, <1>11
<1>13. Exchange'
  <2>1. ASSUME NEW p \in Parties, p # t
        PROVE  /\ cpc'[p] = cpc[p] /\ up'[p] = up[p] /\ down'[p] = down[p]
               /\ spc'[p] = spc[p]
    BY <1>0, <1>1, <1>10, <2>1, Roles DEF PairsInStep
  <2>2. spc'[t] \in Replied
    BY <1>1 DEF Replied
  <2> QED
    BY <1>1, <1>12, <2>1, <2>2 DEF DataInvariant, Exchange
<1> QED
  BY <1>2, <1>3, <1>4, <1>13 DEF ServerDataKept

\* The statistics come after the sum, and are taken when it has been.
LEMMA SSciSendData ==
  ASSUME Invariant, DataInvariant, NEW t \in Threads, SSciSend(t)
  PROVE  ServerDataKept
<1>0. Places /\ PairsInStep
  BY DEF Invariant
<1>1. /\ spc \in [Threads -> Range(SOrder)] /\ spc[t] = "sciSend"
      /\ SGoto(t, "sciSend", "sciRecv") /\ spc' = [spc EXCEPT ![t] = "sciRecv"]
      /\ UNCHANGED <<cpc, g_sum, serverID, serverID_party, serverData_party, up>>
      /\ down' = [down EXCEPT ![t] = Append(@, sci)]
  BY <1>0 DEF Places, SSciSend, SGoto, clientVars, clientData, serverData
<1>2. ServerRows'
  BY <1>0, <1>1, SameServerRows DEF DataInvariant, Unevaluated
<1>3. Shares'
  BY <1>0, <1>1, SameShares DEF DataInvariant, Unshared
<1>4. Sums'
  BY <1>1 DEF DataInvariant, Sums
<1>5. \A p \in Parties : spc'[p] \in Replied <=> spc[p] \in Replied
  BY <1>1, Roles DEF Replied
<1>6. ASSUME t \in Parties, cpc[t] = "recv"
      PROVE  Head(down'[t]) = Head(down[t])
  <2>1. One(down[t], "number")
    BY <1>0, <1>1, <1>6, PairOf DEF PartyPair, Asks, AskLabels, Expects, Holds,
       HoldLabels,
       Gone, Silent, Answered, Waits, Left
  <2>2. down'[t] = Append(down[t], sci)
    BY <1>0, <1>1 DEF PairsInStep
  <2> DEFINE m == down[t][1]
  <2>3. down[t] = <<m>>
    BY <2>1 DEF One
  <2> HIDE DEF m
  <2> QED
    BY <2>2, <2>3
<1>7. Exchange'
  <2>1. ASSUME NEW p \in Parties, p # t
        PROVE  down'[p] = down[p]
    BY <1>0, <1>1, <2>1, Roles DEF PairsInStep
  <2>2. ASSUME NEW p \in Parties, cpc[p] = "recv"
        PROVE  Head(down'[p]) = Head(down[p])
    BY <1>6, <2>1, <2>2
  <2> QED
    BY <1>1, <1>5, <2>2 DEF DataInvariant, Exchange
<1> QED
  BY <1>2, <1>3, <1>4, <1>7 DEF ServerDataKept

\* The last receive touches no data.
LEMMA SSciRecvData ==
  ASSUME Invariant, DataInvariant, NEW t \in Threads, SSciRecv(t)
  PROVE  ServerDataKept
<1>0. Places /\ PairsInStep
  BY DEF Invariant
<1>1. /\ spc \in [Threads -> Range(SOrder)] /\ spc[t] = "sciRecv"
      /\ SGoto(t, "sciRecv", "done") /\ spc' = [spc EXCEPT ![t] = "done"]
      /\ UNCHANGED <<cpc, g_sum, serverID, serverID_party, serverData_party, down>>
      /\ up[t] # <<>> /\ up' = [up EXCEPT ![t] = Tail(@)]
  BY <1>0 DEF Places, SSciRecv, SGoto, clientVars, clientData, serverData
<1>2. ServerRows'
  BY <1>0, <1>1, SameServerRows DEF DataInvariant, Unevaluated
<1>3. cpc[t] # "recv"
  <2>1. CASE t \in Parties
    BY <1>0, <1>1, <2>1, PairOf DEF PartyPair, Asks, AskLabels, Expects, Holds,
       HoldLabels,
       Gone, Silent, Answered, Waits, Left
  <2>2. CASE t \notin Parties
    BY <1>0, <1>1, <2>2 DEF Places, OtherPair, Waits, Left, Gone, PairsInStep, Sockets
  <2> QED
    BY <2>1, <2>2
<1>4. \A p \in Parties : cpc[p] = "recv" => up'[p] = up[p] /\ down'[p] = down[p]
  BY <1>0, <1>1, <1>3, Roles DEF PairsInStep
<1>5. Shares' /\ Exchange' /\ Sums'
  BY <1>0, <1>1, <1>4, QuietServerData DEF Unshared, Replied
<1> QED
  BY <1>2, <1>5 DEF ServerDataKept

\* Every step of the server.
LEMMA ServerDataStep ==
  ASSUME SiteInvariant, DataInvariant, NEW t \in Threads, Server(t)
  PROVE  DataInvariant' /\ UNCHANGED reports
<1>1. UNCHANGED clientVars
  BY DEF Server, SOprf1, SInc1, SWait1, SReset1, SShare, SInc2, SWait2, SReset2, SOprf2,
         SWait3, SSearch, SSciSend, SSciRecv
<1>2. ClientRows' /\ Reported' /\ CountReset'
  BY <1>1, ClientSideRests DEF DataInvariant
<1>3. Invariant /\ Places
  BY DEF SiteInvariant, Invariant
<1>4. ServerDataKept
  BY <1>3, SOprf1Data, SShareData, SOprf2Data, SSearchData, SSciSendData, SSciRecvData,
     SQuietData DEF Server
<1> QED
  BY <1>1, <1>2, <1>4 DEF DataInvariant, ServerDataKept, clientVars, clientData
-----------------------------------------------------------------------------
(* What every run holds, and what that gives.                              *)

\* No table, sum or report is there at the start.
LEMMA InitData == Init => DataInvariant
<1> SUFFICES ASSUME Init PROVE DataInvariant
  OBVIOUS
<1>1. /\ \A t \in Threads : cpc[t] = "oprf1" /\ spc[t] = "oprf1"
      /\ \A p \in Parties : p \in Threads /\ cpc[p] = "oprf1" /\ spc[p] = "oprf1"
      /\ cpc[Center] = "oprf1"
  BY Roles DEF Init
<1>2. ClientRows
  BY <1>1 DEF Init, ClientRows, CRow, CEncoded, Unasked, EmptyTable
<1>3. ServerRows
  BY <1>1 DEF Init, ServerRows, SRow, SEncoded, Unevaluated, EmptyTable
<1>4. Shares
  BY <1>1 DEF Init, Shares, Unshared, EmptyTable
<1>5. Exchange
  BY <1>1 DEF Exchange
<1>6. Sums /\ Reported /\ CountReset
  BY <1>1 DEF Init, Sums, Reported, CountReset, Gathered, PastReport
<1> QED
  BY <1>2, <1>3, <1>4, <1>5, <1>6 DEF DataInvariant

\* Every step keeps what the data hold.
LEMMA NextData == SiteInvariant /\ DataInvariant /\ [Next]_vars => DataInvariant'
<1> SUFFICES ASSUME SiteInvariant, DataInvariant, [Next]_vars PROVE DataInvariant'
  OBVIOUS
<1>1. CASE UNCHANGED vars
  <2>1. UNCHANGED clientVars /\ UNCHANGED serverVars
        /\ UNCHANGED <<up, down, cpc, spc, g_sum, serverData_party>>
    BY <1>1 DEF vars, netVars, clientVars, clientData, serverVars, serverData
  <2>2. ClientRows' /\ Reported' /\ CountReset' /\ ServerRows' /\ Shares'
    BY <2>1, ServerSideRests, ClientSideRests DEF DataInvariant
  <2>3. Exchange' /\ Sums'
    BY <2>1, SameExchange DEF DataInvariant, Sums
  <2> QED
    BY <2>2, <2>3 DEF DataInvariant
<1>2. ASSUME NEW t \in Threads, Client(t)
      PROVE  DataInvariant'
  BY <1>2, ClientData
<1>3. ASSUME NEW t \in Threads, Server(t)
      PROVE  DataInvariant'
  BY <1>3, ServerDataStep
<1> QED
  BY <1>1, <1>2, <1>3 DEF Next

\* Every table, message and sum of a run holds what the places of the threads
\* say, whatever the masks and however the threads interleave.
THEOREM DataInvariance == Spec => []DataInvariant
BY InitData, NextData, SiteInvariance, PTL DEF Spec

\* The readers see all the rows, of what the tables hold and who has passed.
LEMMA SeesAllRows ==
  ASSUME SiteInvariant, DataInvariant
  PROVE  ReadersSeeAllRows
<1>0. Places /\ PairsInStep
  BY DEF SiteInvariant, Invariant
<1>1. ASSUME NEW p \in Parties, cpc[p] = "oprf2", NEW t \in Threads
      PROVE  clientID[t] # <<>>
  <2>1. clientID[t] = <<asked[t]>>
    BY <1>1, AllAsked DEF DataInvariant, ClientRows, CRow
  <2> QED
    BY <2>1
<1>2. ASSUME NEW p \in Parties, spc[p] \in {"oprf2", "search"}, NEW t \in Threads
      PROVE  spc[t] # "oprf1" /\ spc[t] \notin Unshared
  <2>1. spc[p] \notin Inside(ServerSite2)
    BY <1>2, ServerSites
  <2> QED
    BY <2>1, AllShared
<1>3. ASSUME NEW p \in Parties, spc[p] = "oprf2", NEW t \in Threads
      PROVE  serverID[t] # <<>>
  <2>1. serverID[t] = held[t]
    BY <1>2, <1>3 DEF DataInvariant, ServerRows, SRow
  <2>2. held[t] # <<>>
    BY ProtocolAssumption DEF held
  <2> QED
    BY <2>1, <2>2
<1>4. ASSUME NEW p \in Parties, spc[p] \in {"oprf2", "search"},
             NEW q \in Parties, NEW t \in Threads
      PROVE  serverData_party[q][t] # <<>>
  <2>1. SharesOf(t, serverData_party[Center][t], serverData_party[Leader][t])
    BY <1>2, <1>4 DEF DataInvariant, Shares
  <2>2. /\ DOMAIN serverData_party[Center][t] = 1..SNELES
        /\ DOMAIN serverData_party[Leader][t] = 1..SNELES
    BY <2>1 DEF SharesOf
  <2>3. 1 \in 1..SNELES /\ DOMAIN <<>> = {}
    BY ProtocolAssumption
  <2> QED
    BY <2>2, <2>3, Roles
<1>5. ASSUME NEW p \in Parties, NEW i \in DOMAIN up[p], up[p][i].kind = "ids"
      PROVE  Len(up[p][i].body) = N
  <2>1. PartyPair(p)
    BY <1>0, PairOf, Roles
  <2>2. \/ up[p] = <<>> \/ One(up[p], "sci")
        \/ Expects(p) /\ Silent(p) /\ One(up[p], "ids")
    BY <2>1 DEF PartyPair
  <2> DEFINE m == up[p][1]
  <2>3. up[p] # <<>>
    BY <1>5
  <2>4. up[p] = <<m>>
    BY <2>2, <2>3 DEF One
  <2>5. i = 1 /\ up[p][i] = m /\ Head(up[p]) = m
    <3> HIDE DEF m
    <3> QED
      BY <2>4
  <2>6. ~One(up[p], "sci")
    BY <1>5, <2>5 DEF One
  <2>7. cpc[p] = "recv" /\ spc[p] \notin Replied
    BY <2>2, <2>3, <2>6 DEF Expects, Silent, Replied
  <2>8. m.body = Queries(p)
    BY <2>5, <2>7 DEF DataInvariant, Exchange
  <2>9. Len(Queries(p)) = N
    BY ProtocolAssumption DEF Queries, Identifiers
  <2> QED
    BY <2>5, <2>8, <2>9
<1> QED
  BY <1>1, <1>2, <1>3, <1>4, <1>5 DEF ReadersSeeAllRows

\* Whoever reads a table of all the threads finds every row, and the server gets
\* as many identifiers as it reads: for any number of threads and elements.
THEOREM AllRows == Spec => []ReadersSeeAllRows
<1>1. SiteInvariant /\ DataInvariant => ReadersSeeAllRows
  BY SeesAllRows
<1> QED
  BY <1>1, SiteInvariance, DataInvariance, PTL

\* Nothing is reported, or the sum over the servers that are found.
ReportsFound == reports \in {<<>>, <<Total % Word>>}

\* Whatever the sizes and the masks, what is printed is the sum over the servers
\* that are found, reduced, and it is printed once.
THEOREM PrintsFound == Spec => []ReportsFound
<1>1. DataInvariant => ReportsFound
  BY DEF DataInvariant, Reported, ReportsFound
<1> QED
  BY <1>1, DataInvariance, PTL

\* A server has contributed when its shares are in.
LEMMA SharesAreIn ==
  ASSUME Places, NEW t \in Threads
  PROVE  SPast(t, "share") <=> spc[t] \notin Unshared
<1>1. /\ Place(SOrder, "oprf1") = 1 /\ Place(SOrder, "inc1") = 2
      /\ Place(SOrder, "wait1") = 3 /\ Place(SOrder, "func1") = 4
      /\ Place(SOrder, "reset1") = 5 /\ Place(SOrder, "share") = 6
      /\ Place(SOrder, "inc2") = 7 /\ Place(SOrder, "wait2") = 8
      /\ Place(SOrder, "reset2") = 9 /\ Place(SOrder, "oprf2") = 10
      /\ Place(SOrder, "inc3") = 11 /\ Place(SOrder, "wait3") = 12
      /\ Place(SOrder, "func3") = 13 /\ Place(SOrder, "reset3") = 14
      /\ Place(SOrder, "search") = 15 /\ Place(SOrder, "sciSend") = 16
      /\ Place(SOrder, "sciRecv") = 17 /\ Place(SOrder, "done") = 18
  BY DEF Place, SOrder
<1>2. spc[t] \in {"oprf1", "inc1", "wait1", "func1", "reset1", "share", "inc2", "wait2",
      "reset2", "oprf2", "inc3", "wait3", "func3", "reset3", "search",
      "sciSend", "sciRecv", "done"}
  BY Labels DEF Places
<1> QED
  BY <1>1, <1>2 DEF SPast, Unshared

\* The servers that have put their shares in.
contributed == {t \in Threads : SPast(t, "share")}

\* They are told by their labels.
LEMMA ContributedIs == Places => contributed = {t \in Threads : spc[t] \notin Unshared}
<1>1. Places => \A t \in Threads : SPast(t, "share") <=> spc[t] \notin Unshared
  BY SharesAreIn
<1> QED
  BY <1>1 DEF contributed

\* With a row of the second PRF for every server, what is found is all there is.
LEMMA AnswerIs ==
  ASSUME SNELES >= N
  PROVE  Query!Answer = Total % Word
<1>1. \A t \in Threads : DOMAIN Payload[t] = 1..SNELES
  BY Smpaq2Assumption
<1>2. SumAt(Payload, {s \in Threads : QueryItem \in DOMAIN Payload[s]}) = Total
  BY <1>1, SumOfAll DEF Total
<1>3. Query!Answer = SumAt(Payload, {s \in Threads : QueryItem \in DOMAIN Payload[s]})
                       % Word
  BY DEF Query!Answer, Query!MapThenSumSet, Query!MapThenFoldSet,
         SumAt, MapThenSumSet, MapThenFoldSet
<1> QED
  BY <1>2, <1>3

\* Each step is a contribution, the report, or nothing to the query.
LEMMA QueryStep ==
  ASSUME SNELES >= N, SiteInvariant, DataInvariant, Places', [Next]_vars
  PROVE  [Query!Next]_(Query!vars)
<1>0. Places
  BY DEF SiteInvariant, Invariant
<1>1. /\ contributed = {t \in Threads : spc[t] \notin Unshared}
      /\ contributed' = {t \in Threads : spc'[t] \notin Unshared}
  <2>1. (Places => contributed = {t \in Threads : spc[t] \notin Unshared})'
    BY ContributedIs, PTL
  <2> QED
    BY <1>0, <2>1, ContributedIs
<1>2. ASSUME UNCHANGED reports, \A t \in Threads : spc'[t] \in Unshared <=> spc[t] \in Unshared
      PROVE  UNCHANGED Query!vars
  BY <1>1, <1>2 DEF Query!vars, contributed
<1>3. CASE UNCHANGED vars
  BY <1>2, <1>3 DEF vars, clientVars, clientData, serverVars
<1>4. ASSUME NEW t \in Threads, SShare(t)
      PROVE  Query!Contribute(t)
  <2>1. spc[t] = "share" /\ spc' = [spc EXCEPT ![t] = "inc2"] /\ reports' = reports
    BY <1>4 DEF SShare, SGoto, clientVars, clientData
  <2>2. contributed' = contributed \cup {t} /\ t \notin contributed
    BY <1>0, <1>1, <2>1 DEF Places, Unshared
  <2> QED
    BY <2>1, <2>2 DEF Query!Contribute, contributed
<1>5. ASSUME NEW t \in Threads, CFunc3(t)
      PROVE  Query!Report
  <2>1. reports = <<>> /\ reports' = <<Total % Word>>
    BY <1>5, CFunc3Data
  <2>2. t = Center /\ cpc[Center] = "func3" /\ spc' = spc
    BY <1>0, <1>5 DEF CFunc3, CGoto, Places, CenterOnly, serverVars
  <2>3. \A u \in Threads : spc[u] \notin Unshared
    BY <2>2, NothingYet, Roles DEF Gathered
  <2>4. contributed = Threads /\ contributed' = contributed
    BY <1>1, <2>2, <2>3
  <2> QED
    BY <2>1, <2>4, AnswerIs DEF Query!Report, contributed
<1>6. ASSUME NEW t \in Threads, Client(t), ~CFunc3(t)
      PROVE  UNCHANGED Query!vars
  <2>1. reports' = reports /\ spc' = spc
    BY <1>6 DEF Client, COprf1, CInc1, CWait1, CReset1, COprf2, CInc2, CWait2, CReset2,
       CSend, CRecv, CCount, CWait3, CSci, serverVars, clientData
  <2> QED
    BY <1>2, <2>1
<1>7. ASSUME NEW t \in Threads, Server(t), ~SShare(t)
      PROVE  UNCHANGED Query!vars
  <2>1. reports' = reports
    BY <1>7, ServerDataStep
  <2>2. \E from, to : SGoto(t, from, to) /\ (from \in Unshared <=> to \in Unshared)
    <3> DEFINE Stays(from, to) == SGoto(t, from, to) /\ (from \in Unshared <=> to \in Unshared)
    <3>1. CASE SOprf1(t) \/ SInc1(t)
      <4>1. Stays("oprf1", "inc1") \/ Stays("inc1", "wait1")
        BY <3>1 DEF SOprf1, SInc1, Unshared
      <4> QED
        BY <4>1
    <3>2. CASE SWait1(t)
      <4>1. Stays("wait1", "func1") \/ Stays("wait1", "share")
        BY <3>2 DEF SWait1, Unshared
      <4> QED
        BY <4>1
    <3>3. CASE SReset1(t)
      <4>1. Stays("func1", "reset1") \/ Stays("reset1", "share")
        BY <3>3 DEF SReset1, Unshared
      <4> QED
        BY <4>1
    <3>4. CASE SInc2(t)
      <4>1. Stays("inc2", "wait2") \/ Stays("inc3", "wait3")
        BY <3>4 DEF SInc2, Unshared
      <4> QED
        BY <4>1
    <3>5. CASE SWait2(t)
      <4>1. Stays("wait2", "reset2") \/ Stays("wait2", "oprf2") \/ Stays("wait2", "wait3")
        BY <3>5 DEF SWait2, Unshared
      <4> QED
        BY <4>1
    <3>6. CASE SReset2(t)
      <4>1. \/ Stays("reset2", "oprf2") \/ Stays("func3", "reset3")
            \/ Stays("reset3", "search")
        BY <3>6 DEF SReset2, Unshared
      <4> QED
        BY <4>1
    <3>7. CASE SWait3(t)
      <4>1. Stays("wait3", "func3") \/ Stays("wait3", "search") \/ Stays("wait3", "sciSend")
        BY <3>7 DEF SWait3, Unshared
      <4> QED
        BY <4>1
    <3>8. CASE SOprf2(t) \/ SSearch(t)
      <4>1. Stays("oprf2", "inc3") \/ Stays("search", "sciSend")
        BY <3>8 DEF SOprf2, SSearch, Unshared
      <4> QED
        BY <4>1
    <3>9. CASE SSciSend(t) \/ SSciRecv(t)
      <4>1. Stays("sciSend", "sciRecv") \/ Stays("sciRecv", "done")
        BY <3>9 DEF SSciSend, SSciRecv, Unshared
      <4> QED
        BY <4>1
    <3> QED
      BY <1>7, <3>1, <3>2, <3>3, <3>4, <3>5, <3>6, <3>7, <3>8, <3>9 DEF Server
  <2>3. \A u \in Threads : spc'[u] \in Unshared <=> spc[u] \in Unshared
    BY <1>0, <2>2 DEF SGoto, Places
  <2> QED
    BY <1>2, <2>1, <2>3
<1>8. ASSUME NEW t \in Threads, Client(t)
      PROVE  [Query!Next]_(Query!vars)
  BY <1>5, <1>6, <1>8 DEF Query!Next
<1>9. ASSUME NEW t \in Threads, Server(t)
      PROVE  [Query!Next]_(Query!vars)
  BY <1>4, <1>7, <1>9 DEF Query!Next
<1> QED
  BY <1>2, <1>3, <1>8, <1>9 DEF Next

\* At the start nobody has contributed and nothing is reported.
LEMMA InitQuery == Init => Query!Init
<1> SUFFICES ASSUME Init PROVE Query!Init
  OBVIOUS
<1>1. Places
  BY InitInvariant DEF Invariant
<1>2. \A t \in Threads : spc[t] \in Unshared
  BY DEF Init, Unshared
<1> QED
  BY <1>1, <1>2, SharesAreIn DEF Query!Init, Init

\* When the second PRF has a row for every thread, SMPAQ2 implements the query:
\* it reports the sum over all the servers, once, after each has split its
\* payloads.
THEOREM Implements == ASSUME SNELES >= N PROVE Spec => ImplementsAggregateQuery
<1>1. SiteInvariant /\ DataInvariant /\ Places' /\ [Next]_vars
        => [Query!Next]_(Query!vars)
  BY QueryStep
<1>2. SiteInvariant => Places
  BY DEF SiteInvariant, Invariant
<1> QED
  BY <1>1, <1>2, InitQuery, SiteInvariance, DataInvariance, PTL
     DEF Spec, ImplementsAggregateQuery, Query!Spec
-----------------------------------------------------------------------------
(* The flags once their sites are behind, and the types.                   *)

\* A flag that its special thread has left behind is 0, except that of the
\* client's last site, which never counts more than the parties.
FlagsRest ==
  /\ AtRest(ClientSite1, cpc, Cf1) /\ AtRest(ServerSite1, spc, Sf1)
  /\ AtRest(ServerSite3, spc, Sf2) /\ Cf2 <= 2
  /\ corr \in [Threads -> BOOLEAN] /\ warned \in BOOLEAN

\* Cf1 is 0 once the center has left: nobody is left to count.
LEMMA Cf1Rests ==
  ASSUME SiteInvariant, AtRest(ClientSite1, cpc, Cf1), NEW t \in Threads, Client(t)
  PROVE  AtRest(ClientSite1, cpc', Cf1')
<1>0. /\ cpc \in [Threads -> Range(COrder)] /\ Center \in Threads
      /\ Meets(ClientSite1, cpc, Cf1)
  BY Roles DEF SiteInvariant, Invariant, Places, SitesMeet
<1>1. /\ Inside(ClientSite1) = {"oprf1", "inc1", "wait1", "func1"}
      /\ ClientSite1.special = Center /\ ClientSite1.before = {"oprf1", "inc1"}
      /\ ClientSite1.arrivers = Threads
  BY ClientSites
<1>2. cpc[Center] \notin {"oprf1", "inc1", "wait1", "func1"} => Cf1 = 0
  BY <1>1 DEF AtRest
<1>3. SUFFICES ASSUME cpc'[Center] \notin {"oprf1", "inc1", "wait1", "func1"}
               PROVE  Cf1' = 0
  BY <1>1 DEF AtRest
<1>4. CASE CInc1(t)
  <2>1. cpc[t] = "inc1" /\ cpc' = [cpc EXCEPT ![t] = "wait1"]
    BY <1>4 DEF CInc1, CGoto
  <2>2. cpc[Center] \notin Inside(ClientSite1)
    BY <1>0, <1>1, <1>3, <2>1
  <2>3. cpc[t] \notin ClientSite1.before
    BY <1>0, <1>1, <2>2, AllMet
  <2> QED
    BY <1>1, <2>1, <2>3
<1>5. CASE CReset1(t)
  BY <1>5 DEF CReset1
<1>6. CASE COprf1(t) \/ CWait1(t)
  <2>1. Cf1' = Cf1 /\ (t = Center => cpc'[t] \in {"inc1", "func1"})
        /\ (t # Center => cpc'[Center] = cpc[Center])
    BY <1>0, <1>6 DEF COprf1, CWait1, CGoto, clientFlags
  <2> QED
    BY <1>2, <1>3, <2>1
<1>7. CASE \/ COprf2(t) \/ CInc2(t) \/ CWait2(t) \/ CReset2(t) \/ CSend(t) \/ CRecv(t)
           \/ CCount(t) \/ CWait3(t) \/ CFunc3(t) \/ CSci(t)
  <2>1. /\ Cf1' = Cf1 /\ cpc[t] \notin {"oprf1", "inc1", "wait1", "func1"}
        /\ (t # Center => cpc'[Center] = cpc[Center])
    BY <1>0, <1>7 DEF COprf2, CInc2, CWait2, CReset2, CSend, CRecv, CCount, CWait3,
       CFunc3,
       CSci, CGoto, clientFlags
  <2> QED
    BY <1>2, <1>3, <2>1
<1> QED
  BY <1>4, <1>5, <1>6, <1>7 DEF Client

\* So is Sf1.
LEMMA Sf1Rests ==
  ASSUME SiteInvariant, AtRest(ServerSite1, spc, Sf1), NEW t \in Threads, Server(t)
  PROVE  AtRest(ServerSite1, spc', Sf1')
<1>0. /\ spc \in [Threads -> Range(SOrder)] /\ Center \in Threads
      /\ Meets(ServerSite1, spc, Sf1)
  BY Roles, OtherSitesMeet DEF SiteInvariant, Invariant, Places
<1>1. /\ Inside(ServerSite1) = {"oprf1", "inc1", "wait1", "func1"}
      /\ ServerSite1.special = Center /\ ServerSite1.before = {"oprf1", "inc1"}
      /\ ServerSite1.arrivers = Threads
  BY ServerSites
<1>2. spc[Center] \notin {"oprf1", "inc1", "wait1", "func1"} => Sf1 = 0
  BY <1>1 DEF AtRest
<1>3. SUFFICES ASSUME spc'[Center] \notin {"oprf1", "inc1", "wait1", "func1"}
               PROVE  Sf1' = 0
  BY <1>1 DEF AtRest
<1>4. CASE SInc1(t)
  <2>1. spc[t] = "inc1" /\ spc' = [spc EXCEPT ![t] = "wait1"]
    BY <1>4 DEF SInc1, SGoto
  <2>2. spc[Center] \notin Inside(ServerSite1)
    BY <1>0, <1>1, <1>3, <2>1
  <2>3. spc[t] \notin ServerSite1.before
    BY <1>0, <1>1, <2>2, AllMet
  <2> QED
    BY <1>1, <2>1, <2>3
<1>5. CASE SReset1(t)
  BY <1>5 DEF SReset1
<1>6. CASE SOprf1(t) \/ SWait1(t)
  <2>1. Sf1' = Sf1 /\ (t = Center => spc'[t] \in {"inc1", "func1"})
        /\ (t # Center => spc'[Center] = spc[Center])
    BY <1>0, <1>6 DEF SOprf1, SWait1, SGoto, serverFlags
  <2> QED
    BY <1>2, <1>3, <2>1
<1>7. CASE \/ SShare(t) \/ SInc2(t) \/ SWait2(t) \/ SReset2(t) \/ SOprf2(t) \/ SWait3(t)
           \/ SSearch(t) \/ SSciSend(t) \/ SSciRecv(t)
  <2>1. /\ Sf1' = Sf1 /\ spc[t] \notin {"oprf1", "inc1", "wait1", "func1"}
        /\ (t # Center => spc'[Center] = spc[Center])
    BY <1>0, <1>7 DEF SShare, SInc2, SWait2, SReset2, SOprf2, SWait3, SSearch, SSciSend,
       SSciRecv, SGoto, serverFlags
  <2> QED
    BY <1>2, <1>3, <2>1
<1> QED
  BY <1>4, <1>5, <1>6, <1>7 DEF Server

\* Sf2 is 0 once the center has left the last site: both sites are behind then.
LEMMA Sf2Rests ==
  ASSUME SiteInvariant, AtRest(ServerSite3, spc, Sf2), NEW t \in Threads, Server(t)
  PROVE  AtRest(ServerSite3, spc', Sf2')
<1> DEFINE inside == Inside(ServerSite3)
<1>0. /\ spc \in [Threads -> Range(SOrder)] /\ Center \in Threads /\ Center \in Parties
      /\ spc[t] \in SPartyOnly => t \in Parties
      /\ spc[t] = "reset2" => t = Leader
      /\ Leader # Center
      /\ Meets(ServerSite2, spc, Sf2) /\ Meets(ServerSite3, spc, Again(spc, Sf2))
  BY Roles DEF SiteInvariant, Invariant, Places, SitesMeet, LeaderResets
<1>1. /\ inside = {"oprf1", "inc1", "wait1", "func1", "reset1", "share", "inc2", "wait2",
                   "reset2", "oprf2", "inc3", "wait3", "func3"}
      /\ ServerSite3.special = Center
  BY LastServerSite
<1>2. spc[Center] \notin inside => Sf2 = 0
  BY <1>1 DEF AtRest
<1>3. SUFFICES ASSUME spc'[Center] \notin inside
               PROVE  Sf2' = 0
  BY <1>1 DEF AtRest
<1> HIDE DEF inside
<1>4. CASE SInc2(t)
  <2>1. /\ spc[t] \in {"inc2", "inc3"} /\ spc'[t] \in {"wait2", "wait3"}
        /\ t # Center => spc'[Center] = spc[Center]
    BY <1>0, <1>4 DEF SInc2, SGoto
  <2>2. spc[Center] \notin inside
    BY <1>1, <1>3, <2>1
  <2>3. spc[Center] \notin Inside(ServerSite2)
    BY <1>1, <2>2, ServerSites
  <2>4. spc[t] \notin ServerSite2.before
    BY <1>0, <2>3, ServerSites, AllMet
  <2>5. spc[t] = "inc3" /\ t \in Parties
    BY <1>0, <2>1, <2>4, ServerSites DEF SPartyOnly
  <2>6. spc[t] \notin ServerSite3.before
    BY <1>0, <2>2, <2>5, LastServerSite, AllMet DEF inside
  <2> QED
    BY <2>5, <2>6, LastServerSite
<1>5. CASE SReset2(t)
  BY <1>5 DEF SReset2
<1>6. CASE \/ SOprf1(t) \/ SInc1(t) \/ SWait1(t) \/ SReset1(t) \/ SShare(t) \/ SWait2(t)
           \/ SOprf2(t) \/ SWait3(t)
  <2>1. /\ Sf2' = Sf2
        /\ t # Center => spc'[Center] = spc[Center]
        /\ t = Center => spc'[t] \in inside
    BY <1>0, <1>1, <1>6 DEF SOprf1, SInc1, SWait1, SReset1, SShare, SWait2, SOprf2,
       SWait3,
       SGoto, serverFlags
  <2> QED
    BY <1>2, <1>3, <2>1
<1>7. CASE SSearch(t) \/ SSciSend(t) \/ SSciRecv(t)
  <2>1. /\ Sf2' = Sf2 /\ spc[t] \notin inside
        /\ t # Center => spc'[Center] = spc[Center]
    BY <1>0, <1>1, <1>7 DEF SSearch, SSciSend, SSciRecv, SGoto, serverFlags
  <2> QED
    BY <1>2, <1>3, <2>1
<1> QED
  BY <1>4, <1>5, <1>6, <1>7 DEF Server

\* Cf2 counts no third thread, lost increments or not.
LEMMA Cf2Bound ==
  ASSUME Invariant, CountReset, Invariant', CountReset', Cf2 <= 2, NEW t \in Threads,
         Client(t)
  PROVE  Cf2' <= 2
<1>0. /\ cpc \in [Threads -> Range(COrder)] /\ cpc' \in [Threads -> Range(COrder)]
      /\ Leader \in Threads /\ Center \in Threads /\ Leader # Center
      /\ cpc[t] \in PartyOnly => t = Leader \/ t = Center
  BY Roles DEF Invariant, Places
<1>1. CASE cpc'[Center] \notin {"func3", "reset3", "sci", "done"}
  <2> DEFINE c == cpc'[Center]
             l == cpc'[Leader]
  <2>1. c \in Before2 \cup {"wait2", "func2", "reset2", "send", "recv", "count", "inc3",
                            "wait3"}
    BY <1>0, <1>1, Labels DEF Before2
  <2>2. /\ c \in Before2 \cup {"wait2", "func2"} =>
             Cf2' = Num(l \notin Before2) + Num(c \notin Before2)
        /\ c = "reset2" => Cf2' = Num(l \notin Before3)
        /\ c \in {"send", "recv", "count", "inc3"} => Cf2' <= Num(l \notin Before3)
        /\ c = "wait3" => Cf2' <= 1 + Num(l \notin Before3)
        /\ Cf2' \in Nat
    BY DEF Invariant, PartyCounts
  <2> HIDE DEF c, l
  <2>3. \A b : Num(b) \in {0, 1}
    BY DEF Num
  <2>4. /\ Num(l \notin Before2) \in {0, 1} /\ Num(c \notin Before2) \in {0, 1}
        /\ Num(l \notin Before3) \in {0, 1}
    BY <2>3
  <2> QED
    BY <2>1, <2>2, <2>4
<1>2. CASE cpc'[Center] \in {"func3", "reset3", "sci", "done"}
  <2>1. CASE CInc2(t)
    <3>1. /\ cpc[t] \in {"inc2", "inc3"} /\ cpc'[t] \in {"wait2", "wait3"}
          /\ t # Center => cpc'[Center] = cpc[Center]
      BY <1>0, <2>1 DEF CInc2, CGoto
    <3>2. t = Leader /\ cpc[Center] \in {"func3", "reset3", "sci", "done"}
      BY <1>0, <1>2, <3>1 DEF PartyOnly
    <3>3. cpc[Leader] \notin Before3
      BY <3>2 DEF Invariant, PartyCounts, CountReset, PastReport
    <3> QED
      BY <3>1, <3>2, <3>3 DEF Before3, Before2
  <2>2. CASE CReset2(t) \/ CFunc3(t)
    BY <2>2 DEF CReset2, CFunc3
  <2>3. CASE ~CInc2(t) /\ ~CReset2(t) /\ ~CFunc3(t)
    <3>1. Cf2' = Cf2
      BY <2>3 DEF Client, COprf1, CInc1, CWait1, CReset1, COprf2, CWait2, CSend, CRecv,
         CCount, CWait3, CSci, clientFlags
    <3> QED
      BY <3>1
  <2> QED
    BY <2>1, <2>2, <2>3
<1> QED
  BY <1>1, <1>2

\* At the start every flag is 0.
LEMMA InitFlags == Init => FlagsRest
<1> SUFFICES ASSUME Init PROVE FlagsRest
  OBVIOUS
<1>1. Cf1 = 0 /\ Cf2 = 0 /\ Sf1 = 0 /\ Sf2 = 0 /\ warned = FALSE
      /\ corr = [t \in Threads |-> FALSE]
  BY DEF Init
<1>2. corr \in [Threads -> BOOLEAN] /\ warned \in BOOLEAN
  BY <1>1
<1> QED
  BY <1>1, <1>2 DEF FlagsRest, AtRest

\* The sites are the same sites in the next state.
LEMMA AtRestNext ==
  /\ AtRest(ClientSite1, cpc', Cf1') => AtRest(ClientSite1, cpc, Cf1)'
  /\ AtRest(ServerSite1, spc', Sf1') => AtRest(ServerSite1, spc, Sf1)'
  /\ AtRest(ServerSite3, spc', Sf2') => AtRest(ServerSite3, spc, Sf2)'
BY DEF AtRest, Inside, ClientSite1, ServerSite1, ServerSite3

\* A client step leaves the flags so.
LEMMA ClientFlags ==
  ASSUME SiteInvariant, DataInvariant, Invariant', CountReset', FlagsRest,
         NEW t \in Threads, Client(t)
  PROVE  FlagsRest'
<1>1. UNCHANGED <<spc, Sf1, Sf2>>
  BY DEF Client, COprf1, CInc1, CWait1, CReset1, COprf2, CInc2, CWait2, CReset2, CSend,
     CRecv, CCount, CWait3, CFunc3, CSci, serverVars, serverFlags
<1>2. corr' \in [Threads -> BOOLEAN] /\ warned' \in BOOLEAN
  BY DEF FlagsRest, Client, COprf1, CInc1, CWait1, CReset1, COprf2, CInc2, CWait2,
     CReset2, CSend, CRecv, CCount, CWait3, CFunc3, CSci, netVars, clientData
<1>3. AtRest(ClientSite1, cpc', Cf1')
  BY Cf1Rests DEF FlagsRest
<1>4. AtRest(ServerSite1, spc', Sf1') /\ AtRest(ServerSite3, spc', Sf2')
  BY <1>1 DEF FlagsRest
<1>5. Cf2' <= 2
  BY Cf2Bound DEF FlagsRest, SiteInvariant, DataInvariant
<1> QED
  BY <1>2, <1>3, <1>4, <1>5, AtRestNext DEF FlagsRest

\* And a server step.
LEMMA ServerFlags ==
  ASSUME SiteInvariant, FlagsRest, NEW t \in Threads, Server(t)
  PROVE  FlagsRest'
<1>1. UNCHANGED <<cpc, Cf1, Cf2>>
  BY DEF Server, SOprf1, SInc1, SWait1, SReset1, SShare, SInc2, SWait2, SReset2, SOprf2,
     SWait3, SSearch, SSciSend, SSciRecv, clientVars, clientFlags
<1>2. corr' \in [Threads -> BOOLEAN] /\ warned' \in BOOLEAN
  BY DEF FlagsRest, Server, SOprf1, SInc1, SWait1, SReset1, SShare, SInc2, SWait2, SReset2,
     SOprf2, SWait3, SSearch, SSciSend, SSciRecv, netVars, clientVars, clientData
<1>3. AtRest(ServerSite1, spc', Sf1') /\ AtRest(ServerSite3, spc', Sf2')
  BY Sf1Rests, Sf2Rests DEF FlagsRest
<1>4. AtRest(ClientSite1, cpc', Cf1') /\ Cf2' <= 2
  BY <1>1 DEF FlagsRest
<1> QED
  BY <1>2, <1>3, <1>4, AtRestNext DEF FlagsRest

\* Every step does.
LEMMA NextFlags ==
  SiteInvariant /\ DataInvariant /\ Invariant' /\ CountReset' /\ FlagsRest /\ [Next]_vars
    => FlagsRest'
<1> SUFFICES ASSUME SiteInvariant, DataInvariant, Invariant', CountReset', FlagsRest,
                    [Next]_vars
             PROVE  FlagsRest'
  OBVIOUS
<1>1. CASE UNCHANGED vars
  <2>1. UNCHANGED <<cpc, Cf1, Cf2>> /\ UNCHANGED <<spc, Sf1, Sf2, corr, warned>>
    BY <1>1 DEF vars, clientVars, clientFlags, clientData, serverVars, serverFlags,
       netVars
  <2>2. /\ AtRest(ClientSite1, cpc', Cf1') /\ AtRest(ServerSite1, spc', Sf1')
        /\ AtRest(ServerSite3, spc', Sf2')
    BY <2>1 DEF FlagsRest
  <2> QED
    BY <2>1, <2>2, AtRestNext DEF FlagsRest
<1>2. ASSUME NEW t \in Threads, Client(t)
      PROVE  FlagsRest'
  BY <1>2, ClientFlags
<1>3. ASSUME NEW t \in Threads, Server(t)
      PROVE  FlagsRest'
  BY <1>3, ServerFlags
<1> QED
  BY <1>1, <1>2, <1>3 DEF Next

\* What the tables hold are items under no key, one key or two.
LEMMA RowTypes ==
  ASSUME NEW t \in Threads, NEW p \in Parties
  PROVE  /\ asked[t] \in Entries /\ Oprf(p, t + 1, asked[t]) \in Entries
         /\ held[t] \in Seq(Entries) /\ LookedUp(p, held, t) \in Seq(Entries)
<1>1. /\ t + 1 \in 1..N /\ 1 \in 1..N /\ p \in Threads
      /\ <<t, 1>> \in Keys /\ <<p, t + 1>> \in Keys
  BY ProtocolAssumption, Roles DEF Threads, Keys
<1>2. QueryItem \in Item /\ \A k \in 1..SNELES : k \in Item
  BY ProtocolAssumption DEF Item
<1>3. ASSUME NEW x \in Item
      PROVE  /\ Oprf(t, 1, <<x>>) \in Entries
             /\ Oprf(p, t + 1, Oprf(t, 1, <<x>>)) \in Entries
  <2> DEFINE a == <<t, 1>>
             b == <<p, t + 1>>
  <2>1. a \in Keys /\ b \in Keys
    BY <1>1
  <2>2. /\ Oprf(t, 1, <<x>>) = Append(<<x>>, a)
        /\ Oprf(p, t + 1, Oprf(t, 1, <<x>>)) = Append(Append(<<x>>, a), b)
    BY DEF Oprf
  <2> HIDE DEF a, b
  <2>3. Append(<<x>>, a) = <<x, a>> /\ Append(<<x, a>>, b) = <<x, a, b>>
    <3> DEFINE S == {x, a, b}
    <3>1. <<x, a>> \in Seq(S) /\ <<x, a, b>> \in Seq(S) /\ b \in S
      OBVIOUS
    <3>2. /\ Len(<<x, a>>) = 2 /\ Len(<<x, a, b>>) = 3
          /\ <<x, a>>[1] = x /\ <<x, a>>[2] = a
          /\ <<x, a, b>>[1] = x /\ <<x, a, b>>[2] = a /\ <<x, a, b>>[3] = b
      OBVIOUS
    <3>3. Append(<<x, a>>, b) = <<x, a, b>>
      BY <3>1, <3>2, ThirdEntry
    <3>4. Append(<<x>>, a) = <<x, a>>
      <4>1. <<x>> \in Seq(S) /\ <<x, a>> \in Seq(S) /\ a \in S
        OBVIOUS
      <4>2. /\ Len(<<x>>) = 1 /\ Len(<<x, a>>) = 2
            /\ <<x>>[1] = x /\ <<x, a>>[1] = x /\ <<x, a>>[2] = a
        OBVIOUS
      <4> HIDE DEF S
      <4> QED
        BY <4>1, <4>2, SecondEntry
    <3> QED
      BY <3>3, <3>4
  <2>4. <<x, a>> \in Item \X Keys /\ <<x, a, b>> \in Item \X Keys \X Keys
    BY <2>1
  <2> QED
    BY <2>2, <2>3, <2>4 DEF Entries
<1>4. asked[t] \in Entries /\ Oprf(p, t + 1, asked[t]) \in Entries
  BY <1>2, <1>3 DEF asked
<1>5. \A k \in 1..SNELES : held[t][k] \in Entries /\ LookedUp(p, held, t)[k] \in Entries
  BY <1>2, <1>3 DEF held, LookedUp
<1>6. /\ held[t] = [k \in 1..SNELES |-> held[t][k]]
      /\ LookedUp(p, held, t) = [k \in 1..SNELES |-> LookedUp(p, held, t)[k]]
  BY DEF held, LookedUp
<1>7. ASSUME NEW row, row = [k \in 1..SNELES |-> row[k]], \A k \in 1..SNELES : row[k] \in Entries
      PROVE  row \in Seq(Entries)
  <2>1. row \in [1..SNELES -> Entries] /\ SNELES \in Nat
    BY <1>7, ProtocolAssumption
  <2> HIDE DEF Entries
  <2> QED
    BY <2>1
<1> QED
  BY <1>4, <1>5, <1>6, <1>7

\* The shares of a payload are as many words as a server has elements.
LEMMA ShareTypes ==
  ASSUME Shares, NEW t \in Threads, spc[t] \notin Unshared, NEW p \in Parties
  PROVE  serverData_party[p][t] \in [1..SNELES -> 0..Word-1]
<1> DEFINE s1 == serverData_party[Center][t]
           s2 == serverData_party[Leader][t]
<1>1. /\ s1 \in [1..SNELES -> 0..Word-1]
      /\ s2 = [k \in 1..SNELES |-> (Payload[t][k] - s1[k]) % Word]
  BY DEF Shares, SharesOf
<1> HIDE DEF s1, s2
<1>2. ASSUME NEW k \in 1..SNELES
      PROVE  (Payload[t][k] - s1[k]) % Word \in 0..Word-1
  <2>1. Payload[t][k] \in 0..Word-1 /\ s1[k] \in 0..Word-1 /\ Word \in Nat \ {0}
    BY <1>1, Smpaq2Assumption
  <2> DEFINE d == Payload[t][k] - s1[k]
  <2>2. d \in Int
    BY <2>1
  <2> HIDE DEF d
  <2>3. d % Word \in 0..Word-1
    BY <2>1, <2>2, Modulo
  <2> QED
    BY <2>3 DEF d
<1>3. s2 \in [1..SNELES -> 0..Word-1]
  BY <1>1, <1>2
<1>4. p = Leader \/ p = Center
  BY Roles
<1> QED
  BY <1>1, <1>3, <1>4 DEF s1, s2

\* A sum of words, reduced, is a word.
LEMMA SumType ==
  ASSUME NEW h, \A t \in Found : h[t] \in Int
  PROVE  SumFunctionOnSet(h, Found) % Word \in 0..Word-1
<1>1. SumFunctionOnSet(h, Found) \in Int
  BY FiniteThreads, SumInt
<1> QED
  BY <1>1, Modulo, Smpaq2Assumption

\* The flags stay in their ranges.
LEMMA FlagTypes ==
  ASSUME SiteInvariant, FlagsRest
  PROVE  Cf1 \in 0..N /\ Cf2 \in 0..2 /\ Sf1 \in 0..N /\ Sf2 \in 0..N
<1>1. N \in Nat /\ N >= 2 /\ Cardinality(Threads) = N /\ Cardinality(Parties) = 2
  BY ProtocolAssumption, AreSites
<1>2. Cf1 \in 0..N
  BY <1>1, AreSites, ClientSites, FlagBound DEF SiteInvariant, SitesMeet, FlagsRest
<1>3. Cf2 \in 0..2
  <2>1. Cf2 \in Nat /\ Cf2 <= 2
    BY DEF SiteInvariant, Invariant, PartyCounts, FlagsRest
  <2> QED
    BY <2>1
<1>4. Sf1 \in 0..N
  BY <1>1, AreSites, ServerSites, OtherSitesMeet, FlagBound DEF SiteInvariant, FlagsRest
<1>5. Sf2 \in 0..N
  <2>1. CASE spc[Leader] \in Inside(ServerSite2)
    <3>1. AtRest(ServerSite2, spc, Sf2) /\ Meets(ServerSite2, spc, Sf2)
      BY <2>1, ServerSites DEF AtRest, SiteInvariant, SitesMeet
    <3> QED
      BY <1>1, <3>1, AreSites, ServerSites, FlagBound
  <2>2. CASE spc[Leader] \notin Inside(ServerSite2)
    <3>1. AtRest(ServerSite3, spc, Sf2) /\ Meets(ServerSite3, spc, Sf2)
      BY <2>2 DEF Again, SiteInvariant, SitesMeet, FlagsRest
    <3>2. Sf2 \in 0..2
      BY <1>1, <3>1, AreSites, LastServerSite, FlagBound
    <3> QED
      BY <1>1, <3>2
  <2> QED
    BY <2>1, <2>2
<1> QED
  BY <1>2, <1>3, <1>4, <1>5

\* The tables hold rows of entries, and the shares are rows of words.
LEMMA TableTypes ==
  ASSUME DataInvariant
  PROVE  /\ clientID \in Tables /\ clientID_party \in [Parties -> Tables]
         /\ serverID \in Tables /\ serverID_party \in [Parties -> Tables]
         /\ serverData_party \in [Parties -> [Threads -> Seq(0..Word-1)]]
<1>1. ASSUME NEW p \in Parties, NEW t \in Threads
      PROVE  /\ CRow(cpc, t) \in Seq(Entries) /\ CEncoded(cpc, p, t) \in Seq(Entries)
             /\ SRow(spc, t) \in Seq(Entries) /\ SEncoded(spc, p, t) \in Seq(Entries)
  <2> DEFINE e == asked[t]
             f == Oprf(p, t + 1, asked[t])
  <2>1. e \in Entries /\ f \in Entries
    BY RowTypes
  <2> HIDE DEF e, f
  <2>2. <<e>> \in Seq(Entries) /\ <<f>> \in Seq(Entries) /\ <<>> \in Seq(Entries)
    BY <2>1
  <2>3. held[t] \in Seq(Entries) /\ LookedUp(p, held, t) \in Seq(Entries)
    BY RowTypes
  <2> QED
    BY <2>2, <2>3 DEF CRow, CEncoded, SRow, SEncoded, e, f
<1>2. clientID \in Tables /\ serverID \in Tables
  BY <1>1, Roles DEF DataInvariant, ClientRows, ServerRows, Tables
<1>3. clientID_party \in [Parties -> Tables] /\ serverID_party \in [Parties -> Tables]
  BY <1>1 DEF DataInvariant, ClientRows, ServerRows, Tables
<1>4. ASSUME NEW p \in Parties, NEW t \in Threads
      PROVE  serverData_party[p][t] \in Seq(0..Word-1)
  <2> DEFINE row == serverData_party[p][t]
             W == 0..Word-1
  <2>1. row = <<>> \/ row \in [1..SNELES -> W]
    BY ShareTypes DEF DataInvariant, Shares
  <2> HIDE DEF row, W
  <2>2. SNELES \in Nat
    BY ProtocolAssumption
  <2>3. row \in [1..SNELES -> W] => row \in Seq(W)
    BY <2>2
  <2>4. <<>> \in Seq(W)
    OBVIOUS
  <2> QED
    BY <2>1, <2>3, <2>4, Zenon DEF row, W
<1>5. serverData_party \in [Parties -> [Threads -> Seq(0..Word-1)]]
  BY <1>4 DEF DataInvariant, Shares
<1> QED
  BY <1>2, <1>3, <1>5

\* The sums are words, at most two of them are in, and so is what is reported.
LEMMA SumTypes ==
  ASSUME SiteInvariant, DataInvariant
  PROVE  /\ g_sum \in [Parties -> 0..Word-1] /\ g_received_count \in 0..2
         /\ reports \in Seq(0..Word-1)
<1>0. Word \in Nat \ {0} /\ 0 \in 0..Word-1
  BY Smpaq2Assumption
<1>1. ASSUME NEW p \in Parties, cpc[p] \in Gathered
      PROVE  PartySum(serverData_party, p) \in 0..Word-1
  <2> DEFINE h == [t \in Threads |-> serverData_party[p][t][QueryItem]]
  <2>1. ASSUME NEW t \in Found
        PROVE  h[t] \in Int
    <3>1. t \in Threads /\ QueryItem \in 1..SNELES
      BY ProtocolAssumption DEF Found
    <3>2. spc[t] \notin Unshared
      BY <1>1, <3>1, NothingYet
    <3>3. serverData_party[p][t] \in [1..SNELES -> 0..Word-1]
      BY <3>1, <3>2, ShareTypes DEF DataInvariant
    <3>4. serverData_party[p][t][QueryItem] \in 0..Word-1
      BY <3>1, <3>3
    <3> QED
      BY <1>0, <3>1, <3>4
  <2> HIDE DEF h
  <2>2. SumFunctionOnSet(h, Found) % Word \in 0..Word-1
    BY <2>1, SumType
  <2> QED
    BY <2>2 DEF h, PartySum
<1>2. g_sum \in [Parties -> 0..Word-1]
  BY <1>0, <1>1 DEF DataInvariant, Sums
<1>3. g_received_count \in 0..2
  <2>1. CASE cpc[Center] \in PastReport
    BY <2>1 DEF DataInvariant, CountReset
  <2>2. CASE cpc[Center] \notin PastReport
    <3>1. g_received_count = Num(cpc[Leader] \in Counted) + Num(cpc[Center] \in Counted)
      BY <2>2 DEF SiteInvariant, Invariant, PartyCounts, PastReport
    <3> QED
      BY <3>1 DEF Num
  <2> QED
    BY <2>1, <2>2
<1>4. reports \in Seq(0..Word-1)
  <2> DEFINE v == Total % Word
             W == 0..Word-1
  <2>1. v \in W
    <3> DEFINE h == [t \in Threads |-> Payload[t][QueryItem]]
    <3>1. \A t \in Found : h[t] \in Int
      BY ProtocolAssumption, Smpaq2Assumption DEF Found
    <3> HIDE DEF h
    <3>2. SumFunctionOnSet(h, Found) % Word \in 0..Word-1
      BY <3>1, SumType
    <3> QED
      BY <3>2 DEF h, Total
  <2>2. reports = <<>> \/ reports = <<v>>
    BY DEF DataInvariant, Reported
  <2> HIDE DEF v, W
  <2>3. reports \in Seq(W)
    BY <2>1, <2>2, NoneOrOne
  <2> QED
    BY <2>3 DEF W
<1> QED
  BY <1>2, <1>3, <1>4

\* Types follow from the places, the data and the flags.
LEMMA Typed ==
  ASSUME SiteInvariant, DataInvariant, FlagsRest
  PROVE  TypeOK
<1>1. cpc \in [Threads -> Range(COrder)] /\ spc \in [Threads -> Range(SOrder)]
  BY DEF SiteInvariant, Invariant, Places
<1> QED
  BY <1>1, FlagTypes, TableTypes, SumTypes DEF TypeOK, FlagsRest

\* Every variable of a run stays in its range, whatever the sizes and the masks:
\* no flag counts past the threads that wait on it, no sum past a word.
THEOREM TypeCorrect == Spec => []TypeOK
<1>1. SiteInvariant /\ DataInvariant /\ FlagsRest => TypeOK
  BY Typed
<1>2. SiteInvariant => Invariant
  BY DEF SiteInvariant
<1>3. DataInvariant => CountReset
  BY DEF DataInvariant
<1>4. Spec => []FlagsRest
  BY <1>2, <1>3, InitFlags, NextFlags, SiteInvariance, DataInvariance, PTL DEF Spec
<1> QED
  BY <1>1, <1>4, SiteInvariance, DataInvariance, PTL
-----------------------------------------------------------------------------
(* A process goes away: the invariant.                                     *)


\* A party that is past its second PRF has a server that is past the site of
\* the shares.
AskedLate == \A p \in Parties :
               cpc[p] \notin Unasked => spc[p] \notin Inside(ServerSite2)

\* The client reports when both parties are.
ReportedLate == reports # <<>> => \A p \in Parties : cpc[p] \notin Unasked

CrashInvariant ==
  /\ Places /\ LeaderResets /\ ClientRows
  /\ Meets(ClientSite1, cpc, Cf1) /\ Meets(ServerSite2, spc, Sf2)
  /\ AskedLate /\ PartyCounts /\ ReportedLate
-----------------------------------------------------------------------------
(* The client's steps.                                                     *)

\* Where a step takes a client thread: on, past the second PRF only by it, and
\* into the exchange with its server only by sending.
ClientEdge(t, to) ==
  /\ cpc' = [cpc EXCEPT ![t] = to] /\ to \in Range(COrder) /\ to # "oprf1"
  /\ to \in PartyOnly => t \in Parties
  /\ to \in CenterOnly => t = Center
  /\ cpc[t] \notin Unasked => to \notin Unasked
  /\ t \in Parties /\ cpc[t] \in Unasked /\ to \notin Unasked => COprf2(t)
  /\ cpc[t] \in Counted => to \in Counted
  /\ t = Center /\ cpc[t] \in PastReport => to \in PastReport
  /\ t \in Parties /\ ~CSend(t) /\ cpc[t] # "recv" =>
       to # "recv" /\ (cpc[t] \in AskLabels <=> to \in AskLabels)

\* Every step of a client takes its thread somewhere in that way.
LEMMA ClientEdges ==
  ASSUME Places, NEW t \in Threads, Client(t)
  PROVE  \E to : ClientEdge(t, to)
<1> USE Labels DEF ClientEdge, PartyOnly, CenterOnly, Unasked, Counted, PastReport, AskLabels
<1>0. /\ Leader # Center /\ (t \in Parties <=> t = Leader \/ t = Center)
      /\ cpc[t] \in PartyOnly => t \in Parties
      /\ cpc[t] \in CenterOnly => t = Center
  BY Roles DEF Places, Parties
<1>1. CASE COprf1(t)
  <2>1. ClientEdge(t, "inc1")
    BY <1>0, <1>1 DEF COprf1, CGoto
  <2> QED
    BY <2>1
<1>2. CASE CInc1(t)
  <2>1. ClientEdge(t, "wait1")
    BY <1>0, <1>2 DEF CInc1, CGoto
  <2> QED
    BY <2>1
<1>3. CASE CWait1(t)
  <2>1. ClientEdge(t, "func1") \/ ClientEdge(t, "oprf2") \/ ClientEdge(t, "wait2")
    BY <1>0, <1>3 DEF CWait1, CGoto, AfterSite1
  <2> QED
    BY <2>1
<1>4. CASE CReset1(t)
  <2>1. ClientEdge(t, "reset1") \/ ClientEdge(t, "oprf2")
    BY <1>0, <1>4 DEF CReset1, CGoto, AfterSite1
  <2> QED
    BY <2>1
<1>5. CASE COprf2(t)
  <2>1. ClientEdge(t, "inc2")
    BY <1>0, <1>5 DEF COprf2, CGoto
  <2> QED
    BY <2>1
<1>6. CASE CInc2(t)
  <2>1. ClientEdge(t, "wait2") \/ ClientEdge(t, "wait3")
    BY <1>0, <1>6 DEF CInc2, CGoto
  <2> QED
    BY <2>1
<1>7. CASE CWait2(t)
  <2>1. ClientEdge(t, "func2") \/ ClientEdge(t, "send") \/ ClientEdge(t, "wait3")
    BY <1>0, <1>7 DEF CWait2, CGoto
  <2> QED
    BY <2>1
<1>8. CASE CReset2(t)
  <2>1. ClientEdge(t, "reset2") \/ ClientEdge(t, "send") \/ ClientEdge(t, "sci")
    BY <1>0, <1>8 DEF CReset2, CGoto
  <2> QED
    BY <2>1
<1>9. CASE CSend(t)
  <2>1. ClientEdge(t, "recv")
    BY <1>0, <1>9 DEF CSend, CGoto
  <2> QED
    BY <2>1
<1>10. CASE CRecv(t)
  <2>1. ClientEdge(t, "count")
    BY <1>0, <1>10 DEF CRecv, CGoto
  <2> QED
    BY <2>1
<1>11. CASE CCount(t)
  <2>1. ClientEdge(t, "inc3")
    BY <1>0, <1>11 DEF CCount, CGoto
  <2> QED
    BY <2>1
<1>12. CASE CWait3(t)
  <2>1. ClientEdge(t, "func3") \/ ClientEdge(t, "sci")
    BY <1>0, <1>12 DEF CWait3, CGoto
  <2> QED
    BY <2>1
<1>13. CASE CFunc3(t)
  <2>1. ClientEdge(t, "reset3")
    BY <1>0, <1>13 DEF CFunc3, CGoto
  <2> QED
    BY <2>1
<1>14. CASE CSci(t)
  <2>1. ClientEdge(t, "done")
    BY <1>0, <1>14 DEF CSci, CGoto
  <2> QED
    BY <2>1
<1> QED
  BY <1>1, <1>2, <1>3, <1>4, <1>5, <1>6, <1>7, <1>8, <1>9, <1>10, <1>11, <1>12, <1>13,
     <1>14 DEF Client

\* A receive that returns nothing takes its thread on like one that succeeds.
LEMMA NothingEdges ==
  ASSUME Places, NEW t \in Threads, CRecvNothing(t) \/ CSciNothing(t)
  PROVE  \E to : ClientEdge(t, to)
<1>0. cpc[t] \in PartyOnly => t \in Parties
  BY DEF Places
<1>1. ClientEdge(t, "count") \/ ClientEdge(t, "done")
  BY <1>0, Labels DEF ClientEdge, PartyOnly, CenterOnly, Unasked, Counted, PastReport,
     AskLabels, CRecvNothing, CSciNothing, CGoto
<1> QED
  BY <1>1

\* A step that leaves the tables alone keeps the rows.
LEMMA RowsKept ==
  ASSUME Places, ClientRows, UNCHANGED <<clientID, clientID_party>>, NEW t \in Threads,
         NEW to, ClientEdge(t, to), cpc[t] # "oprf1", ~COprf2(t)
  PROVE  ClientRows'
<1>1. /\ cpc \in [Threads -> Range(COrder)] /\ cpc' = [cpc EXCEPT ![t] = to]
      /\ to # "oprf1"
      /\ t \in Parties => (cpc[t] \in Unasked <=> to \in Unasked)
  BY DEF Places, ClientEdge
<1>2. ASSUME NEW u \in Threads
      PROVE  CRow(cpc', u) = CRow(cpc, u)
  <2>1. cpc'[u] = "oprf1" <=> cpc[u] = "oprf1"
    BY <1>1
  <2> QED
    BY <2>1 DEF CRow
<1>3. ASSUME NEW p \in Parties, NEW u \in Threads
      PROVE  CEncoded(cpc', p, u) = CEncoded(cpc, p, u)
  <2>1. p \in Threads /\ (cpc'[p] \in Unasked <=> cpc[p] \in Unasked)
    BY <1>1, Roles
  <2> QED
    BY <2>1 DEF CEncoded
<1> QED
  BY <1>2, <1>3 DEF ClientRows

\* The client's rows, whatever else is lost.
LEMMA RowsStay ==
  ASSUME Places, Meets(ClientSite1, cpc, Cf1), ClientRows, NEW t \in Threads, Client(t)
  PROVE  ClientRows'
<1>1. CASE COprf1(t)
  BY <1>1, COprf1Rows
<1>2. CASE COprf2(t)
  BY <1>2, COprf2Rows
<1>3. CASE ~COprf1(t) /\ ~COprf2(t)
  <2>1. UNCHANGED <<clientID, clientID_party>> /\ cpc[t] # "oprf1"
    BY <1>3 DEF Client, CInc1, CWait1, CReset1, CInc2, CWait2, CReset2, CSend, CRecv,
       CCount, CWait3, CFunc3, CSci, CGoto, clientData
  <2>2. PICK to : ClientEdge(t, to)
    BY ClientEdges
  <2> QED
    BY <1>3, <2>1, <2>2, RowsKept
<1> QED
  BY <1>1, <1>2, <1>3

\* A client thread that is taken on keeps the client's side of the invariant,
\* as long as it reports and looks up nothing.
LEMMA ClientGoesOn ==
  ASSUME Places, AskedLate, ReportedLate, NEW t \in Threads, NEW to,
         ClientEdge(t, to), UNCHANGED spc
  PROVE  /\ Places'
         /\ ~COprf2(t) => AskedLate'
         /\ reports' = reports => ReportedLate'
<1>1. /\ cpc \in [Threads -> Range(COrder)] /\ cpc' = [cpc EXCEPT ![t] = to]
      /\ Leader \in Threads /\ Center \in Threads /\ Parties \subseteq Threads
  BY Roles DEF Places, ClientEdge
<1>2. Places'
  BY <1>1, ClientPlaces DEF ClientEdge
<1>3. ASSUME ~COprf2(t)
      PROVE  AskedLate'
  <2>1. ASSUME NEW p \in Parties, cpc'[p] \notin Unasked
        PROVE  cpc[p] \notin Unasked
    BY <1>1, <1>3, <2>1 DEF ClientEdge
  <2>2. Inside(ServerSite2)' = Inside(ServerSite2)
    BY DEF Inside, ServerSite2
  <2> QED
    BY <2>1, <2>2 DEF AskedLate
<1>5. ASSUME reports' = reports
      PROVE  ReportedLate'
  <2>1. ASSUME NEW p \in Parties, cpc[p] \notin Unasked
        PROVE  cpc'[p] \notin Unasked
    BY <1>1, <2>1 DEF ClientEdge
  <2> QED
    BY <1>5, <2>1 DEF ReportedLate
<1> QED
  BY <1>2, <1>3, <1>5

\* A client thread at its first site.
LEMMA ClientMeets ==
  ASSUME Places, Meets(ClientSite1, cpc, Cf1), NEW t \in Threads, Client(t)
  PROVE  Meets(ClientSite1, cpc, Cf1)'
<1>1. PICK from, to : ClientLegal(t, from, to)
  BY ClientIsLegal
<1>2. Goes(ClientSite1, cpc, cpc', t, from, to)
  BY <1>1, ClientGoes DEF ClientLegal
<1>3. IsSite(ClientSite1) /\ {"reset1"} \cap Inside(ClientSite1) = {}
  BY AreSites, ClientSites
<1>4. KeptEarly(ClientSite1, {"reset1"}, cpc, cpc', Cf1')
  BY <1>1, <1>2, <1>3, LegalKeeps DEF ClientLegal
<1> QED
  BY <1>4 DEF KeptEarly, Meets, Arrived, Inside, ClientSite1

\* The server's side, as a client step leaves it.
LEMMA ServerSideStays ==
  ASSUME LeaderResets, Meets(ServerSite2, spc, Sf2), UNCHANGED <<spc, Sf2>>
  PROVE  LeaderResets' /\ Meets(ServerSite2, spc, Sf2)'
BY DEF LeaderResets, Meets, Arrived, Inside, ServerSite2

\* The client's side, as a server step leaves it.
LEMMA ClientSideStays ==
  ASSUME ClientRows, Meets(ClientSite1, cpc, Cf1), PartyCounts, ReportedLate,
         UNCHANGED clientVars
  PROVE  ClientRows' /\ Meets(ClientSite1, cpc, Cf1)' /\ PartyCounts' /\ ReportedLate'
<1>1. UNCHANGED <<cpc, Cf1, Cf2, clientID, clientID_party, g_received_count, reports,
                  warned>>
  BY DEF clientVars, clientFlags, clientData
<1>2. ClientRows'
  BY <1>1 DEF ClientRows, CRow, CEncoded
<1>3. Meets(ClientSite1, cpc, Cf1)'
  BY <1>1 DEF Meets, Arrived, Inside, ClientSite1
<1>4. PartyCounts' /\ ReportedLate'
  BY <1>1, PartySame DEF ReportedLate
<1> QED
  BY <1>2, <1>3, <1>4

\* A step of a living client keeps the invariant, with a living server or not.
LEMMA CrashClientStep ==
  ASSUME CrashInvariant, NEW t \in Threads, Client(t)
  PROVE  CrashInvariant'
<1>0. /\ Places /\ LeaderResets /\ ClientRows
      /\ Meets(ClientSite1, cpc, Cf1) /\ Meets(ServerSite2, spc, Sf2)
      /\ AskedLate /\ PartyCounts /\ ReportedLate
  BY DEF CrashInvariant
<1>1. UNCHANGED <<spc, Sf2>>
  BY DEF Client, COprf1, CInc1, CWait1, CReset1, COprf2, CInc2, CWait2, CReset2, CSend,
     CRecv, CCount, CWait3, CFunc3, CSci, serverVars, serverFlags
<1>2. PICK to : ClientEdge(t, to)
  BY <1>0, ClientEdges
<1>3. /\ cpc \in [Threads -> Range(COrder)] /\ cpc' = [cpc EXCEPT ![t] = to]
      /\ Leader \in Threads /\ Center \in Threads /\ Leader # Center
  BY <1>0, <1>2, Roles DEF Places, ClientEdge
<1>4. Places' /\ ClientRows' /\ Meets(ClientSite1, cpc, Cf1)'
  BY <1>0, <1>1, <1>2, ClientGoesOn, RowsStay, ClientMeets
<1>5. LeaderResets' /\ Meets(ServerSite2, spc, Sf2)'
  BY <1>0, <1>1, ServerSideStays
<1>6. AskedLate'
  <2>1. CASE COprf2(t)
    <3>1. spc[t] = "oprf2" /\ cpc'[t] = "inc2" /\ t \in Parties
      BY <1>0, <2>1 DEF COprf2, CGoto, Places, PartyOnly
    <3>2. /\ spc'[t] \notin Inside(ServerSite2)
          /\ Inside(ServerSite2)' = Inside(ServerSite2)
      BY <1>1, <3>1, ServerSites DEF Inside, ServerSite2
    <3>3. \A p \in Parties \ {t} : cpc'[p] = cpc[p]
      BY <1>3, Roles
    <3> QED
      BY <1>0, <1>1, <3>2, <3>3 DEF AskedLate
  <2>2. CASE ~COprf2(t)
    BY <1>0, <1>1, <1>2, <2>2, ClientGoesOn
  <2> QED
    BY <2>1, <2>2
<1>7. PartyCounts'
  BY <1>0, OthersDoNotCount, LeaderSteps, CenterSteps, Roles
<1>8. ReportedLate'
  <2>1. CASE CFunc3(t) /\ g_received_count = 2
    <3>1. cpc[Leader] \in Counted /\ cpc[Center] \in Counted
      <4>1. t = Center /\ cpc[Center] = "func3"
        BY <1>0, <2>1, Roles DEF CFunc3, CGoto, Places, CenterOnly
      <4> QED
        BY <1>0, <2>1, <4>1 DEF PartyCounts, Num
    <3>2. cpc'[Leader] \in Counted /\ cpc'[Center] \in Counted
      BY <1>2, <1>3, <3>1 DEF ClientEdge
    <3> QED
      BY <3>2, Roles DEF ReportedLate, Counted, Unasked
  <2>2. CASE ~(CFunc3(t) /\ g_received_count = 2)
    <3>1. reports' = reports
      BY <2>2 DEF Client, COprf1, CInc1, CWait1, CReset1, COprf2, CInc2, CWait2, CReset2,
         CSend, CRecv, CCount, CWait3, CFunc3, CSci, clientData
    <3> QED
      BY <1>0, <1>1, <1>2, <3>1, ClientGoesOn
  <2> QED
    BY <2>1, <2>2
<1> QED
  BY <1>4, <1>5, <1>6, <1>7, <1>8 DEF CrashInvariant

\* A receive from a dead server counts like one that succeeds.
LEMMA NothingCounts ==
  ASSUME Places, PartyCounts, NEW t \in Threads, CRecvNothing(t) \/ CSciNothing(t)
  PROVE  PartyCounts'
<1>1. /\ UNCHANGED <<Cf2, g_received_count, warned>>
      /\ CGoto(t, "recv", "count") \/ CGoto(t, "sci", "done")
  BY DEF CRecvNothing, CSciNothing, clientFlags, clientData
<1>2. CASE t = Leader
  BY <1>1, <1>2, LeaderGoes DEF Before2, Before3, Counted
<1>3. CASE t = Center
  BY <1>1, <1>3, CenterGoes
<1>4. CASE t # Leader /\ t # Center
  <2>1. cpc'[Leader] = cpc[Leader] /\ cpc'[Center] = cpc[Center]
    BY <1>1, <1>4, Roles DEF CGoto, Places
  <2> QED
    BY <1>1, <2>1, PartySame
<1> QED
  BY <1>2, <1>3, <1>4

\* A receive from a dead server keeps it too.
LEMMA ClientNothing ==
  ASSUME CrashInvariant, NEW t \in Threads, CRecvNothing(t) \/ CSciNothing(t)
  PROVE  CrashInvariant'
<1>0. /\ Places /\ LeaderResets /\ ClientRows
      /\ Meets(ClientSite1, cpc, Cf1) /\ Meets(ServerSite2, spc, Sf2)
      /\ AskedLate /\ PartyCounts /\ ReportedLate
  BY DEF CrashInvariant
<1>1. /\ UNCHANGED <<spc, Sf2, clientID, clientID_party, g_received_count, reports>>
      /\ UNCHANGED Cf1 /\ cpc[t] \in {"recv", "sci"}
      /\ cpc' = [cpc EXCEPT ![t] = IF cpc[t] = "recv" THEN "count" ELSE "done"]
  BY DEF CRecvNothing, CSciNothing, CGoto, clientFlags, clientData, serverVars, serverFlags
<1>2. PICK to : ClientEdge(t, to)
  BY <1>0, NothingEdges
<1>3. ~COprf2(t) /\ cpc[t] # "oprf1"
  BY <1>1 DEF COprf2, CGoto
<1>4. Places' /\ AskedLate' /\ ReportedLate'
  BY <1>0, <1>1, <1>2, <1>3, ClientGoesOn
<1>8. PartyCounts'
  BY <1>0, NothingCounts
<1>5. ClientRows'
  BY <1>0, <1>1, <1>2, <1>3, RowsKept
<1>6. LeaderResets' /\ Meets(ServerSite2, spc, Sf2)'
  BY <1>0, <1>1, ServerSideStays
<1>7. Meets(ClientSite1, cpc, Cf1)'
  <2> DEFINE from == cpc[t]
             next == IF cpc[t] = "recv" THEN "count" ELSE "done"
  <2>1. Goes(ClientSite1, cpc, cpc', t, from, next)
    BY <1>0, <1>1, ClientSites DEF Goes, Places
  <2>2. /\ IsSite(ClientSite1) /\ {"reset1"} \cap Inside(ClientSite1) = {}
        /\ {from, next} \cap (Inside(ClientSite1) \cup {"reset1"}) = {}
    BY <1>1, AreSites, ClientSites
  <2> HIDE DEF from, next
  <2>3. Legal(ClientSite1, {"reset1"}, t, from, next, Cf1, Cf1')
    BY <1>1, <2>2 DEF Legal
  <2>4. KeptEarly(ClientSite1, {"reset1"}, cpc, cpc', Cf1')
    BY <1>0, <2>1, <2>2, <2>3, LegalKeeps
  <2> QED
    BY <2>4 DEF KeptEarly, Meets, Arrived, Inside, ClientSite1
<1> QED
  BY <1>4, <1>5, <1>6, <1>7, <1>8 DEF CrashInvariant
-----------------------------------------------------------------------------
(* The server's steps.                                                     *)

\* Where a step takes a server thread: never back to the site of the shares.
ServerEdge(t, to) ==
  /\ spc' = [spc EXCEPT ![t] = to] /\ to \in Range(SOrder)
  /\ to \in SPartyOnly => t \in Parties
  /\ to \in SCenterOnly => t = Center
  /\ spc[t] \notin Inside(ServerSite2) => to \notin Inside(ServerSite2)

\* Every step of a server takes its thread somewhere in that way.
LEMMA ServerEdges ==
  ASSUME Places, NEW t \in Threads, Server(t)
  PROVE  \E to : ServerEdge(t, to)
<1> USE Labels, ServerSites DEF ServerEdge, SPartyOnly, SCenterOnly
<1>0. /\ Leader # Center /\ (t \in Parties <=> t = Leader \/ t = Center)
      /\ spc[t] \in SPartyOnly => t \in Parties
      /\ spc[t] \in SCenterOnly => t = Center
  BY Roles DEF Places, Parties
<1>1. CASE SOprf1(t)
  <2>1. ServerEdge(t, "inc1")
    BY <1>0, <1>1 DEF SOprf1, SGoto
  <2> QED
    BY <2>1
<1>2. CASE SInc1(t)
  <2>1. ServerEdge(t, "wait1")
    BY <1>0, <1>2 DEF SInc1, SGoto
  <2> QED
    BY <2>1
<1>3. CASE SWait1(t)
  <2>1. ServerEdge(t, "func1") \/ ServerEdge(t, "share")
    BY <1>0, <1>3 DEF SWait1, SGoto
  <2> QED
    BY <2>1
<1>4. CASE SReset1(t)
  <2>1. ServerEdge(t, "reset1") \/ ServerEdge(t, "share")
    BY <1>0, <1>4 DEF SReset1, SGoto
  <2> QED
    BY <2>1
<1>5. CASE SShare(t)
  <2>1. ServerEdge(t, "inc2")
    BY <1>0, <1>5 DEF SShare, SGoto
  <2> QED
    BY <2>1
<1>6. CASE SInc2(t)
  <2>1. ServerEdge(t, "wait2") \/ ServerEdge(t, "wait3")
    BY <1>0, <1>6 DEF SInc2, SGoto
  <2> QED
    BY <2>1
<1>7. CASE SWait2(t)
  <2>1. ServerEdge(t, "reset2") \/ ServerEdge(t, "oprf2") \/ ServerEdge(t, "wait3")
    BY <1>0, <1>7 DEF SWait2, SGoto
  <2> QED
    BY <2>1
<1>8. CASE SReset2(t)
  <2>1. ServerEdge(t, "oprf2") \/ ServerEdge(t, "reset3") \/ ServerEdge(t, "search")
    BY <1>0, <1>8 DEF SReset2, SGoto
  <2> QED
    BY <2>1
<1>9. CASE SOprf2(t)
  <2>1. ServerEdge(t, "inc3")
    BY <1>0, <1>9 DEF SOprf2, SGoto
  <2> QED
    BY <2>1
<1>10. CASE SWait3(t)
  <2>1. ServerEdge(t, "func3") \/ ServerEdge(t, "search") \/ ServerEdge(t, "sciSend")
    BY <1>0, <1>10 DEF SWait3, SGoto
  <2> QED
    BY <2>1
<1>11. CASE SSearch(t) \/ SSciSend(t) \/ SSciRecv(t)
  <2>1. ServerEdge(t, "sciSend") \/ ServerEdge(t, "sciRecv") \/ ServerEdge(t, "done")
    BY <1>0, <1>11 DEF SSearch, SSciSend, SSciRecv, SGoto
  <2> QED
    BY <2>1
<1> QED
  BY <1>1, <1>2, <1>3, <1>4, <1>5, <1>6, <1>7, <1>8, <1>9, <1>10, <1>11 DEF Server

\* A server thread that is taken on stays in its places and stays late.
LEMMA ServerGoesOn ==
  ASSUME Places, AskedLate, NEW t \in Threads, NEW to, ServerEdge(t, to), UNCHANGED cpc
  PROVE  Places' /\ AskedLate'
<1>1. spc \in [Threads -> Range(SOrder)] /\ spc' = [spc EXCEPT ![t] = to]
  BY DEF Places, ServerEdge
<1>2. Places'
  BY <1>1, ServerPlaces DEF ServerEdge
<1>3. Inside(ServerSite2)' = Inside(ServerSite2)
  BY DEF Inside, ServerSite2
<1>4. \A p \in Parties : spc[p] \notin Inside(ServerSite2) => spc'[p] \notin Inside(ServerSite2)
  BY <1>1, Roles DEF ServerEdge
<1>5. AskedLate'
  BY <1>3, <1>4 DEF AskedLate
<1> QED
  BY <1>2, <1>5

\* A step of a living server keeps the invariant, with a living client or not.
LEMMA CrashServerStep ==
  ASSUME CrashInvariant, NEW t \in Threads, Server(t)
  PROVE  CrashInvariant'
<1>0. /\ Places /\ LeaderResets /\ ClientRows
      /\ Meets(ClientSite1, cpc, Cf1) /\ Meets(ServerSite2, spc, Sf2)
      /\ AskedLate /\ PartyCounts /\ ReportedLate
  BY DEF CrashInvariant
<1>1. UNCHANGED clientVars
  BY DEF Server, SOprf1, SInc1, SWait1, SReset1, SShare, SInc2, SWait2, SReset2, SOprf2,
     SWait3, SSearch, SSciSend, SSciRecv
<1>2. ClientRows' /\ Meets(ClientSite1, cpc, Cf1)' /\ PartyCounts' /\ ReportedLate'
  BY <1>0, <1>1, ClientSideStays
<1>3. PICK to : ServerEdge(t, to)
  BY <1>0, ServerEdges
<1>4. Places' /\ AskedLate'
  BY <1>0, <1>1, <1>3, ServerGoesOn DEF clientVars
<1>5. LeaderResets'
  BY <1>0, LeaderResetsStep
<1>6. Meets(ServerSite2, spc, Sf2)'
  <2>1. PICK f, g : ServerLegal(t, f, g)
    BY <1>0, ServerIsLegal
  <2>2. Goes(ServerSite2, spc, spc', t, f, g)
    BY <1>0, <2>1, ServerGoes DEF ServerLegal
  <2>3. IsSite(ServerSite2) /\ {} \cap Inside(ServerSite2) = {}
    BY AreSites
  <2>4. KeptEarly(ServerSite2, {}, spc, spc', Sf2')
    BY <1>0, <2>1, <2>2, <2>3, LegalKeeps DEF ServerLegal
  <2> QED
    BY <2>4 DEF KeptEarly, Meets, Arrived, Inside, ServerSite2
<1> QED
  BY <1>2, <1>4, <1>5, <1>6 DEF CrashInvariant

\* A receive from a dead client keeps it too.
LEMMA ServerNothing ==
  ASSUME CrashInvariant, NEW t \in Threads, SSearchNothing(t) \/ SSciNothing(t)
  PROVE  CrashInvariant'
<1> DEFINE from == spc[t]
           next == IF spc[t] = "search" THEN "sciSend" ELSE "done"
<1>0. /\ Places /\ LeaderResets /\ ClientRows
      /\ Meets(ClientSite1, cpc, Cf1) /\ Meets(ServerSite2, spc, Sf2)
      /\ AskedLate /\ PartyCounts /\ ReportedLate
  BY DEF CrashInvariant
<1>1. /\ UNCHANGED clientVars /\ UNCHANGED Sf2 /\ spc[t] \in {"search", "sciRecv"}
      /\ spc' = [spc EXCEPT ![t] = next]
  BY DEF SSearchNothing, SSciNothing, SGoto, serverFlags
<1>2. ClientRows' /\ Meets(ClientSite1, cpc, Cf1)' /\ PartyCounts' /\ ReportedLate'
  BY <1>0, <1>1, ClientSideStays
<1>3. ServerEdge(t, next)
  BY <1>1, Labels, ServerSites DEF ServerEdge, SPartyOnly, SCenterOnly
<1>4. Places' /\ AskedLate'
  BY <1>0, <1>1, <1>3, ServerGoesOn DEF clientVars
<1>5. LeaderResets'
  BY <1>0, <1>1 DEF LeaderResets, Places
<1>6. Meets(ServerSite2, spc, Sf2)'
  <2>1. Goes(ServerSite2, spc, spc', t, from, next)
    BY <1>0, <1>1, ServerSites DEF Goes, Places
  <2>2. IsSite(ServerSite2) /\ {} \cap Inside(ServerSite2) = {}
        /\ {from, next} \cap (Inside(ServerSite2) \cup {}) = {}
    BY <1>1, AreSites, ServerSites
  <2> HIDE DEF from, next
  <2>3. Legal(ServerSite2, {}, t, from, next, Sf2, Sf2')
    BY <1>1, <2>2 DEF Legal
  <2>4. KeptEarly(ServerSite2, {}, spc, spc', Sf2')
    BY <1>0, <2>1, <2>2, <2>3, LegalKeeps
  <2> QED
    BY <2>4 DEF KeptEarly, Meets, Arrived, Inside, ServerSite2
<1> QED
  BY <1>2, <1>4, <1>5, <1>6 DEF CrashInvariant
-----------------------------------------------------------------------------
(* All steps.                                                              *)

\* The invariant holds before anything has run.
LEMMA InitCrash == CrashInit => CrashInvariant
<1> SUFFICES ASSUME Init PROVE CrashInvariant
  BY DEF CrashInit
<1>1. Invariant /\ SiteInvariant /\ DataInvariant
  BY InitInvariant, InitSites, InitData
<1>2. /\ Places /\ LeaderResets /\ ClientRows
      /\ Meets(ClientSite1, cpc, Cf1) /\ Meets(ServerSite2, spc, Sf2)
  BY <1>1 DEF SiteInvariant, Invariant, SitesMeet, DataInvariant
<1>3. \A p \in Parties : cpc[p] \in Unasked
  BY Roles DEF Init, Unasked
<1>4. AskedLate /\ ReportedLate
  BY <1>3 DEF AskedLate, ReportedLate, Init
<1>5. PartyCounts
  BY <1>1 DEF Invariant
<1> QED
  BY <1>2, <1>4, <1>5 DEF CrashInvariant

\* A step that changes nothing of the run, a crash or an exception.
LEMMA CrashStays == CrashInvariant /\ UNCHANGED vars => CrashInvariant'
<1> SUFFICES ASSUME CrashInvariant, UNCHANGED vars PROVE CrashInvariant'
  OBVIOUS
<1>1. UNCHANGED clientVars /\ UNCHANGED <<cpc, spc, Sf2>>
  BY DEF vars, clientVars, serverVars, serverFlags
<1>2. ClientRows' /\ Meets(ClientSite1, cpc, Cf1)' /\ PartyCounts' /\ ReportedLate'
  BY <1>1, ClientSideStays DEF CrashInvariant
<1>3. LeaderResets' /\ Meets(ServerSite2, spc, Sf2)'
  BY <1>1, ServerSideStays DEF CrashInvariant
<1>4. Places' /\ AskedLate'
  BY <1>1 DEF CrashInvariant, Places, AskedLate, Inside, ServerSite2
<1> QED
  BY <1>2, <1>3, <1>4 DEF CrashInvariant

\* The invariant is inductive.
LEMMA NextCrash == CrashInvariant /\ [CrashNext]_crashVars => CrashInvariant'
<1> SUFFICES ASSUME CrashInvariant, [CrashNext]_crashVars PROVE CrashInvariant'
  OBVIOUS
<1>1. CASE UNCHANGED crashVars
  BY <1>1, CrashStays DEF crashVars
<1>2. ASSUME NEW t \in Threads, CrashClient(t)
      PROVE  CrashInvariant'
  BY <1>2, CrashClientStep, ClientNothing, CrashStays DEF CrashClient, CThrows
<1>3. ASSUME NEW t \in Threads, CrashServer(t)
      PROVE  CrashInvariant'
  BY <1>3, CrashServerStep, ServerNothing, CrashStays DEF CrashServer, SThrows
<1>4. ASSUME NEW p \in MayCrash, Crash(p)
      PROVE  CrashInvariant'
  BY <1>4, CrashStays DEF Crash
<1> QED
  BY <1>1, <1>2, <1>3, <1>4 DEF CrashNext

\* The invariant holds in every state of a run in which processes go away.
LEMMA CrashInvariance == CrashSpec => []CrashInvariant
BY InitCrash, NextCrash, PTL DEF CrashSpec

\* What the invariant says of a report.
LEMMA ReportsLate ==
  ASSUME CrashInvariant
  PROVE  ReportsOnlyAfterShares
<1> SUFFICES ASSUME reports # <<>>
             PROVE  /\ \A t \in Threads : SPast(t, "share")
                    /\ \A p \in Parties : clientID_party[p] # EmptyTable
  BY DEF ReportsOnlyAfterShares
<1>1. /\ \A p \in Parties : cpc[p] \notin Unasked
      /\ Places /\ ClientRows /\ Meets(ServerSite2, spc, Sf2)
  BY DEF CrashInvariant, ReportedLate
<1>2. spc[Leader] \notin Inside(ServerSite2)
  BY <1>1, Roles DEF CrashInvariant, AskedLate
<1>3. \A t \in Threads : spc[t] \notin Unshared
  BY <1>1, <1>2, Roles, AllMet, ServerSites DEF Unshared
<1>4. ASSUME NEW p \in Parties
      PROVE  clientID_party[p] # EmptyTable
  <2>1. clientID_party[p][Leader] = <<Oprf(p, Leader + 1, asked[Leader])>>
    BY <1>1, Roles DEF ClientRows, CEncoded
  <2>2. EmptyTable[Leader] = <<>>
    BY Roles DEF EmptyTable
  <2>3. \A x : <<x>> # <<>>
    OBVIOUS
  <2> QED
    BY <2>1, <2>2, <2>3
<1> QED
  BY <1>1, <1>3, <1>4, SharesAreIn

\* A party that got nothing from a dead server counts itself all the same, so
\* the warning about the count, "g_received_count ... may be error", is printed
\* in no run, whichever process ends early.
THEOREM NeverWarnsEither == CrashSpec => []NeverWarned
<1>1. CrashInvariant => NeverWarned
  BY DEF CrashInvariant, PartyCounts, NeverWarned
<1> QED
  BY <1>1, CrashInvariance, PTL

\* However and whenever the processes end, the client reports nothing before
\* every server has split its payloads and both parties are past the second
\* PRF: a sum that was never received counts as received, but not as early.
THEOREM LateReport == CrashSpec => []ReportsOnlyAfterShares
<1>1. CrashInvariant => ReportsOnlyAfterShares
  BY ReportsLate
<1> QED
  BY <1>1, CrashInvariance, PTL
-----------------------------------------------------------------------------
(* What is reported.                                                       *)

\* What a party may have for its sum.
MaySum(p) == {0, PartySum(serverData_party, p)}

\* A party's sockets before its server has answered, and after: as long as the
\* server lives nothing but the query is on the way to it, and as long as the
\* client lives it gets its sum first, or nothing.
QueryUnderWay(p) ==
  spc[p] \notin Replied =>
    /\ down[p] = <<>>
    /\ Alive("server") => \/ Asks(p) /\ up[p] = <<>>
                          \/ Expects(p) /\ up[p] = <<up[p][1]>> /\ up[p][1].body = Queries(p)
SumUnderWay(p) ==
  spc[p] \in Replied /\ Alive("client") =>
    /\ ~Asks(p)
    /\ Expects(p) => /\ down[p] = IF Answered(p) THEN <<down[p][1]>> ELSE <<down[p][1], sci>>
                     /\ down[p][1].body \in MaySum(p)
UnderWay ==
  /\ DOMAIN up = Threads /\ DOMAIN down = Threads
  /\ \A p \in Parties : QueryUnderWay(p) /\ SumUnderWay(p)

\* What the parties have got, and what the center has reported of it.
SumsInHand ==
  /\ g_sum = [p \in Parties |-> g_sum[p]]
  /\ \A p \in Parties : g_sum[p] # 0 => spc[p] \in Replied /\ g_sum[p] \in MaySum(p)
ReportOfSums ==
  reports # <<>> =>
    /\ cpc[Center] \in PastReport
    /\ \E a \in MaySum(Center), b \in MaySum(Leader) : reports = <<(a + b) % Word>>

CrashData == ServerRows /\ Shares /\ UnderWay /\ SumsInHand /\ ReportOfSums

\* One message and two.
LEMMA Singles ==
  ASSUME NEW m, NEW n
  PROVE  /\ Append(<<>>, m) = <<m>> /\ Append(<<m>>, n) = <<m, n>>
         /\ <<m>>[1] = m /\ <<m, n>>[1] = m
         /\ Head(<<m>>) = m /\ Head(<<m, n>>) = m
         /\ <<m>> # <<>> /\ <<m, n>> # <<>>
<1>1. Append(<<>>, m) = <<m>>
  OBVIOUS
<1>2. Append(<<m>>, n) = <<m, n>>
  BY TwoInARow
<1>3. <<m>>[1] = m /\ <<m, n>>[1] = m /\ <<m>> # <<>> /\ <<m, n>> # <<>>
  OBVIOUS
<1>4. Head(<<m>>) = m /\ Head(<<m, n>>) = m
  OBVIOUS
<1> QED
  BY <1>1, <1>2, <1>3, <1>4

\* A step of thread t leaves the labels and the sockets of the others alone.
AtOnly(t) ==
  /\ DOMAIN up' = DOMAIN up /\ DOMAIN down' = DOMAIN down
  /\ \A u \in Threads \ {t} : /\ cpc'[u] = cpc[u] /\ spc'[u] = spc[u]
                              /\ up'[u] = up[u] /\ down'[u] = down[u]
  /\ dead \subseteq dead'

\* Then it is enough to look at t, and nobody has a sum while shares come in.
LEMMA UnderWayStep ==
  ASSUME UnderWay, NEW t \in Threads, AtOnly(t),
         UNCHANGED serverData_party \/ \A p \in Parties : spc[p] \notin Replied,
         t \in Parties => QueryUnderWay(t)' /\ SumUnderWay(t)'
  PROVE  UnderWay'
<1>1. ASSUME NEW p \in Parties, p # t
      PROVE  QueryUnderWay(p)' /\ SumUnderWay(p)'
  <2>1. /\ cpc'[p] = cpc[p] /\ spc'[p] = spc[p] /\ up'[p] = up[p] /\ down'[p] = down[p]
        /\ dead \subseteq dead' /\ QueryUnderWay(p) /\ SumUnderWay(p)
    BY <1>1, Roles DEF AtOnly, UnderWay
  <2>2. QueryUnderWay(p)'
    BY <2>1 DEF QueryUnderWay, Alive, Asks, Expects, Queries
  <2>3. SumUnderWay(p)'
    <3>1. CASE spc[p] \notin Replied
      BY <2>1, <3>1 DEF SumUnderWay
    <3>2. CASE spc[p] \in Replied
      <4>1. MaySum(p)' = MaySum(p)
        BY <3>2 DEF MaySum, PartySum
      <4> QED
        BY <2>1, <4>1 DEF SumUnderWay, Alive, Asks, Expects, Answered
    <3> QED
      BY <3>1, <3>2
  <2> QED
    BY <2>2, <2>3
<1>2. DOMAIN up' = Threads /\ DOMAIN down' = Threads
  BY DEF AtOnly, UnderWay
<1> QED
  BY <1>1, <1>2 DEF UnderWay

\* A party's own step that neither sends nor receives nor starts an exchange.
LEMMA QuietUnderWay ==
  ASSUME UnderWay, NEW t \in Parties, UNCHANGED serverData_party, UNCHANGED dead,
         up'[t] = up[t], down'[t] = down[t],
         Asks(t)' <=> Asks(t), Expects(t)' <=> Expects(t),
         spc'[t] \in Replied <=> spc[t] \in Replied, Answered(t)' <=> Answered(t)
  PROVE  QueryUnderWay(t)' /\ SumUnderWay(t)'
<1>1. QueryUnderWay(t) /\ SumUnderWay(t)
  BY DEF UnderWay
<1>2. QueryUnderWay(t)'
  BY <1>1 DEF QueryUnderWay, Alive, Queries
<1>3. MaySum(t)' = MaySum(t)
  BY DEF MaySum, PartySum
<1>4. SumUnderWay(t)'
  BY <1>1, <1>3 DEF SumUnderWay, Alive
<1> QED
  BY <1>2, <1>4

\* A living client keeps the sockets as said.
LEMMA ClientUnderWay ==
  ASSUME Places, ClientRows, UnderWay, NEW t \in Threads, Client(t), Alive("client"),
         UNCHANGED dead
  PROVE  UnderWay'
<1>1. UNCHANGED <<spc, serverData_party>>
  BY DEF Client, COprf1, CInc1, CWait1, CReset1, COprf2, CInc2, CWait2, CReset2, CSend,
     CRecv, CCount, CWait3, CFunc3, CSci, serverVars, serverData
<1>2. PICK to : ClientEdge(t, to)
  BY ClientEdges
<1>3. /\ cpc \in [Threads -> Range(COrder)] /\ cpc' = [cpc EXCEPT ![t] = to]
      /\ DOMAIN up = Threads /\ DOMAIN down = Threads
      /\ cpc[t] \in PartyOnly => t \in Parties
  BY <1>2 DEF Places, ClientEdge, UnderWay
<1>4. /\ up' = up \/ \E m : up' = [up EXCEPT ![t] = m]
      /\ down' = down \/ \E m : down' = [down EXCEPT ![t] = m]
  BY DEF Client, COprf1, CInc1, CWait1, CReset1, COprf2, CInc2, CWait2, CReset2, CSend,
     CRecv, CCount, CWait3, CFunc3, CSci, netVars
<1>5. AtOnly(t)
  BY <1>1, <1>3, <1>4 DEF AtOnly
<1>6. ASSUME t \in Parties
      PROVE  QueryUnderWay(t)' /\ SumUnderWay(t)'
  <2>0. QueryUnderWay(t) /\ SumUnderWay(t) /\ cpc'[t] = to
    BY <1>3, <1>6 DEF UnderWay
  <2>1. CASE CSend(t)
    <3>1. /\ cpc[t] = "send" /\ cpc'[t] = "recv" /\ down' = down
          /\ up'[t] = Append(up[t], ids(flatten(clientID_party[t])))
      BY <1>3, <2>1 DEF CSend, CGoto
    <3>2. ids(flatten(clientID_party[t])).body = Queries(t)
      BY <1>6, <3>1, SendsQueries DEF ids
    <3>3. spc[t] \notin Replied
      BY <2>0, <3>1 DEF SumUnderWay, Asks, AskLabels
    <3>4. down[t] = <<>> /\ (Alive("server") => up[t] = <<>>)
      BY <2>0, <3>1, <3>3 DEF QueryUnderWay, Expects
    <3> DEFINE m == ids(flatten(clientID_party[t]))
    <3>5. up'[t] = Append(up[t], m) /\ m.body = Queries(t)
      BY <3>1, <3>2
    <3> HIDE DEF m
    <3>6. Alive("server") => up'[t] = <<up'[t][1]>> /\ up'[t][1].body = Queries(t)
      <4>1. Alive("server") => up'[t] = <<m>>
        BY <3>4, <3>5, Singles
      <4> QED
        BY <3>5, <4>1, Singles
    <3>7. QueryUnderWay(t)'
      BY <1>1, <3>1, <3>4, <3>6 DEF QueryUnderWay, Expects, Alive, Queries
    <3> QED
      BY <1>1, <3>3, <3>7 DEF SumUnderWay
  <2>2. CASE cpc[t] = "recv"
    <3>1. /\ cpc'[t] = "count" /\ down[t] # <<>>
      BY <1>3, <2>2 DEF Client, COprf1, CInc1, CWait1, CReset1, COprf2, CInc2, CWait2,
         CReset2, CSend, CRecv, CCount, CWait3, CFunc3, CSci, CGoto
    <3>2. spc[t] \in Replied
      BY <2>0, <3>1 DEF QueryUnderWay
    <3> QED
      BY <1>1, <3>1, <3>2 DEF QueryUnderWay, SumUnderWay, Asks, AskLabels, Expects
  <2>3. CASE CSci(t)
    <3>1. /\ cpc[t] = "sci" /\ cpc'[t] = "done" /\ down[t] # <<>>
      BY <1>3, <2>3 DEF CSci, CGoto
    <3>2. spc[t] \in Replied
      BY <2>0, <3>1 DEF QueryUnderWay
    <3> QED
      BY <1>1, <3>1, <3>2 DEF QueryUnderWay, SumUnderWay, Asks, AskLabels, Expects
  <2>4. CASE ~CSend(t) /\ cpc[t] # "recv" /\ ~CSci(t)
    <3>1. UNCHANGED <<up, down>>
      BY <2>4 DEF Client, COprf1, CInc1, CWait1, CReset1, COprf2, CInc2, CWait2, CReset2,
         CRecv, CCount, CWait3, CFunc3, CGoto, netVars
    <3>2. to # "recv" /\ (cpc[t] \in AskLabels <=> to \in AskLabels)
      BY <1>2, <1>6, <2>4 DEF ClientEdge
    <3>3. (Asks(t)' <=> Asks(t)) /\ (Expects(t)' <=> Expects(t)) /\ (Answered(t)' <=> Answered(t))
      BY <1>1, <2>0, <2>4, <3>2 DEF Asks, Expects, Answered
    <3> QED
      BY <1>1, <1>6, <3>1, <3>3, QuietUnderWay
  <2> QED
    BY <2>1, <2>2, <2>3, <2>4
<1> QED
  BY <1>1, <1>5, <1>6, UnderWayStep

\* So does a client whose server is dead.
LEMMA NothingUnderWay ==
  ASSUME Places, UnderWay, NEW t \in Threads, CRecvNothing(t) \/ CSciNothing(t),
         ~Alive("server")
  PROVE  UnderWay'
<1>1. /\ UNCHANGED <<spc, serverData_party, up, dead>>
      /\ cpc[t] \in {"recv", "sci"}
      /\ cpc' = [cpc EXCEPT ![t] = IF cpc[t] = "recv" THEN "count" ELSE "done"]
      /\ down' = [down EXCEPT ![t] = <<>>]
  BY DEF CRecvNothing, CSciNothing, CGoto, serverVars, serverData
<1>2. DOMAIN up = Threads /\ DOMAIN down = Threads /\ cpc \in [Threads -> Range(COrder)]
  BY DEF UnderWay, Places
<1>3. AtOnly(t)
  BY <1>1, <1>2 DEF AtOnly
<1>4. cpc'[t] \in {"count", "done"} /\ down'[t] = <<>>
  BY <1>1, <1>2
<1>5. QueryUnderWay(t)' /\ SumUnderWay(t)'
  BY <1>1, <1>4 DEF QueryUnderWay, SumUnderWay, Alive, Asks, AskLabels, Expects
<1> QED
  BY <1>1, <1>3, <1>5, UnderWayStep

\* A server's steps that come before its answer.
LEMMA EarlierUnderWay ==
  ASSUME Places, UnderWay, NEW t \in Threads, UNCHANGED <<cpc, up, down, dead>>,
         NEW from, NEW to, SGoto(t, from, to),
         UNCHANGED serverData_party \/ \A p \in Parties : spc[p] \notin Replied,
         t \in Parties => from \notin Replied /\ to \notin Replied
  PROVE  UnderWay'
<1>1. /\ spc \in [Threads -> Range(SOrder)] /\ spc[t] = from /\ spc' = [spc EXCEPT ![t] = to]
  BY DEF Places, SGoto
<1>2. AtOnly(t)
  BY <1>1 DEF AtOnly
<1>3. ASSUME t \in Parties
      PROVE  QueryUnderWay(t)' /\ SumUnderWay(t)'
  <2>1. spc[t] \notin Replied /\ spc'[t] \notin Replied /\ QueryUnderWay(t)
    BY <1>1, <1>3 DEF UnderWay
  <2> QED
    BY <2>1 DEF QueryUnderWay, SumUnderWay, Alive, Asks, Expects, Queries
<1> QED
  BY <1>2, <1>3, UnderWayStep

\* A server that answers a living client has its query.
LEMMA SearchUnderWay ==
  ASSUME Places, ServerRows, Shares, Meets(ServerSite2, spc, Sf2), UnderWay,
         NEW t \in Threads, SSearch(t), Alive("server"), UNCHANGED dead
  PROVE  UnderWay'
<1>1. /\ spc \in [Threads -> Range(SOrder)] /\ spc[t] = "search" /\ t \in Parties
      /\ spc' = [spc EXCEPT ![t] = "sciSend"]
      /\ UNCHANGED <<cpc, serverID_party, serverData_party>>
      /\ up[t] # <<>> /\ up' = [up EXCEPT ![t] = Tail(@)]
      /\ DOMAIN up = Threads /\ DOMAIN down = Threads /\ QueryUnderWay(t)
  BY DEF Places, SPartyOnly, SSearch, SGoto, clientVars, serverData, UnderWay
<1>2. down[t] = <<>> /\ Expects(t) /\ Head(up[t]).body = Queries(t)
  <2>1. /\ down[t] = <<>> /\ Expects(t)
        /\ up[t] = <<up[t][1]>> /\ up[t][1].body = Queries(t)
    BY <1>1 DEF QueryUnderWay, Replied
  <2> QED
    BY <2>1, Singles
<1>3. \A u \in Threads : spc[u] \notin Unshared
  BY <1>1, AllSharedAt, ServerSites
<1>4. \A u \in Threads :
        serverID_party[t][u] = IF u < SNELES THEN LookedUp(t, held, u) ELSE <<>>
  BY <1>1 DEF ServerRows, SEncoded, Unevaluated
<1> DEFINE table == serverID_party[t]
<1>5. MatchSum(Queries(t), table, serverData_party[t]) % Word
        = PartySum(serverData_party, t)
  <2>1. \A u \in Threads : table[u] = IF u < SNELES THEN LookedUp(t, held, u) ELSE <<>>
    BY <1>4
  <2> HIDE DEF table
  <2> QED
    BY <1>1, <1>3, <2>1, SearchSum
<1> DEFINE m == number(PartySum(serverData_party, t))
<1>6. down' = [down EXCEPT ![t] = Append(@, m)] /\ m.body = PartySum(serverData_party, t)
  BY <1>2, <1>5 DEF SSearch, number
<1> HIDE DEF m
<1>7. down'[t] = <<m>>
  BY <1>1, <1>2, <1>6, Singles
<1>8. down'[t] = <<down'[t][1]>> /\ down'[t][1].body \in MaySum(t)'
  <2>1. down'[t][1] = m
    BY <1>7, Singles
  <2> QED
    BY <1>1, <1>6, <1>7, <2>1 DEF MaySum
<1>9. spc'[t] = "sciSend"
  BY <1>1
<1>10. QueryUnderWay(t)' /\ SumUnderWay(t)'
  BY <1>1, <1>2, <1>8, <1>9 DEF QueryUnderWay, SumUnderWay, Replied, Expects, Asks,
     AskLabels, Answered
<1>11. AtOnly(t)
  BY <1>1, <1>6 DEF AtOnly
<1> QED
  BY <1>1, <1>10, <1>11, UnderWayStep

\* The statistics come behind the sum.
LEMMA SciSendUnderWay ==
  ASSUME Places, UnderWay, NEW t \in Threads, SSciSend(t), UNCHANGED dead
  PROVE  UnderWay'
<1>1. /\ spc \in [Threads -> Range(SOrder)] /\ spc[t] = "sciSend"
      /\ spc' = [spc EXCEPT ![t] = "sciRecv"]
      /\ UNCHANGED <<cpc, serverData_party, up>>
      /\ down' = [down EXCEPT ![t] = Append(@, sci)]
      /\ DOMAIN up = Threads /\ DOMAIN down = Threads
  BY DEF Places, SSciSend, SGoto, clientVars, serverData, UnderWay
<1>2. AtOnly(t)
  BY <1>1 DEF AtOnly
<1>3. ASSUME t \in Parties
      PROVE  QueryUnderWay(t)' /\ SumUnderWay(t)'
  <2>1. SumUnderWay(t) /\ spc'[t] = "sciRecv" /\ down'[t] = Append(down[t], sci)
    BY <1>1, <1>3 DEF UnderWay
  <2>2. QueryUnderWay(t)'
    BY <2>1 DEF QueryUnderWay, Replied
  <2>3. ASSUME Alive("client")
        PROVE  /\ ~Asks(t)
               /\ Expects(t) => down[t] = <<down[t][1]>> /\ down[t][1].body \in MaySum(t)
    BY <1>1, <2>1, <2>3 DEF SumUnderWay, Answered, Replied
  <2>4. ASSUME Alive("client"), Expects(t)
        PROVE  down'[t] = <<down'[t][1], sci>> /\ down'[t][1].body \in MaySum(t)
    <3> DEFINE m == down[t][1]
    <3>1. down[t] = <<m>> /\ m.body \in MaySum(t)
      BY <2>3, <2>4
    <3> HIDE DEF m
    <3>2. down'[t] = <<m, sci>>
      BY <2>1, <3>1, Singles
    <3>3. down'[t][1] = m
      BY <3>2, Singles
    <3> QED
      BY <3>1, <3>2, <3>3
  <2>5. MaySum(t)' = MaySum(t)
    BY <1>1 DEF MaySum, PartySum
  <2>6. SumUnderWay(t)'
    BY <1>1, <2>1, <2>3, <2>4, <2>5 DEF SumUnderWay, Alive, Asks, Expects, Answered
  <2> QED
    BY <2>2, <2>6
<1> QED
  BY <1>1, <1>2, <1>3, UnderWayStep

\* A server thread ends, with the client's statistics or without.
LEMMA SciRecvUnderWay ==
  ASSUME Places, UnderWay, NEW t \in Threads, SSciRecv(t) \/ SSciNothing(t), UNCHANGED dead
  PROVE  UnderWay'
<1>1. /\ spc \in [Threads -> Range(SOrder)] /\ spc[t] = "sciRecv"
      /\ spc' = [spc EXCEPT ![t] = "done"]
      /\ UNCHANGED <<cpc, serverData_party, down>>
      /\ \E m : up' = [up EXCEPT ![t] = m]
      /\ DOMAIN up = Threads /\ DOMAIN down = Threads
  BY DEF Places, SSciRecv, SSciNothing, SGoto, clientVars, serverData, UnderWay
<1>2. AtOnly(t)
  BY <1>1 DEF AtOnly
<1>3. ASSUME t \in Parties
      PROVE  QueryUnderWay(t)' /\ SumUnderWay(t)'
  <2>1. SumUnderWay(t) /\ spc'[t] = "done"
    BY <1>1, <1>3 DEF UnderWay
  <2>2. MaySum(t)' = MaySum(t)
    BY <1>1 DEF MaySum, PartySum
  <2> QED
    BY <1>1, <2>1, <2>2 DEF QueryUnderWay, SumUnderWay, Replied, Alive, Asks, Expects,
       Answered
<1> QED
  BY <1>1, <1>2, <1>3, UnderWayStep

\* A server whose client is dead goes on with nothing.
LEMMA SearchNothingUnderWay ==
  ASSUME Places, UnderWay, NEW t \in Threads, SSearchNothing(t), ~Alive("client")
  PROVE  UnderWay'
<1>1. /\ spc \in [Threads -> Range(SOrder)]
      /\ spc' = [spc EXCEPT ![t] = "sciSend"]
      /\ UNCHANGED <<cpc, serverData_party, dead>>
      /\ up' = [up EXCEPT ![t] = <<>>]
      /\ \E m : down' = [down EXCEPT ![t] = m]
      /\ DOMAIN up = Threads /\ DOMAIN down = Threads
  BY DEF Places, SSearchNothing, SGoto, clientVars, serverData, UnderWay
<1>2. AtOnly(t)
  BY <1>1 DEF AtOnly
<1>3. QueryUnderWay(t)' /\ SumUnderWay(t)'
  <2>1. spc'[t] = "sciSend"
    BY <1>1
  <2> QED
    BY <1>1, <2>1 DEF QueryUnderWay, SumUnderWay, Replied, Alive
<1> QED
  BY <1>1, <1>2, <1>3, UnderWayStep

\* What the parties have got stays, if no share comes in after an answer.
LEMMA HandStays ==
  ASSUME SumsInHand, ReportOfSums, UNCHANGED <<cpc, g_sum, reports>>,
         \A p \in Parties : spc[p] \in Replied => spc'[p] \in Replied,
         \/ UNCHANGED serverData_party
         \/ reports = <<>> /\ \A p \in Parties : spc[p] \notin Replied
  PROVE  SumsInHand' /\ ReportOfSums'
<1>1. CASE UNCHANGED serverData_party
  <2>1. \A p \in Parties : MaySum(p)' = MaySum(p)
    BY <1>1 DEF MaySum, PartySum
  <2>2. SumsInHand'
    BY <2>1 DEF SumsInHand
  <2>3. MaySum(Center)' = MaySum(Center) /\ MaySum(Leader)' = MaySum(Leader)
    BY <2>1, Roles
  <2> QED
    BY <2>2, <2>3 DEF ReportOfSums
<1>2. CASE reports = <<>> /\ \A p \in Parties : spc[p] \notin Replied
  BY <1>2 DEF SumsInHand, ReportOfSums
<1> QED
  BY <1>1, <1>2

\* The server's steps at its flags.
LEMMA QuietCrashData ==
  ASSUME CrashInvariant, CrashData, NEW t \in Threads, UNCHANGED dead,
         SInc1(t) \/ SInc2(t) \/ SWait1(t) \/ SWait2(t) \/ SWait3(t)
           \/ SReset1(t) \/ SReset2(t)
  PROVE  CrashData'
<1>0. Places /\ ServerRows /\ Shares /\ UnderWay /\ SumsInHand /\ ReportOfSums
  BY DEF CrashInvariant, CrashData
<1>1. /\ UNCHANGED <<cpc, g_sum, reports, serverID, serverID_party, serverData_party, up,
                     down>>
      /\ spc[t] \notin Replied
  BY DEF SInc1, SInc2, SWait1, SWait2, SWait3, SReset1, SReset2, SGoto, clientVars,
     clientData, serverData, netVars, Replied
<1>2. PICK from, to : SQuietly(t, from, to)
  BY <1>0, SGoesQuietly
<1>3. /\ SGoto(t, from, to) /\ spc[t] = from /\ spc' = [spc EXCEPT ![t] = to]
      /\ t \in Parties => from \notin Replied /\ to \notin Replied
  BY <1>1, <1>2 DEF SQuietly, SGoto
<1>4. ServerRows'
  BY <1>0, <1>1, <1>2, SameServerRows DEF SQuietly
<1>5. Shares'
  BY <1>0, <1>1, <1>2, SameShares DEF SQuietly
<1>6. UnderWay'
  BY <1>0, <1>1, <1>3, EarlierUnderWay
<1>7. \A p \in Parties : spc[p] \in Replied => spc'[p] \in Replied
  BY <1>0, <1>1, <1>3, Roles DEF Places
<1>8. SumsInHand' /\ ReportOfSums'
  BY <1>0, <1>1, <1>7, HandStays
<1> QED
  BY <1>4, <1>5, <1>6, <1>8 DEF CrashData

\* The server's steps that put rows in.
LEMMA RowsCrashData ==
  ASSUME CrashInvariant, CrashData, NEW t \in Threads, UNCHANGED dead,
         SOprf1(t) \/ SOprf2(t)
  PROVE  CrashData'
<1> DEFINE from == IF SOprf1(t) THEN "oprf1" ELSE "oprf2"
           to == IF SOprf1(t) THEN "inc1" ELSE "inc3"
<1>0. /\ Places /\ Meets(ServerSite2, spc, Sf2)
      /\ ServerRows /\ Shares /\ UnderWay /\ SumsInHand /\ ReportOfSums
  BY DEF CrashInvariant, CrashData
<1>1. /\ UNCHANGED <<cpc, g_sum, reports, serverData_party, up, down>>
      /\ SGoto(t, from, to)
  BY DEF SOprf1, SOprf2, clientVars, clientData
<1>2. /\ from \notin Replied /\ to \notin Replied
      /\ from \in Unshared <=> to \in Unshared
  BY DEF Replied, Unshared
<1> HIDE DEF from, to
<1>3. ServerRows'
  BY <1>0, SOprf1Rows, SOprf2Rows
<1>4. Shares'
  BY <1>0, <1>1, <1>2, SameShares
<1>5. UnderWay'
  BY <1>0, <1>1, <1>2, EarlierUnderWay
<1>6. \A p \in Parties : spc[p] \in Replied => spc'[p] \in Replied
  <2>1. spc[t] = from /\ spc' = [spc EXCEPT ![t] = to]
    BY <1>1 DEF SGoto
  <2> QED
    BY <1>0, <1>2, <2>1, Roles DEF Places
<1>7. SumsInHand' /\ ReportOfSums'
  BY <1>0, <1>1, <1>6, HandStays
<1> QED
  BY <1>3, <1>4, <1>5, <1>7 DEF CrashData

\* The step that puts the shares in: nobody has answered, nothing is reported.
LEMMA ShareCrashData ==
  ASSUME CrashInvariant, CrashData, NEW t \in Threads, UNCHANGED dead, SShare(t)
  PROVE  CrashData'
<1>0. /\ Places /\ Meets(ServerSite2, spc, Sf2)
      /\ ServerRows /\ Shares /\ UnderWay /\ SumsInHand /\ ReportOfSums
  BY DEF CrashInvariant, CrashData
<1>1. /\ UNCHANGED <<cpc, g_sum, reports, serverID, serverID_party, up, down>>
      /\ SGoto(t, "share", "inc2") /\ spc[t] = "share" /\ spc' = [spc EXCEPT ![t] = "inc2"]
  BY DEF SShare, SGoto, clientVars, clientData, netVars
<1>2. ServerRows'
  BY <1>0, <1>1, SameServerRows DEF Unevaluated
<1>3. Shares'
  BY <1>0, SShareShares
<1>4. \A p \in Parties : spc[p] \in Inside(ServerSite2)
  BY <1>0, <1>1, AllSharedAt DEF Unshared
<1>5. \A p \in Parties : spc[p] \notin Replied
  BY <1>4, ServerSites DEF Replied
<1>6. reports = <<>>
  BY <1>4, Roles DEF CrashInvariant, AskedLate, ReportedLate
<1>7. UnderWay'
  BY <1>0, <1>1, <1>5, EarlierUnderWay DEF Replied
<1>8. SumsInHand' /\ ReportOfSums'
  BY <1>0, <1>1, <1>5, <1>6, HandStays
<1> QED
  BY <1>2, <1>3, <1>7, <1>8 DEF CrashData

\* The answer and what comes after it.
LEMMA ReplyCrashData ==
  ASSUME CrashInvariant, CrashData, NEW t \in Threads, UNCHANGED dead,
         \/ SSearch(t) /\ Alive("server")
         \/ SSciSend(t) \/ SSciRecv(t) \/ SSciNothing(t)
         \/ SSearchNothing(t) /\ ~Alive("client")
  PROVE  CrashData'
<1> DEFINE from == spc[t]
           to == IF spc[t] = "search" THEN "sciSend"
                 ELSE IF spc[t] = "sciSend" THEN "sciRecv" ELSE "done"
<1>0. /\ Places /\ Meets(ServerSite2, spc, Sf2)
      /\ ServerRows /\ Shares /\ UnderWay /\ SumsInHand /\ ReportOfSums
  BY DEF CrashInvariant, CrashData
<1>1. /\ UNCHANGED <<cpc, g_sum, reports, serverID, serverID_party, serverData_party>>
      /\ SGoto(t, from, to) /\ from \in {"search", "sciSend", "sciRecv"}
  BY DEF SSearch, SSciSend, SSciRecv, SSciNothing, SSearchNothing, SGoto, clientVars,
     clientData, serverData
<1>2. /\ to \in Replied /\ "oprf1" \notin {from, to}
      /\ from \in Unshared <=> to \in Unshared
      /\ from \in Unevaluated <=> to \in Unevaluated
  BY <1>1 DEF Replied, Unshared, Unevaluated
<1> HIDE DEF from, to
<1>3. ServerRows'
  BY <1>0, <1>1, <1>2, SameServerRows
<1>4. Shares'
  BY <1>0, <1>1, <1>2, SameShares
<1>5. UnderWay'
  BY <1>0, SearchUnderWay, SciSendUnderWay, SciRecvUnderWay, SearchNothingUnderWay
<1>6. \A p \in Parties : spc[p] \in Replied => spc'[p] \in Replied
  <2>1. spc' = [spc EXCEPT ![t] = to]
    BY <1>1 DEF SGoto
  <2> QED
    BY <1>0, <1>2, <2>1, Roles DEF Places
<1>7. SumsInHand' /\ ReportOfSums'
  BY <1>0, <1>1, <1>6, HandStays
<1> QED
  BY <1>3, <1>4, <1>5, <1>7 DEF CrashData

\* Every step of a living server.
LEMMA ServerCrashData ==
  ASSUME CrashInvariant, CrashData, NEW t \in Threads, CrashServer(t)
  PROVE  \/ CrashData'
         \/ UNCHANGED vars /\ dead \subseteq dead'
<1>1. CASE SThrows(t)
  BY <1>1 DEF SThrows, Dies
<1>2. CASE (SSearchNothing(t) \/ SSciNothing(t)) /\ ~Alive("client")
  <2>1. UNCHANGED dead
    BY <1>2 DEF SSearchNothing, SSciNothing
  <2> QED
    BY <1>2, <2>1, ReplyCrashData
<1>3. CASE Server(t) /\ UNCHANGED dead /\ Alive("server")
  BY <1>3, QuietCrashData, RowsCrashData, ShareCrashData, ReplyCrashData DEF Server
<1> QED
  BY <1>1, <1>2, <1>3 DEF CrashServer
-----------------------------------------------------------------------------
(* The client's steps.                                                     *)

\* A client that receives gets what its server sent.
LEMMA GetsItsSum ==
  ASSUME UnderWay, NEW t \in Parties, Alive("client"), Expects(t), down[t] # <<>>
  PROVE  spc[t] \in Replied /\ Head(down[t]).body \in MaySum(t)
<1>1. QueryUnderWay(t) /\ SumUnderWay(t)
  BY DEF UnderWay
<1>2. spc[t] \in Replied
  BY <1>1 DEF QueryUnderWay
<1> DEFINE m == down[t][1]
<1>3. /\ down[t] = <<m>> \/ down[t] = <<m, sci>>
      /\ m.body \in MaySum(t)
  BY <1>1, <1>2 DEF SumUnderWay
<1> HIDE DEF m
<1>4. Head(down[t]) = m
  BY <1>3, Singles
<1> QED
  BY <1>2, <1>3, <1>4

\* The step that reports: two sums, each of them there or 0.
LEMMA ReportsTwo ==
  ASSUME Places, SumsInHand, ReportOfSums, NEW t \in Threads, CFunc3(t),
         g_received_count = 2
  PROVE  SumsInHand' /\ ReportOfSums'
<1>1. /\ cpc \in [Threads -> Range(COrder)] /\ cpc[t] = "func3" /\ t = Center
      /\ cpc' = [cpc EXCEPT ![t] = "reset3"]
      /\ reports' = Append(reports, (g_sum[Center] + g_sum[Leader]) % Word)
      /\ g_sum' = [p \in Parties |-> 0]
      /\ UNCHANGED <<spc, serverData_party>>
  BY DEF CFunc3, CGoto, Places, CenterOnly, serverVars, serverData
<1>2. reports = <<>>
  BY <1>1 DEF ReportOfSums, PastReport
<1>3. g_sum[Center] \in MaySum(Center) /\ g_sum[Leader] \in MaySum(Leader)
  BY Roles DEF SumsInHand, MaySum
<1>4. MaySum(Center)' = MaySum(Center) /\ MaySum(Leader)' = MaySum(Leader)
  BY <1>1 DEF MaySum, PartySum
<1> DEFINE total == (g_sum[Center] + g_sum[Leader]) % Word
<1>5. reports' = <<total>>
  <2> HIDE DEF total
  <2> QED
    BY <1>1, <1>2, Singles DEF total
<1>6. cpc'[Center] \in PastReport
  BY <1>1 DEF PastReport
<1>7. SumsInHand'
  BY <1>1 DEF SumsInHand
<1>8. ReportOfSums'
  BY <1>3, <1>4, <1>5, <1>6 DEF ReportOfSums
<1> QED
  BY <1>7, <1>8

\* Any other step of a client thread that is taken on: a sum may come in, or
\* a receive may have brought nothing.
LEMMA SumsComeIn ==
  ASSUME Places, SumsInHand, ReportOfSums, NEW t \in Threads, NEW to, ClientEdge(t, to),
         UNCHANGED <<spc, serverData_party, reports>>,
         \/ UNCHANGED g_sum
         \/ \E v \in MaySum(t) : /\ g_sum' = [g_sum EXCEPT ![t] = v]
                                 /\ v # 0 => spc[t] \in Replied
  PROVE  SumsInHand' /\ ReportOfSums'
<1>1. \A p \in Parties : MaySum(p)' = MaySum(p)
  BY DEF MaySum, PartySum
<1>2. SumsInHand'
  <2>1. CASE UNCHANGED g_sum
    BY <1>1, <2>1 DEF SumsInHand
  <2>2. ASSUME NEW v \in MaySum(t), g_sum' = [g_sum EXCEPT ![t] = v],
               v # 0 => spc[t] \in Replied
        PROVE  SumsInHand'
    <3>1. /\ g_sum' = [p \in Parties |-> g_sum'[p]]
          /\ \A p \in Parties : g_sum'[p] = IF p = t THEN v ELSE g_sum[p]
      BY <2>2 DEF SumsInHand
    <3> QED
      BY <1>1, <2>2, <3>1 DEF SumsInHand
  <2> QED
    BY <2>1, <2>2
<1>3. ReportOfSums'
  <2>1. cpc[Center] \in PastReport => cpc'[Center] \in PastReport
    BY Roles DEF Places, ClientEdge
  <2>2. MaySum(Center)' = MaySum(Center) /\ MaySum(Leader)' = MaySum(Leader)
    BY <1>1, Roles
  <2> QED
    BY <2>1, <2>2 DEF ReportOfSums
<1> QED
  BY <1>2, <1>3

\* Every step of a living client.
LEMMA ClientCrashData ==
  ASSUME CrashInvariant, CrashData, NEW t \in Threads, CrashClient(t)
  PROVE  \/ CrashData'
         \/ UNCHANGED vars /\ dead \subseteq dead'
<1>0. /\ Places /\ ClientRows /\ Alive("client")
      /\ ServerRows /\ Shares /\ UnderWay /\ SumsInHand /\ ReportOfSums
  BY DEF CrashInvariant, CrashData, CrashClient
<1>1. CASE CThrows(t)
  BY <1>1 DEF CThrows, Dies
<1>2. CASE (CRecvNothing(t) \/ CSciNothing(t)) /\ ~Alive("server")
  <2>1. UNCHANGED <<spc, serverVars, serverData_party, reports>>
    BY <1>2 DEF CRecvNothing, CSciNothing, serverVars, serverData, clientData
  <2>2. UNCHANGED g_sum \/ g_sum' = [g_sum EXCEPT ![t] = 0]
    BY <1>2 DEF CRecvNothing, CSciNothing, clientData
  <2>3. PICK to : ClientEdge(t, to)
    BY <1>0, <1>2, NothingEdges
  <2>4. SumsInHand' /\ ReportOfSums'
    <3>1. 0 \in MaySum(t)
      BY DEF MaySum
    <3> QED
      BY <1>0, <2>1, <2>2, <2>3, <3>1, SumsComeIn
  <2>5. UnderWay'
    BY <1>0, <1>2, NothingUnderWay
  <2>6. ServerRows' /\ Shares'
    BY <1>0, <2>1, ServerSideRests
  <2> QED
    BY <2>4, <2>5, <2>6 DEF CrashData
<1>3. CASE Client(t) /\ UNCHANGED dead
  <2>1. UNCHANGED serverVars /\ UNCHANGED <<spc, serverData_party>>
    BY <1>3 DEF Client, COprf1, CInc1, CWait1, CReset1, COprf2, CInc2, CWait2, CReset2,
       CSend, CRecv, CCount, CWait3, CFunc3, CSci, serverVars, serverData
  <2>2. ServerRows' /\ Shares' /\ UnderWay'
    BY <1>0, <1>3, <2>1, ServerSideRests, ClientUnderWay
  <2>3. PICK to : ClientEdge(t, to)
    BY <1>0, <1>3, ClientEdges
  <2>4. SumsInHand' /\ ReportOfSums'
    <3>1. CASE CRecv(t)
      <4>1. /\ t \in Parties /\ Expects(t) /\ down[t] # <<>> /\ UNCHANGED reports
            /\ g_sum' = [g_sum EXCEPT ![t] = Head(down[t]).body]
        BY <1>0, <3>1 DEF CRecv, CGoto, Places, PartyOnly, Expects
      <4>2. spc[t] \in Replied /\ Head(down[t]).body \in MaySum(t)
        BY <1>0, <4>1, GetsItsSum
      <4> QED
        BY <1>0, <2>1, <2>3, <4>1, <4>2, SumsComeIn
    <3>2. CASE CFunc3(t) /\ g_received_count = 2
      BY <1>0, <3>2, ReportsTwo
    <3>3. CASE ~CRecv(t) /\ ~(CFunc3(t) /\ g_received_count = 2)
      <4>1. UNCHANGED <<g_sum, reports>>
        BY <1>3, <3>3 DEF Client, COprf1, CInc1, CWait1, CReset1, COprf2, CInc2, CWait2,
           CReset2, CSend, CCount, CWait3, CFunc3, CSci, clientData
      <4> QED
        BY <1>0, <2>1, <2>3, <4>1, SumsComeIn
    <3> QED
      BY <3>1, <3>2, <3>3
  <2> QED
    BY <2>2, <2>4 DEF CrashData
<1> QED
  BY <1>1, <1>2, <1>3 DEF CrashClient
-----------------------------------------------------------------------------
(* All steps.                                                              *)

\* A process that ends changes nothing that was said.
LEMMA DyingCrashData ==
  ASSUME CrashData, UNCHANGED vars, dead \subseteq dead'
  PROVE  CrashData'
<1>1. /\ UNCHANGED serverVars
      /\ UNCHANGED <<cpc, spc, g_sum, reports, serverData_party, up, down>>
  BY DEF vars, clientVars, clientData, serverVars, serverData, netVars
<1>2. ServerRows' /\ Shares'
  BY <1>1, ServerSideRests DEF CrashData
<1>3. SumsInHand' /\ ReportOfSums'
  BY <1>1, HandStays DEF CrashData
<1>4. UnderWay'
  <2>1. ASSUME NEW p \in Parties
        PROVE  QueryUnderWay(p)' /\ SumUnderWay(p)'
    <3>1. QueryUnderWay(p) /\ SumUnderWay(p)
      BY DEF CrashData, UnderWay
    <3>2. MaySum(p)' = MaySum(p)
      BY <1>1 DEF MaySum, PartySum
    <3>3. (Alive("server")' => Alive("server")) /\ (Alive("client")' => Alive("client"))
      BY DEF Alive
    <3>4. QueryUnderWay(p)'
      BY <1>1, <3>1, <3>3 DEF QueryUnderWay, Asks, Expects, Queries
    <3>5. SumUnderWay(p)'
      BY <1>1, <3>1, <3>2, <3>3 DEF SumUnderWay, Asks, Expects, Answered
    <3> QED
      BY <3>4, <3>5
  <2> QED
    BY <1>1, <2>1 DEF CrashData, UnderWay
<1> QED
  BY <1>2, <1>3, <1>4 DEF CrashData

\* Nothing is on the way and nothing is reported before anything has run.
LEMMA InitCrashData == CrashInit => CrashData
<1> SUFFICES ASSUME Init PROVE CrashData
  BY DEF CrashInit
<1>1. ServerRows /\ Shares
  BY InitData DEF DataInvariant
<1>2. /\ \A p \in Parties : /\ p \in Threads /\ cpc[p] = "oprf1" /\ spc[p] = "oprf1"
                            /\ up[p] = <<>> /\ down[p] = <<>> /\ g_sum[p] = 0
      /\ DOMAIN up = Threads /\ DOMAIN down = Threads
      /\ g_sum = [p \in Parties |-> 0] /\ reports = <<>>
  BY Roles DEF Init
<1>3. UnderWay
  BY <1>2 DEF UnderWay, QueryUnderWay, SumUnderWay, Asks, AskLabels, Replied
<1>4. SumsInHand /\ ReportOfSums
  BY <1>2 DEF SumsInHand, ReportOfSums
<1> QED
  BY <1>1, <1>3, <1>4 DEF CrashData

\* With the first invariant it is inductive.
LEMMA NextCrashData ==
  CrashInvariant /\ CrashData /\ [CrashNext]_crashVars => CrashData'
<1> SUFFICES ASSUME CrashInvariant, CrashData, [CrashNext]_crashVars PROVE CrashData'
  OBVIOUS
<1>1. CASE UNCHANGED crashVars
  BY <1>1, DyingCrashData DEF crashVars
<1>2. ASSUME NEW t \in Threads, CrashClient(t)
      PROVE  CrashData'
  BY <1>2, ClientCrashData, DyingCrashData
<1>3. ASSUME NEW t \in Threads, CrashServer(t)
      PROVE  CrashData'
  BY <1>3, ServerCrashData, DyingCrashData
<1>4. ASSUME NEW p \in MayCrash, Crash(p)
      PROVE  CrashData'
  BY <1>4, DyingCrashData DEF Crash, Dies
<1> QED
  BY <1>1, <1>2, <1>3, <1>4 DEF CrashNext

\* So it holds in every state of a run in which processes go away.
LEMMA CrashDataInvariance == CrashSpec => []CrashData
BY InitCrashData, NextCrashData, CrashInvariance, PTL DEF CrashSpec

\* Sums over sets of parties.
LEMMA ShareSums ==
  ASSUME NEW S, IsFiniteSet(S)
  PROVE  MapThenSumSet(ShareSum, S) = SumFunctionOnSet([p \in S |-> ShareSum(p)], S)
<1> DEFINE h == [p \in S |-> ShareSum(p)]
           g == CHOOSE f : f = [s \in SUBSET S |->
                  IF s = {} THEN 0
                  ELSE ShareSum(CHOOSE x \in s : TRUE)
                         + f[s \ {CHOOSE x \in s : TRUE}]]
<1>1. MapThenSumSet(ShareSum, S) = g[S]
  BY DEF MapThenSumSet, MapThenFoldSet
<1>2. \A s \in SUBSET S : s # {} => h[Chosen(s)] = ShareSum(Chosen(s))
  BY ChosenIn
<1>3. IsFold(g, h, S)
  <2>1. PICK f : IsFold(f, h, S)
    BY FoldExists
  <2>2. f = [s \in SUBSET S |->
               IF s = {} THEN 0 ELSE h[Chosen(s)] + f[s \ {Chosen(s)}]]
    BY <2>1 DEF IsFold
  <2> HIDE DEF h
  <2>3. f = [s \in SUBSET S |->
               IF s = {} THEN 0 ELSE ShareSum(Chosen(s)) + f[s \ {Chosen(s)}]]
    BY <1>2, <2>2
  <2>4. g = [s \in SUBSET S |->
               IF s = {} THEN 0 ELSE ShareSum(Chosen(s)) + g[s \ {Chosen(s)}]]
    BY <2>3 DEF Chosen
  <2> HIDE DEF g
  <2>5. g = [s \in SUBSET S |->
               IF s = {} THEN 0 ELSE h[Chosen(s)] + g[s \ {Chosen(s)}]]
    BY <1>2, <2>4
  <2> QED
    BY <2>5 DEF IsFold
<1>4. PICK f : IsFold(f, h, S) /\ SumFunctionOnSet(h, S) = f[S]
  BY SumIsFold
<1> HIDE DEF h, g
<1>5. f[S] = g[S]
  BY <1>3, <1>4, FoldsAgree
<1> QED
  BY <1>1, <1>4, <1>5 DEF h

\* Sums of two at most.
LEMMA FewSums ==
  ASSUME NEW h, NEW a, NEW b, a # b, h[a] \in Int, h[b] \in Int
  PROVE  /\ SumFunctionOnSet(h, {}) = 0
         /\ SumFunctionOnSet(h, {a}) = h[a] /\ SumFunctionOnSet(h, {b}) = h[b]
         /\ SumFunctionOnSet(h, {a, b}) = h[a] + h[b]
<1>1. SumFunctionOnSet(h, {}) = 0
  BY SumEmpty
<1>2. ASSUME NEW x, h[x] \in Int
      PROVE  SumFunctionOnSet(h, {x}) = h[x]
  <2>1. IsFiniteSet({x}) /\ {x} \ {x} = {}
    BY FS_Singleton
  <2>2. SumFunctionOnSet(h, {x}) = h[x] + SumFunctionOnSet(h, {x} \ {x})
    BY <1>2, <2>1, SumTakes
  <2>3. SumFunctionOnSet(h, {x} \ {x}) = 0
    BY <1>1, <2>1, Zenon
  <2>4. \A i \in Int : i + 0 = i
    OBVIOUS
  <2> QED
    BY <1>2, <2>2, <2>3, <2>4, Zenon
<1>3. SumFunctionOnSet(h, {a, b}) = h[a] + h[b]
  <2>1. IsFiniteSet({a, b})
    <3>1. IsFiniteSet({a} \cup {b}) /\ {a} \cup {b} = {a, b}
      BY FS_Singleton, FS_AddElement
    <3> QED
      BY <3>1
  <2>2. {a, b} \ {a} = {b}
    OBVIOUS
  <2>3. SumFunctionOnSet(h, {a, b}) = h[a] + SumFunctionOnSet(h, {a, b} \ {a})
    BY <2>1, SumTakes
  <2> QED
    BY <1>2, <2>2, <2>3
<1> QED
  BY <1>1, <1>2, <1>3

\* A party's sum is that of all shares for it, or nothing was asked for.
LEMMA PartySumIs ==
  ASSUME SNELES >= N, Shares, \A t \in Threads : spc[t] \notin Unshared, NEW p \in Parties,
         PartySum(serverData_party, p) # 0
  PROVE  ShareSum(p) \in Int /\ PartySum(serverData_party, p) = ShareSum(p) % Word
<1> DEFINE h == [t \in Threads |-> serverData_party[p][t][QueryItem]]
<1>1. PartySum(serverData_party, p) = SumFunctionOnSet(h, Found) % Word
  BY DEF PartySum
<1>2. QueryItem \in 1..SNELES /\ Found = Threads
  <2>1. CASE QueryItem <= SNELES
    BY <2>1, ProtocolAssumption DEF Found, Threads
  <2>2. CASE ~(QueryItem <= SNELES)
    <3>1. Found = {}
      BY <2>2 DEF Found
    <3>2. SumFunctionOnSet(h, Found) = 0
      BY <3>1, SumEmpty
    <3>3. 0 % Word = 0
      BY Smpaq2Assumption
    <3> QED
      BY <1>1, <3>2, <3>3
  <2> QED
    BY <2>1, <2>2
<1>3. ASSUME NEW t \in Threads
      PROVE  h[t] \in Int
  <2>1. SharesOf(t, serverData_party[Center][t], serverData_party[Leader][t])
    BY DEF Shares
  <2>2. Payload[t][QueryItem] \in 0..Word-1 /\ Word \in Nat \ {0}
    BY <1>2, Smpaq2Assumption
  <2>3. /\ serverData_party[Center][t][QueryItem] \in 0..Word-1
        /\ serverData_party[Leader][t][QueryItem]
             = (Payload[t][QueryItem] - serverData_party[Center][t][QueryItem]) % Word
    BY <1>2, <2>1 DEF SharesOf
  <2>4. Payload[t][QueryItem] - serverData_party[Center][t][QueryItem] \in Int
    BY <2>2, <2>3
  <2>5. serverData_party[Leader][t][QueryItem] \in Int
    BY <2>2, <2>3, <2>4, ModuloTwice
  <2> QED
    BY <2>2, <2>3, <2>5 DEF Parties
<1>4. SumFunctionOnSet(h, Threads) \in Int
  <2> HIDE DEF h
  <2> QED
    BY <1>3, FiniteThreads, SumInt
<1>5. ShareSum(p) = SumAt(serverData_party[p], Threads)
  BY DEF ShareSum, SumAt
<1>6. SumAt(serverData_party[p], Threads) = SumFunctionOnSet(h, Threads)
  BY FiniteThreads, SumAtIs
<1> QED
  BY <1>1, <1>2, <1>4, <1>5, <1>6

\* What is reported comes from the sums of some of the parties.
LEMMA ReportsSome ==
  ASSUME SNELES >= N, CrashInvariant, CrashData
  PROVE  ReportsSomeShares
<1> SUFFICES ASSUME reports # <<>> PROVE ReportsSomeShares
  BY DEF ReportsSomeShares
<1>1. PICK a \in MaySum(Center), b \in MaySum(Leader) : reports = <<(a + b) % Word>>
  BY DEF CrashData, ReportOfSums
<1>2. \A t \in Threads : spc[t] \notin Unshared
  BY AllSharedAt, Roles DEF CrashInvariant, AskedLate, ReportedLate
<1>3. Word \in Nat \ {0} /\ Leader # Center /\ Parties = {Leader, Center} /\ Shares
  BY Smpaq2Assumption, Roles DEF Parties, CrashData
<1> DEFINE v == [p \in Parties |-> IF p = Center THEN a ELSE b]
           S == {p \in Parties : v[p] # 0}
           k == [p \in S |-> ShareSum(p)]
<1>4. ASSUME NEW p \in S
      PROVE  /\ v[p] \in Int /\ k[p] \in Int
             /\ v[p] % Word = k[p] % Word
  <2>1. v[p] = PartySum(serverData_party, p) /\ v[p] # 0
    BY <1>1, <1>3 DEF MaySum
  <2>2. k[p] \in Int /\ v[p] = k[p] % Word
    BY <1>2, <1>3, <2>1, PartySumIs
  <2> HIDE DEF v, k
  <2> QED
    BY <1>3, <2>2, ModuloTwice
<1>5. \A p \in Parties : v[p] \in Int
  <2>1. \A p \in Parties : v[p] = 0 \/ p \in S
    OBVIOUS
  <2> HIDE DEF S, v
  <2> QED
    BY <1>4, <2>1
<1>6. SumFunctionOnSet(v, S) = a + b
  <2>1. v[Center] = a /\ v[Leader] = b /\ a \in Int /\ b \in Int
    BY <1>3, <1>5
  <2>2. \/ S = {} /\ a = 0 /\ b = 0
        \/ S = {Center} /\ b = 0
        \/ S = {Leader} /\ a = 0
        \/ S = {Center, Leader}
    BY <1>3, <2>1
  <2> HIDE DEF v, S
  <2>3. /\ SumFunctionOnSet(v, {}) = 0
        /\ SumFunctionOnSet(v, {Center}) = a /\ SumFunctionOnSet(v, {Leader}) = b
        /\ SumFunctionOnSet(v, {Center, Leader}) = a + b
    BY <1>3, <2>1, FewSums
  <2>4. CASE S = {} /\ a = 0 /\ b = 0
    <3>1. 0 = 0 + 0
      OBVIOUS
    <3> QED
      BY <2>3, <2>4, <3>1, Zenon
  <2>5. CASE S = {Center} /\ b = 0
    <3>1. a = a + 0
      BY <2>1
    <3> QED
      BY <2>3, <2>5, <3>1, Zenon
  <2>6. CASE S = {Leader} /\ a = 0
    <3>1. b = 0 + b
      BY <2>1
    <3> QED
      BY <2>3, <2>6, <3>1, Zenon
  <2>7. CASE S = {Center, Leader}
    BY <2>3, <2>7, Zenon
  <2> QED
    BY <2>2, <2>4, <2>5, <2>6, <2>7
<1>7. IsFiniteSet(S)
  <2>1. IsFiniteSet(Parties)
    BY Roles, FiniteThreads, FS_Subset
  <2>2. S \subseteq Parties
    OBVIOUS
  <2> HIDE DEF S
  <2> QED
    BY <2>1, <2>2, FS_Subset
<1>8. MapThenSumSet(ShareSum, S) = SumFunctionOnSet(k, S)
  BY <1>7, ShareSums
<1>9. S \in SUBSET Parties
  OBVIOUS
<1> HIDE DEF v, k, S
<1>10. SumFunctionOnSet(v, S) % Word = SumFunctionOnSet(k, S) % Word
  BY <1>3, <1>4, <1>7, SumModulo
<1>11. (a + b) % Word = MapThenSumSet(ShareSum, S) % Word
  BY <1>6, <1>8, <1>10
<1>12. \A i \in DOMAIN reports : reports[i] = (a + b) % Word
  BY <1>1
<1> QED
  BY <1>9, <1>11, <1>12 DEF ReportsSomeShares

\* However and whenever the processes end, a total that the client prints is the
\* sum of the shares that the servers made for the center, for the leader, for
\* both or for neither: a party whose server is gone counts as 0, and nobody's
\* sum is of part of the shares.  It needs as many elements as servers, because
\* the second PRF gives no more rows than there are elements.
THEOREM SomeShares ==
  ASSUME SNELES >= N
  PROVE  CrashSpec => []ReportsSomeShares
<1>1. CrashInvariant /\ CrashData => ReportsSomeShares
  BY ReportsSome
<1> QED
  BY <1>1, CrashInvariance, CrashDataInvariance, PTL
=============================================================================
