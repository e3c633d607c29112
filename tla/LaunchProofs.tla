---------------------------- MODULE LaunchProofs ----------------------------
(***************************************************************************)
(* Proofs about Launch, for any number of threads.                         *)
(***************************************************************************)
EXTENDS Launch, SequenceTheorems, FiniteSetTheorems, TLAPS

\* Each index is the index of exactly one thread.
Permutes(o) == /\ o \in [Slots -> Indices]
               /\ \A i, j \in Slots : o[i] = o[j] => i = j
               /\ \A x \in Indices : \E i \in Slots : o[i] = x
-----------------------------------------------------------------------------
(* The order of the server's threads.                                      *)

\* What vector::insert does at a position up to the end: t is s with e at p.
Inserted(t, s, p, e) == /\ Len(t) = Len(s) + 1
                        /\ \A j \in 1..p-1 : t[j] = s[j]
                        /\ t[p] = e
                        /\ \A j \in p+1..Len(s)+1 : t[j] = s[j-1]

LEMMA InsertAtProperties ==
  ASSUME NEW S, NEW s \in Seq(S), NEW e \in S, NEW p \in 1..Len(s)+1
  PROVE  InsertAt(s, p, e) \in Seq(S) /\ Inserted(InsertAt(s, p, e), s, p, e)
<1> DEFINE a == SubSeq(s, 1, p-1)
           b == a \o <<e>>
           c == SubSeq(s, p, Len(s))
           t == b \o c
<1>1. Len(s) \in Nat /\ p \in Nat /\ \A i \in 1..Len(s) : s[i] \in S
  BY ElementOfSeq
<1>2. a \in Seq(S) /\ Len(a) = p-1 /\ \A i \in 1..p-1 : a[i] = s[i]
  <2>1. \A i \in 1..p-1 : s[i] \in S
    BY <1>1
  <2>2. /\ SubSeq(s, 1, p-1) \in Seq(S)
        /\ Len(SubSeq(s, 1, p-1)) = IF 1 <= p-1 THEN (p-1)-1+1 ELSE 0
        /\ \A i \in 1..(p-1)-1+1 : SubSeq(s, 1, p-1)[i] = s[1+i-1]
    BY <1>1, <2>1, SubSeqProperties
  <2>. QED
    BY <1>1, <2>2
<1>3. c \in Seq(S) /\ Len(c) = Len(s)-p+1 /\ \A i \in 1..Len(s)-p+1 : c[i] = s[p+i-1]
  <2>1. \A i \in p..Len(s) : s[i] \in S
    BY <1>1
  <2>2. /\ SubSeq(s, p, Len(s)) \in Seq(S)
        /\ Len(SubSeq(s, p, Len(s))) = IF p <= Len(s) THEN Len(s)-p+1 ELSE 0
        /\ \A i \in 1..Len(s)-p+1 : SubSeq(s, p, Len(s))[i] = s[p+i-1]
    BY <1>1, <2>1, SubSeqProperties
  <2>. QED
    BY <1>1, <2>2
<1>4. <<e>> \in Seq(S) /\ Len(<<e>>) = 1 /\ <<e>>[1] = e
  OBVIOUS
<1> HIDE DEF a, c
<1>5. b \in Seq(S) /\ Len(b) = p /\ b[p] = e /\ \A i \in 1..p-1 : b[i] = s[i]
  <2>1. /\ b \in Seq(S) /\ Len(b) = Len(a) + 1
        /\ \A i \in 1..Len(a)+1 :
             b[i] = IF i <= Len(a) THEN a[i] ELSE <<e>>[i - Len(a)]
    BY <1>2, <1>4, ConcatProperties
  <2>2. Len(a)+1 = p
    BY <1>1, <1>2
  <2>3. ASSUME NEW i \in 1..p-1 PROVE b[i] = s[i]
    <3>1. i <= Len(a) /\ i \in 1..Len(a)+1
      BY <1>1, <1>2
    <3>. QED
      BY <1>2, <2>1, <3>1
  <2>4. b[p] = e
    <3>1. p \in 1..Len(a)+1 /\ ~(p <= Len(a)) /\ p - Len(a) = 1
      BY <1>1, <1>2
    <3>2. b[p] = <<e>>[p - Len(a)]
      BY <2>1, <3>1
    <3>. QED
      BY <1>4, <3>1, <3>2
  <2>. QED
    BY <2>1, <2>2, <2>3, <2>4
<1> HIDE DEF b
<1>6. /\ t \in Seq(S)
      /\ Len(t) = Len(b) + Len(c)
      /\ \A i \in 1..Len(b)+Len(c) :
           t[i] = IF i <= Len(b) THEN b[i] ELSE c[i - Len(b)]
  BY <1>3, <1>5, ConcatProperties
<1>7. InsertAt(s, p, e) = t
  BY DEF InsertAt, a, b, c
<1> HIDE DEF t
<1>8. Len(t) = Len(s) + 1
  BY <1>1, <1>3, <1>5, <1>6
<1>9. ASSUME NEW j \in 1..p PROVE t[j] = b[j]
  <2>1. j <= Len(b) /\ j \in 1..Len(b)+Len(c)
    BY <1>1, <1>3, <1>5
  <2>. QED
    BY <1>6, <2>1
<1>10. ASSUME NEW j \in p+1..Len(s)+1 PROVE t[j] = s[j-1]
  <2>1. /\ j - p \in 1..Len(s)-p+1 /\ p + (j - p) - 1 = j - 1
        /\ ~(j <= Len(b)) /\ j \in 1..Len(b)+Len(c)
    BY <1>1, <1>3, <1>5
  <2>2. t[j] = c[j - p]
    BY <1>5, <1>6, <2>1
  <2>3. c[j - p] = s[p + (j - p) - 1]
    BY <1>3, <2>1
  <2>. QED
    BY <2>1, <2>2, <2>3
<1>11. \A j \in 1..p-1 : t[j] = s[j]
  BY <1>1, <1>5, <1>9
<1>12. t[p] = e
  BY <1>1, <1>5, <1>9
<1>. QED
  BY <1>6, <1>7, <1>8, <1>10, <1>11, <1>12 DEF Inserted

\* The second insertion makes an order of the threads.
LEMMA CenterInserted ==
  ASSUME NEW o \in Seq(Indices \cup {Stray}), Len(o) = N-1, NEW p \in 1..N
  PROVE  /\ InsertAt(o, p, Center) \in [Slots -> Indices \cup {Stray}]
         /\ InsertAt(o, p, Center) # <<>>
         /\ Inserted(InsertAt(o, p, Center), o, p, Center)
<1>1. Center \in Indices \cup {Stray} /\ p \in 1..Len(o)+1
  BY LaunchAssumption DEF Center, Indices
<1>2. /\ InsertAt(o, p, Center) \in Seq(Indices \cup {Stray})
      /\ Inserted(InsertAt(o, p, Center), o, p, Center)
  BY <1>1, InsertAtProperties
<1>3. Len(InsertAt(o, p, Center)) = N
  BY <1>2, LaunchAssumption DEF Inserted
<1>4. InsertAt(o, p, Center) \in [1..N -> Indices \cup {Stray}]
  BY <1>2, <1>3, LenProperties
<1>5. InsertAt(o, p, Center) # <<>>
  BY <1>2, <1>3, LaunchAssumption, EmptySeq
<1>. QED
  BY <1>2, <1>4, <1>5 DEF Slots

LEMMA CenterPermutes ==
  ASSUME NEW o \in Seq(Indices \cup {Stray}), Len(o) = N-1, NEW p \in 1..N,
         \A i \in 1..N-1 : o[i] \in 0..N-2,
         \A i, j \in 1..N-1 : o[i] = o[j] => i = j,
         \A x \in 0..N-2 : \E i \in 1..N-1 : o[i] = x
  PROVE  Permutes(InsertAt(o, p, Center))
<1> DEFINE r == InsertAt(o, p, Center)
           h(k) == IF k < p THEN k ELSE k-1
<1>1. r \in [Slots -> Indices \cup {Stray}] /\ Inserted(r, o, p, Center)
  BY CenterInserted
<1> HIDE DEF r
<1>2. N \in Nat /\ N >= 2 /\ Slots = 1..N /\ Indices = 0..N-1 /\ Center = N-1
  BY LaunchAssumption DEF Slots, Indices, Center
<1>3. p \in Slots /\ r[p] = N-1
  BY <1>1, <1>2 DEF Inserted
<1>4. ASSUME NEW k \in Slots, k # p
      PROVE  h(k) \in 1..N-1 /\ r[k] = o[h(k)] /\ r[k] \in 0..N-2
  <2>1. h(k) \in 1..N-1
    BY <1>2, <1>4
  <2>2. CASE k < p
    <3>1. k \in 1..p-1
      BY <1>2, <2>2
    <3>2. r[k] = o[k]
      BY <1>1, <3>1 DEF Inserted
    <3>. QED
      BY <2>1, <2>2, <3>2
  <2>3. CASE k > p
    <3>1. k \in p+1..Len(o)+1
      BY <1>2, <2>3
    <3>2. r[k] = o[k-1]
      BY <1>1, <3>1 DEF Inserted
    <3>3. h(k) = k-1
      BY <1>2, <2>3
    <3>. QED
      BY <2>1, <3>2, <3>3
  <2>. QED
    BY <1>2, <1>4, <2>2, <2>3
<1>. HIDE DEF h
<1>7. r \in [Slots -> Indices]
  <2>1. ASSUME NEW i \in Slots PROVE r[i] \in Indices
    BY <1>2, <1>3, <1>4
  <2>. QED
    BY <1>1, <2>1
<1>8. ASSUME NEW i \in Slots, NEW j \in Slots, r[i] = r[j] PROVE i = j
  <2>1. CASE i # p /\ j # p
    <3>1. h(i) = h(j)
      BY <1>4, <1>8, <2>1
    <3>. QED
      BY <1>2, <2>1, <3>1 DEF h
  <2>2. CASE i = p \/ j = p
    BY <1>2, <1>3, <1>4, <1>8, <2>2
  <2>. QED
    BY <2>1, <2>2
<1>9. ASSUME NEW x \in Indices PROVE \E i \in Slots : r[i] = x
  <2>1. CASE x = N-1
    BY <1>3, <2>1
  <2>2. CASE x # N-1
    <3>1. PICK k \in 1..N-1 : o[k] = x
      BY <1>2, <2>2
    <3>2. CASE k < p
      <4>1. k \in Slots /\ k # p /\ h(k) = k
        BY <1>2, <3>2 DEF h
      <4>. QED
        BY <1>4, <3>1, <4>1
    <3>3. CASE k >= p
      <4>1. k+1 \in Slots /\ k+1 # p /\ h(k+1) = k
        BY <1>2, <3>3 DEF h
      <4>. QED
        BY <1>4, <3>1, <4>1
    <3>. QED
      BY <1>2, <3>2, <3>3
  <2>. QED
    BY <2>1, <2>2
<1>. QED
  BY <1>7, <1>8, <1>9 DEF Permutes, r

LEMMA MiddleIs ==
  /\ Middle \in Seq(Indices \cup {Stray}) /\ Len(Middle) = N-2
  /\ \A i \in 1..N-2 : Middle[i] = i
BY LaunchAssumption DEF Middle, Indices

\* An order that main makes has all the indices, or it lacks the leader's.
LEMMA OrdersOk ==
  ASSUME NEW d \in Draws, NEW o \in ServerOrders(d)
  PROVE  /\ o \in [Slots -> Indices \cup {Stray}] /\ o # <<>>
         /\ (\E i \in Slots : o[i] = Leader) => Permutes(o)
<1>1. N \in Nat /\ N >= 2 /\ Slots = 1..N /\ Indices = 0..N-1 /\ Center = N-1 /\ Leader = 0
  BY LaunchAssumption DEF Slots, Indices, Center, Leader
<1>2. d[1] \in Indices /\ d[2] \in Indices /\ d[1]+1 \in 1..N /\ d[2]+1 \in 1..N
  BY <1>1 DEF Draws
<1>3. CASE d[1] # N-1
  <2> DEFINE m == InsertAt(Middle, d[1]+1, Leader)
  <2>1. o = InsertAt(m, d[2]+1, Center)
    BY <1>3 DEF ServerOrders
  <2>2. d[1]+1 \in 1..Len(Middle)+1 /\ Leader \in Indices \cup {Stray}
    BY <1>1, <1>2, <1>3, MiddleIs
  <2>3. m \in Seq(Indices \cup {Stray}) /\ Inserted(m, Middle, d[1]+1, Leader)
    BY <2>2, MiddleIs, InsertAtProperties
  <2> HIDE DEF m
  <2>4. /\ Len(m) = N-1 /\ m[d[1]+1] = 0
        /\ \A j \in 1..d[1] : m[j] = j
        /\ \A j \in d[1]+2..N-1 : m[j] = j-1
    <3>1. Len(m) = N-1 /\ m[d[1]+1] = 0
      BY <1>1, <2>3, MiddleIs DEF Inserted
    <3>2. ASSUME NEW j \in 1..d[1] PROVE m[j] = j
      <4>1. j \in 1..N-2 /\ j \in 1..(d[1]+1)-1
        BY <1>1, <1>2, <1>3
      <4>. QED
        BY <2>3, <4>1, MiddleIs DEF Inserted
    <3>3. ASSUME NEW j \in d[1]+2..N-1 PROVE m[j] = j-1
      <4>1. j-1 \in 1..N-2 /\ j \in (d[1]+1)+1..Len(Middle)+1
        BY <1>1, <1>2, <1>3, MiddleIs
      <4>. QED
        BY <2>3, <4>1, MiddleIs DEF Inserted
    <3>. QED
      BY <3>1, <3>2, <3>3
  <2>5. ASSUME NEW j \in 1..N-1
        PROVE  \/ j \in 1..d[1] /\ m[j] = j
               \/ j = d[1]+1 /\ m[j] = 0
               \/ j \in d[1]+2..N-1 /\ m[j] = j-1
    <3>1. j \in 1..d[1] \/ j = d[1]+1 \/ j \in d[1]+2..N-1
      BY <1>1, <1>2
    <3>. QED
      BY <2>4, <3>1
  <2>6. /\ \A j \in 1..N-1 : m[j] \in 0..N-2
        /\ \A i, j \in 1..N-1 : m[i] = m[j] => i = j
    <3>1. ASSUME NEW j \in 1..N-1 PROVE m[j] \in 0..N-2
      BY <1>1, <1>2, <1>3, <2>5
    <3>2. ASSUME NEW i \in 1..N-1, NEW j \in 1..N-1, m[i] = m[j] PROVE i = j
      <4>1. \/ i \in 1..d[1] /\ m[i] = i
            \/ i = d[1]+1 /\ m[i] = 0
            \/ i \in d[1]+2..N-1 /\ m[i] = i-1
        BY <2>5
      <4>2. \/ j \in 1..d[1] /\ m[j] = j
            \/ j = d[1]+1 /\ m[j] = 0
            \/ j \in d[1]+2..N-1 /\ m[j] = j-1
        BY <2>5
      <4> DEFINE x == m[i]
      <4>3. m[i] = x /\ m[j] = x
        BY <3>2
      <4> HIDE DEF x
      <4>. QED
        BY <1>1, <1>2, <4>1, <4>2, <4>3
    <3>. QED
      BY <3>1, <3>2
  <2>7. ASSUME NEW x \in 0..N-2 PROVE \E i \in 1..N-1 : m[i] = x
    <3>1. CASE x = 0
      <4>1. d[1]+1 \in 1..N-1
        BY <1>1, <1>2, <1>3
      <4>. QED
        BY <2>4, <3>1, <4>1
    <3>2. CASE x \in 1..d[1]
      BY <1>1, <2>4, <3>2
    <3>3. CASE x >= d[1]+1
      <4>1. x+1 \in d[1]+2..N-1 /\ x+1 \in 1..N-1 /\ (x+1)-1 = x
        BY <1>1, <1>2, <3>3
      <4>. QED
        BY <2>4, <4>1
    <3>. QED
      BY <1>1, <1>2, <3>1, <3>2, <3>3
  <2>8. Permutes(o)
    BY <1>2, <2>1, <2>3, <2>4, <2>6, <2>7, CenterPermutes DEF m
  <2>. QED
    BY <1>2, <2>1, <2>3, <2>4, <2>8, CenterInserted DEF m
<1>4. CASE d[1] = N-1
  <2>1. PICK x \in Indices \cup {Stray} : o = InsertAt(Append(Middle, x), d[2]+1, Center)
    BY <1>4 DEF ServerOrders
  <2> DEFINE m == Append(Middle, x)
  <2>2. /\ m \in Seq(Indices \cup {Stray}) /\ Len(m) = N-1
        /\ \A i \in 1..N-2 : m[i] = i
        /\ m[N-1] = x
    BY <1>1, MiddleIs, AppendProperties
  <2> HIDE DEF m
  <2>3. o = InsertAt(m, d[2]+1, Center)
    BY <2>1 DEF m
  <2>4. CASE x = 0
    <3>1. \A j \in 1..N-1 : m[j] \in 0..N-2
      BY <1>1, <2>2, <2>4
    <3>2. \A i, j \in 1..N-1 : m[i] = m[j] => i = j
      BY <1>1, <2>2, <2>4
    <3>3. \A y \in 0..N-2 : \E i \in 1..N-1 : m[i] = y
      BY <1>1, <2>2, <2>4
    <3>4. Permutes(o)
      BY <1>2, <2>2, <2>3, <3>1, <3>2, <3>3, CenterPermutes
    <3>. QED
      BY <1>2, <2>2, <2>3, <3>4, CenterInserted
  <2>5. CASE x # 0
    <3>1. \A j \in 1..N-1 : m[j] # 0
      BY <1>1, <2>2, <2>5
    <3>2. /\ o \in [Slots -> Indices \cup {Stray}] /\ o # <<>>
          /\ Inserted(o, m, d[2]+1, Center)
      BY <1>2, <2>2, <2>3, CenterInserted
    <3>3. ASSUME NEW i \in Slots PROVE o[i] # 0
      <4>1. i = d[2]+1 \/ i \in 1..(d[2]+1)-1 \/ i \in (d[2]+1)+1..Len(m)+1
        BY <1>1, <1>2, <2>2
      <4>2. CASE i = d[2]+1
        BY <1>1, <3>2, <4>2 DEF Inserted
      <4>3. CASE i \in 1..(d[2]+1)-1
        <5>1. i \in 1..N-1
          BY <1>1, <1>2, <4>3
        <5>. QED
          BY <3>1, <3>2, <4>3, <5>1 DEF Inserted
      <4>4. CASE i \in (d[2]+1)+1..Len(m)+1
        <5>1. i-1 \in 1..N-1
          BY <1>1, <1>2, <2>2, <4>4
        <5>. QED
          BY <3>1, <3>2, <4>4, <5>1 DEF Inserted
      <4>. QED
        BY <4>1, <4>2, <4>3, <4>4
    <3>. QED
      BY <1>1, <3>2, <3>3
  <2>. QED
    BY <2>4, <2>5
<1>. QED
  BY <1>3, <1>4
-----------------------------------------------------------------------------
(* The inductive invariant.                                                *)

Arr(r)        == {i \in Slots : Arrived(r, i)}
AllArrived(r) == \A i \in Slots : Arrived(r, i)
LeaderRuns(r) == \E i \in Slots : InRun(r, i) /\ index(r, i) = Leader

OrderOk ==
  /\ order["client"] = [i \in Slots |-> i-1]
  /\ order["server"] # <<>> /\ (\E i \in Slots : index("server", i) = Leader)
       => Permutes(order["server"])
  /\ order["server"] = <<>> => \A i \in Slots : pc["server"][i] = "none"

\* flagOfWait counts the arrivals until a leader has reset it; nobody is past
\* the wait before all have arrived.
SiteOk(r) ==
  /\ ~LeaderRuns(r) => flagOfWait[r] = Cardinality(Arr(r))
  /\ \A i \in Slots : pc[r][i] = "reset" => index(r, i) = Leader /\ AllArrived(r)
  /\ \A i \in Slots : InRun(r, i) => AllArrived(r) /\ LeaderRuns(r)

\* A connected thread has a peer with its index.
Peer(r, q) == \A i \in Slots : Connected(r, i) =>
                \E j \in Slots : Connected(q, j) /\ index(q, j) = index(r, i)
PeersOk == Peer("client", "server") /\ Peer("server", "client")

\* Why a process has ended early.
FateOk ==
  /\ fate["server"] = "killed" => order["server"] = <<>>
  /\ fate["server"] = "aborted" =>
       /\ order["server"] # <<>>
       /\ \E i, j \in Slots : i # j /\ index("server", i) = index("server", j)
  /\ fate["client"] = "aborted" => \E i \in Slots : pc["client"][i] = "socket"
  /\ fate["client"] # "killed"

LaunchInv == /\ TypeOK /\ OrderOk
             /\ SiteOk("client") /\ SiteOk("server")
             /\ PeersOk /\ FateOk
-----------------------------------------------------------------------------
(* What the invariant is for.                                              *)

LEMMA Size == /\ N \in Nat /\ N >= 2 /\ Slots = 1..N /\ Indices = 0..N-1
              /\ Leader = 0 /\ Leader \in Indices
              /\ IsFiniteSet(Slots) /\ Cardinality(Slots) = N
<1>1. IsFiniteSet(1..N) /\ Cardinality(1..N) = N
  BY LaunchAssumption, FS_Interval
<1>. QED
  BY <1>1, LaunchAssumption DEF Slots, Indices, Leader

\* A process with a thread in the protocol has all its threads connected, and
\* all indices among them; so has the other process.
LEMMA AllIn ==
  ASSUME LaunchInv, NEW r \in Roles, NEW i \in Slots, InRun(r, i)
  PROVE  /\ AllArrived(r) /\ Permutes(order[r])
         /\ \A q \in Roles : Where(q, Connected) = Indices
<1>1. r = "client" \/ r = "server"
  BY DEF Roles
<1>2. AllArrived(r) /\ LeaderRuns(r)
  BY <1>1 DEF LaunchInv, SiteOk
<1>3. Permutes(order[r])
  <2>1. CASE r = "client"
    <3>1. order[r] = [j \in Slots |-> j-1]
      BY <2>1 DEF LaunchInv, OrderOk
    <3>2. order[r] \in [Slots -> Indices]
      BY <3>1, Size
    <3>3. \A j, k \in Slots : order[r][j] = order[r][k] => j = k
      BY <3>1, Size
    <3>4. ASSUME NEW x \in Indices PROVE \E j \in Slots : order[r][j] = x
      <4>1. x+1 \in Slots /\ (x+1)-1 = x
        BY Size
      <4>. QED
        BY <3>1, <4>1
    <3>. QED
      BY <3>2, <3>3, <3>4 DEF Permutes
  <2>2. CASE r = "server"
    <3>1. \E j \in Slots : index("server", j) = Leader
      BY <1>2, <2>2 DEF LeaderRuns
    <3>2. order["server"] # <<>>
      BY <2>2 DEF LaunchInv, OrderOk, InRun
    <3>. QED
      BY <2>2, <3>1, <3>2 DEF LaunchInv, OrderOk
  <2>. QED
    BY <1>1, <2>1, <2>2
<1>4. ASSUME NEW x \in Indices
      PROVE  \E j \in Slots : Connected(r, j) /\ index(r, j) = x
  <2>1. PICK j \in Slots : order[r][j] = x
    BY <1>3 DEF Permutes
  <2>. QED
    BY <1>2, <2>1 DEF AllArrived, Connected, index
<1>5. ASSUME NEW q \in Roles, NEW x \in Indices
      PROVE  \E j \in Slots : Connected(q, j) /\ index(q, j) = x
  <2>1. PICK j \in Slots : Connected(r, j) /\ index(r, j) = x
    BY <1>4
  <2>2. CASE q = r
    BY <2>1, <2>2
  <2>3. CASE q # r
    <3>1. Peer(r, q)
      BY <1>1, <2>3 DEF LaunchInv, PeersOk, Roles
    <3>. QED
      BY <2>1, <3>1 DEF Peer
  <2>. QED
    BY <2>2, <2>3
<1>. QED
  BY <1>2, <1>3, <1>5 DEF Where

LEMMA InvRunsTogether == LaunchInv => RunsTogether
BY AllIn DEF RunsTogether

\* A client thread that is still at its socket keeps everybody out.
LEMMA NobodyIn ==
  ASSUME LaunchInv, NEW i \in Slots, pc["client"][i] = "socket"
  PROVE  \A r \in Roles, j \in Slots : ~InRun(r, j)
<1> SUFFICES ASSUME NEW r \in Roles, NEW j \in Slots, InRun(r, j)
             PROVE  FALSE
  OBVIOUS
<1>1. Where("client", Connected) = Indices
  BY AllIn DEF Roles
<1>2. order["client"] = [k \in Slots |-> k-1]
  BY DEF LaunchInv, OrderOk
<1>3. i-1 \in Indices
  BY Size
<1>4. PICK k \in Slots : Connected("client", k) /\ index("client", k) = i-1
  BY <1>1, <1>3 DEF Where
<1>5. k = i
  BY <1>2, <1>4, Size DEF index
<1>. QED
  BY <1>4, <1>5 DEF Connected, Arrived

LEMMA InvAllOrNothing == LaunchInv => AllOrNothing
<1> SUFFICES ASSUME LaunchInv,
                    NEW q \in Roles, fate[q] \in {"killed", "aborted"},
                    NEW r \in Roles, NEW i \in Slots, InRun(r, i)
             PROVE  FALSE
  BY DEF AllOrNothing
<1>1. CASE q = "client"
  <2>1. PICK j \in Slots : pc["client"][j] = "socket"
    BY <1>1 DEF LaunchInv, FateOk
  <2>. QED
    BY <2>1, NobodyIn
<1>2. CASE q = "server"
  <2>1. Where("server", Connected) = Indices
    BY AllIn DEF Roles
  <2>2. PICK j \in Slots : Connected("server", j) /\ index("server", j) = Leader
    BY <2>1, Size DEF Where
  <2>3. order["server"] # <<>>
    BY <2>2 DEF LaunchInv, OrderOk, Connected, Arrived
  <2>4. Permutes(order["server"])
    BY <2>2, <2>3 DEF LaunchInv, OrderOk
  <2>. QED
    BY <1>2, <2>3, <2>4 DEF LaunchInv, FateOk, Permutes, index
<1>. QED
  BY <1>1, <1>2 DEF Roles
-----------------------------------------------------------------------------
(* The steps.                                                              *)

LEMMA LaunchInit == Init => LaunchInv
<1> SUFFICES ASSUME Init
             PROVE  LaunchInv
  OBVIOUS
<1>1. \A r \in Roles, i \in Slots : pc[r][i] = "none"
  BY DEF Init
<1>2. \A r \in Roles, i \in Slots : ~Arrived(r, i) /\ ~Connected(r, i) /\ ~InRun(r, i)
  BY <1>1 DEF Arrived, Connected, InRun
<1>3. \A r \in Roles : Arr(r) = {}
  BY <1>2 DEF Arr
<1>4. \A r \in Roles : flagOfWait[r] = Cardinality(Arr(r))
  BY <1>3, FS_EmptySet DEF Init
<1>5. SiteOk("client") /\ SiteOk("server")
  BY <1>1, <1>2, <1>4 DEF SiteOk, Roles
<1>6. PeersOk
  BY <1>2 DEF PeersOk, Peer, Roles
<1>7. FateOk
  BY DEF Init, FateOk, Roles
<1>8. OrderOk
  BY DEF Init, OrderOk, Roles
<1>9. TypeOK
  <2>1. [i \in Slots |-> i-1] \in [Slots -> Indices \cup {Stray}]
    BY Size
  <2>2. order \in [Roles -> {<<>>} \cup [Slots -> Indices \cup {Stray}]]
    BY <2>1 DEF Init
  <2>. QED
    BY <2>2, Size DEF Init, TypeOK, Labels
<1>. QED
  BY <1>5, <1>6, <1>7, <1>8, <1>9 DEF LaunchInv

\* A thread of r goes from one label to another; all others stay.
Moves(r, i, from, to) ==
  /\ Running(r) /\ pc[r][i] = from /\ pc'[r][i] = to
  /\ \A q \in Roles, j \in Slots : q # r \/ j # i => pc'[q][j] = pc[q][j]
  /\ pc' \in [Roles -> [Slots -> Labels]]

LEMMA GotoMoves ==
  ASSUME TypeOK, NEW r \in Roles, NEW i \in Slots, NEW from, NEW to \in Labels,
         Goto(r, i, from, to)
  PROVE  Moves(r, i, from, to)
<1>1. pc \in [Roles -> [Slots -> Labels]]
  BY DEF TypeOK
<1>2. pc' = [pc EXCEPT ![r][i] = to]
  BY DEF Goto
<1>. QED
  BY <1>1, <1>2 DEF Goto, Moves

\* What a step leaves alone if no thread passes a label that it speaks of.
LEMMA SiteKept ==
  ASSUME NEW r \in Roles, SiteOk(r),
         UNCHANGED order, flagOfWait'[r] = flagOfWait[r],
         \A i \in Slots : /\ Arrived(r, i)' <=> Arrived(r, i)
                          /\ InRun(r, i)' <=> InRun(r, i)
                          /\ pc'[r][i] = "reset" <=> pc[r][i] = "reset"
  PROVE  SiteOk(r)'
<1>1. Arr(r)' = Arr(r)
  BY DEF Arr
<1>2. LeaderRuns(r)' <=> LeaderRuns(r)
  BY DEF LeaderRuns, index
<1>3. AllArrived(r)' <=> AllArrived(r)
  BY DEF AllArrived
<1>. QED
  BY <1>1, <1>2, <1>3 DEF SiteOk, index

LEMMA PeersKept ==
  ASSUME PeersOk, UNCHANGED order,
         \A r \in Roles, i \in Slots : Connected(r, i)' <=> Connected(r, i)
  PROVE  PeersOk'
BY DEF PeersOk, Peer, index, Roles

LEMMA FateKept ==
  ASSUME LaunchInv, UNCHANGED <<order, fate>>,
         \A i \in Slots : ~Running("client") => pc'["client"][i] = pc["client"][i]
  PROVE  FateOk'
BY DEF LaunchInv, FateOk, Running, index

\* The labels of a connected thread and of one that has been counted.
ArrivedAt   == {"wait", "reset", "run", "add", "done"}
ConnectedAt == {"taken", "count"} \cup ArrivedAt

\* What is left to show for a move between two labels that are both those of
\* a connected thread, or both not.
LEMMA MoveStep ==
  ASSUME LaunchInv, NEW r \in Roles, NEW i \in Slots, NEW from, NEW to,
         Moves(r, i, from, to), UNCHANGED <<order, fate>>,
         order[r] # <<>>,
         from \in ConnectedAt <=> to \in ConnectedAt,
         \A q \in Roles : q # r => flagOfWait'[q] = flagOfWait[q],
         SiteOk(r)', TypeOK'
  PROVE  LaunchInv'
<1>1. OrderOk'
  BY DEF LaunchInv, OrderOk, Moves, index, Roles
<1>2. FateOk'
  BY FateKept DEF Moves, Roles, Running
<1>3. PeersOk'
  <2>1. \A q \in Roles, j \in Slots : Connected(q, j)' <=> Connected(q, j)
    BY DEF Moves, Connected, Arrived, ConnectedAt, ArrivedAt
  <2>. QED
    BY <2>1, PeersKept DEF LaunchInv
<1>4. ASSUME NEW q \in Roles, q # r PROVE SiteOk(q)'
  <2>1. SiteOk(q)
    BY DEF LaunchInv, Roles
  <2>2. \A j \in Slots : /\ Arrived(q, j)' <=> Arrived(q, j)
                         /\ InRun(q, j)' <=> InRun(q, j)
                         /\ pc'[q][j] = "reset" <=> pc[q][j] = "reset"
    BY <1>4 DEF Moves, Arrived, InRun
  <2>. QED
    BY <1>4, <2>1, <2>2, SiteKept
<1>5. SiteOk("client")' /\ SiteOk("server")'
  <2>1. \A q \in Roles : SiteOk(q)'
    BY <1>4
  <2>. QED
    BY <2>1 DEF Roles
<1>. QED
  BY <1>1, <1>2, <1>3, <1>5 DEF LaunchInv

\* A move that does not concern the site.
LEMMA MoveOutside ==
  ASSUME LaunchInv, NEW r \in Roles, NEW i \in Slots, NEW from, NEW to,
         Moves(r, i, from, to), UNCHANGED <<order, flagOfWait>>,
         \/ from \notin ArrivedAt /\ to \notin ArrivedAt
         \/ {from, to} \subseteq {"run", "add", "done"}
  PROVE  SiteOk(r)'
<1>1. SiteOk(r)
  BY DEF LaunchInv, Roles
<1>2. \A j \in Slots : /\ Arrived(r, j)' <=> Arrived(r, j)
                       /\ InRun(r, j)' <=> InRun(r, j)
                       /\ pc'[r][j] = "reset" <=> pc[r][j] = "reset"
  BY DEF Moves, Arrived, InRun, ArrivedAt
<1>. QED
  BY <1>1, <1>2, SiteKept

\* Past the start of a thread its process has an order.
LEMMA Drawn ==
  ASSUME LaunchInv, NEW r \in Roles, NEW i \in Slots, pc[r][i] # "none"
  PROVE  order[r] # <<>>
<1>1. CASE r = "server"
  BY <1>1 DEF LaunchInv, OrderOk
<1>2. CASE r = "client"
  <2>1. order[r] = [j \in Slots |-> j-1]
    BY <1>2 DEF LaunchInv, OrderOk
  <2>2. order[r] \in Seq(Int) /\ Len(order[r]) = N
    BY <2>1, Size
  <2>. QED
    BY <2>2, Size, EmptySeq
<1>. QED
  BY <1>1, <1>2 DEF Roles

\* The type invariant after a move that changes no other variable.
LEMMA MoveType ==
  ASSUME TypeOK, NEW r, NEW i, NEW from, NEW to, Moves(r, i, from, to),
         UNCHANGED <<late, order, flagOfWait, contexts, fate, averaged>>
  PROVE  TypeOK'
BY DEF TypeOK, Moves

LEMMA StartStep ==
  ASSUME LaunchInv, NEW r \in Roles, NEW i \in Slots, StartThread(r, i)
  PROVE  LaunchInv'
<1>1. Moves(r, i, "none", "socket")
  BY GotoMoves DEF StartThread, LaunchInv, Labels
<1>2. UNCHANGED <<late, order, flagOfWait, contexts, fate, averaged>> /\ order[r] # <<>>
  BY DEF StartThread
<1>3. SiteOk(r)' /\ TypeOK'
  BY <1>1, <1>2, MoveOutside, MoveType DEF ArrivedAt, LaunchInv
<1>. QED
  BY <1>1, <1>2, <1>3, MoveStep DEF ConnectedAt, ArrivedAt

LEMMA SListenStep ==
  ASSUME LaunchInv, NEW i \in Slots, SListen(i)
  PROVE  LaunchInv'
<1>. "server" \in Roles
  BY DEF Roles
<1>1. Moves("server", i, "socket", "accept")
  BY GotoMoves DEF SListen, LaunchInv, Labels
<1>2. UNCHANGED <<late, order, flagOfWait, contexts, fate, averaged>>
  BY DEF SListen
<1>3. SiteOk("server")' /\ TypeOK'
  BY <1>1, <1>2, MoveOutside, MoveType DEF ArrivedAt, LaunchInv
<1>4. order["server"] # <<>>
  BY <1>1, Drawn DEF Moves
<1>. QED
  BY <1>1, <1>2, <1>3, <1>4, MoveStep DEF ConnectedAt, ArrivedAt

LEMMA SAcceptStep ==
  ASSUME LaunchInv, NEW i \in Slots, SAccept(i)
  PROVE  LaunchInv'
<1>. "server" \in Roles
  BY DEF Roles
<1>1. Moves("server", i, "taken", "count")
  BY GotoMoves DEF SAccept, LaunchInv, Labels
<1>2. UNCHANGED <<late, order, flagOfWait, contexts, fate, averaged>>
  BY DEF SAccept
<1>3. SiteOk("server")' /\ TypeOK'
  BY <1>1, <1>2, MoveOutside, MoveType DEF ArrivedAt, LaunchInv
<1>4. order["server"] # <<>>
  BY <1>1, Drawn DEF Moves
<1>. QED
  BY <1>1, <1>2, <1>3, <1>4, MoveStep DEF ConnectedAt, ArrivedAt

LEMMA RunStep ==
  ASSUME LaunchInv, NEW r \in Roles, NEW i \in Slots, RunSmpaq(r, i)
  PROVE  LaunchInv'
<1>1. Moves(r, i, "run", "add")
  BY GotoMoves DEF RunSmpaq, LaunchInv, Labels
<1>2. UNCHANGED <<late, order, flagOfWait, contexts, fate, averaged>>
  BY DEF RunSmpaq
<1>3. SiteOk(r)' /\ TypeOK'
  BY <1>1, <1>2, MoveOutside, MoveType DEF LaunchInv
<1>4. order[r] # <<>>
  BY <1>1, Drawn DEF Moves
<1>. QED
  BY <1>1, <1>2, <1>3, <1>4, MoveStep DEF ConnectedAt, ArrivedAt

\* The context goes into the slot of an index.
LEMMA AddContextStep ==
  ASSUME LaunchInv, NEW r \in Roles, NEW i \in Slots, AddContext(r, i)
  PROVE  LaunchInv'
<1>1. Moves(r, i, "add", "done")
  BY GotoMoves DEF AddContext, LaunchInv, Labels
<1>2. UNCHANGED <<late, order, flagOfWait, fate, averaged>>
  BY DEF AddContext
<1>3. SiteOk(r)'
  BY <1>1, <1>2, MoveOutside
<1>4. index(r, i) \in Indices
  <2>1. InRun(r, i)
    BY <1>1 DEF Moves, InRun
  <2>. QED
    BY <2>1, AllIn DEF Permutes, index
<1>5. contexts' \in [Roles -> SUBSET Indices]
  BY <1>4 DEF AddContext, LaunchInv, TypeOK
<1>6. TypeOK'
  BY <1>1, <1>2, <1>5 DEF LaunchInv, TypeOK, Moves
<1>7. order[r] # <<>>
  BY <1>1, Drawn DEF Moves
<1>. QED
  BY <1>1, <1>2, <1>3, <1>6, <1>7, MoveStep DEF ConnectedAt, ArrivedAt

\* A thread that counts itself is not counted yet, so nobody has reset the flag.
LEMMA CountStep ==
  ASSUME LaunchInv, NEW r \in Roles, NEW i \in Slots, Count(r, i)
  PROVE  LaunchInv'
<1>1. Moves(r, i, "count", "wait")
  BY GotoMoves DEF Count, LaunchInv, Labels
<1>2. /\ UNCHANGED <<late, order, contexts, fate, averaged>>
      /\ flagOfWait' = [flagOfWait EXCEPT ![r] = @ + 1]
  BY DEF Count
<1>3. ~Arrived(r, i) /\ Arrived(r, i)'
  BY <1>1 DEF Moves, Arrived
<1>4. SiteOk(r)
  BY DEF LaunchInv, Roles
<1>5. ~AllArrived(r)
  BY <1>3 DEF AllArrived
<1>6. \A j \in Slots : ~InRun(r, j) /\ pc[r][j] # "reset"
  BY <1>4, <1>5 DEF SiteOk
<1>7. \A j \in Slots : ~InRun(r, j)' /\ pc'[r][j] # "reset"
  BY <1>1, <1>6 DEF Moves, InRun
<1>8. flagOfWait[r] = Cardinality(Arr(r))
  BY <1>4, <1>6 DEF SiteOk, LeaderRuns
<1>9. Arr(r)' = Arr(r) \cup {i} /\ i \notin Arr(r)
  BY <1>1, <1>3 DEF Arr, Arrived, Moves
<1>10. /\ Cardinality(Arr(r)') = Cardinality(Arr(r)) + 1
       /\ Cardinality(Arr(r)') \in 0..N
  <2>1. Arr(r) \in SUBSET Slots /\ Arr(r)' \in SUBSET Slots
    BY <1>9 DEF Arr
  <2>2. IsFiniteSet(Arr(r)) /\ IsFiniteSet(Arr(r)') /\ Cardinality(Arr(r)') <= N
    BY <2>1, Size, FS_Subset
  <2>. QED
    BY <1>9, <2>2, Size, FS_AddElement, FS_CardinalityType
<1>11. flagOfWait'[r] = Cardinality(Arr(r)')
  BY <1>2, <1>8, <1>10 DEF LaunchInv, TypeOK
<1>12. SiteOk(r)'
  BY <1>7, <1>11 DEF SiteOk
<1>13. flagOfWait' \in [Roles -> 0..N]
  BY <1>2, <1>10, <1>11 DEF LaunchInv, TypeOK
<1>14. TypeOK'
  BY <1>1, <1>2, <1>13 DEF LaunchInv, TypeOK, Moves
<1>15. \A q \in Roles : q # r => flagOfWait'[q] = flagOfWait[q]
  BY <1>2 DEF LaunchInv, TypeOK
<1>16. order[r] # <<>>
  BY <1>1, Drawn DEF Moves
<1>. QED
  BY <1>1, <1>2, <1>12, <1>14, <1>15, <1>16, MoveStep DEF ConnectedAt, ArrivedAt

\* Whoever goes past the wait has seen all arrivals, or a leader's reset.
LEMMA WaitStep ==
  ASSUME LaunchInv, NEW r \in Roles, NEW i \in Slots, Wait(r, i)
  PROVE  LaunchInv'
<1> DEFINE to == IF index(r, i) = Leader THEN "reset" ELSE "run"
<1>1. Moves(r, i, "wait", to)
  BY GotoMoves DEF Wait, LaunchInv, Labels
<1>2. /\ UNCHANGED <<late, order, flagOfWait, contexts, fate, averaged>>
      /\ flagOfWait[r] = IF index(r, i) = Leader THEN N ELSE 0
  BY DEF Wait
<1>3. SiteOk(r)
  BY DEF LaunchInv, Roles
<1>4. i \in Arr(r)
  BY <1>1 DEF Moves, Arr, Arrived
<1>5. /\ IsFiniteSet(Arr(r)) /\ Arr(r) \in SUBSET Slots
      /\ Cardinality(Arr(r)) = N => Arr(r) = Slots
      /\ Cardinality(Arr(r)) # 0
  <2>1. Arr(r) \in SUBSET Slots
    BY DEF Arr
  <2>2. IsFiniteSet(Arr(r)) /\ (Cardinality(Slots) = Cardinality(Arr(r)) => Slots = Arr(r))
    BY <2>1, Size, FS_Subset
  <2>. QED
    BY <1>4, <2>1, <2>2, Size, FS_EmptySet
<1>6. AllArrived(r) /\ (index(r, i) # Leader => LeaderRuns(r))
  <2>1. CASE LeaderRuns(r)
    BY <1>3, <2>1 DEF SiteOk, LeaderRuns
  <2>2. CASE ~LeaderRuns(r)
    <3>1. flagOfWait[r] = Cardinality(Arr(r))
      BY <1>3, <2>2 DEF SiteOk
    <3>2. index(r, i) = Leader /\ Arr(r) = Slots
      BY <1>2, <1>5, <3>1, Size
    <3>. QED
      BY <3>2 DEF Arr, AllArrived
  <2>. QED
    BY <2>1, <2>2
<1>7. \A j \in Slots : Arrived(r, j)' <=> Arrived(r, j)
  BY <1>1 DEF Moves, Arrived
<1>8. Arr(r)' = Arr(r) /\ AllArrived(r)'
  BY <1>6, <1>7 DEF Arr, AllArrived
<1>9. LeaderRuns(r)' <=> LeaderRuns(r)
  BY <1>1, <1>2 DEF Moves, LeaderRuns, InRun, index
<1>10. SiteOk(r)'
  BY <1>1, <1>2, <1>3, <1>6, <1>8, <1>9 DEF SiteOk, Moves, InRun, index
<1>11. TypeOK'
  BY <1>1, <1>2, MoveType DEF LaunchInv
<1>12. order[r] # <<>>
  BY <1>1, Drawn DEF Moves
<1>13. "wait" \in ConnectedAt <=> to \in ConnectedAt
  BY DEF ConnectedAt, ArrivedAt
<1> HIDE DEF to
<1>. QED
  BY <1>1, <1>2, <1>10, <1>11, <1>12, <1>13, MoveStep

LEMMA ResetStep ==
  ASSUME LaunchInv, NEW r \in Roles, NEW i \in Slots, Reset(r, i)
  PROVE  LaunchInv'
<1>1. Moves(r, i, "reset", "run")
  BY GotoMoves DEF Reset, LaunchInv, Labels
<1>2. /\ UNCHANGED <<late, order, contexts, fate, averaged>>
      /\ flagOfWait' = [flagOfWait EXCEPT ![r] = 0]
  BY DEF Reset
<1>3. SiteOk(r)
  BY DEF LaunchInv, Roles
<1>4. index(r, i) = Leader /\ AllArrived(r)
  BY <1>1, <1>3 DEF Moves, SiteOk
<1>5. AllArrived(r)'
  BY <1>1, <1>4 DEF Moves, AllArrived, Arrived
<1>6. LeaderRuns(r)'
  BY <1>1, <1>2, <1>4 DEF Moves, LeaderRuns, InRun, index
<1>7. \A j \in Slots : pc'[r][j] = "reset" => index(r, j)' = Leader
  BY <1>1, <1>2, <1>3 DEF Moves, SiteOk, index
<1>8. SiteOk(r)'
  BY <1>5, <1>6, <1>7 DEF SiteOk
<1>9. flagOfWait' \in [Roles -> 0..N]
  BY <1>2, Size DEF LaunchInv, TypeOK
<1>10. TypeOK'
  BY <1>1, <1>2, <1>9 DEF LaunchInv, TypeOK, Moves
<1>11. \A q \in Roles : q # r => flagOfWait'[q] = flagOfWait[q]
  BY <1>2 DEF LaunchInv, TypeOK
<1>12. order[r] # <<>>
  BY <1>1, Drawn DEF Moves
<1>. QED
  BY <1>1, <1>2, <1>8, <1>10, <1>11, <1>12, MoveStep DEF ConnectedAt, ArrivedAt

\* A connection makes a client thread and a server thread of one index peers.
LEMMA ConnectStep ==
  ASSUME LaunchInv, NEW i \in Slots, CConnect(i)
  PROVE  LaunchInv'
<1>1. PICK k \in Slots :
        /\ pc["server"][k] = "accept" /\ index("server", k) = index("client", i)
        /\ pc' = [pc EXCEPT !["client"][i] = "count", !["server"][k] = "taken"]
  BY DEF CConnect
<1>2. /\ Running("client") /\ pc["client"][i] = "socket"
      /\ UNCHANGED <<late, order, flagOfWait, contexts, fate, averaged>>
  BY DEF CConnect
<1>3. pc \in [Roles -> [Slots -> Labels]] /\ "client" \in Roles /\ "server" \in Roles
  BY DEF LaunchInv, TypeOK, Roles
<1>4. /\ pc' \in [Roles -> [Slots -> Labels]]
      /\ \A j \in Slots : pc'["client"][j] =
           IF j = i THEN "count" ELSE pc["client"][j]
      /\ \A j \in Slots : pc'["server"][j] =
           IF j = k THEN "taken" ELSE pc["server"][j]
  BY <1>1, <1>3 DEF Labels
<1>5. \A r \in Roles, j \in Slots :
        /\ Arrived(r, j)' <=> Arrived(r, j)
        /\ InRun(r, j)' <=> InRun(r, j)
        /\ pc'[r][j] = "reset" <=> pc[r][j] = "reset"
  BY <1>1, <1>2, <1>4 DEF Arrived, InRun, Roles
<1>6. SiteOk("client")' /\ SiteOk("server")'
  BY <1>2, <1>3, <1>5, SiteKept DEF LaunchInv
<1>7. /\ \A j \in Slots : Connected("client", j)' <=> Connected("client", j) \/ j = i
      /\ \A j \in Slots : Connected("server", j)' <=> Connected("server", j) \/ j = k
  BY <1>1, <1>2, <1>4 DEF Connected, Arrived
<1>8. PeersOk'
  BY <1>1, <1>2, <1>7 DEF LaunchInv, PeersOk, Peer, index
<1>9. TypeOK'
  BY <1>2, <1>4 DEF LaunchInv, TypeOK
<1>10. OrderOk'
  BY <1>1, <1>2, <1>4 DEF LaunchInv, OrderOk, index
<1>11. FateOk'
  BY <1>2, FateKept
<1>. QED
  BY <1>6, <1>8, <1>9, <1>10, <1>11 DEF LaunchInv

\* What is left to show for a step in which no thread moves.
LEMMA Still ==
  ASSUME LaunchInv, UNCHANGED <<order, pc, flagOfWait>>, TypeOK', FateOk'
  PROVE  LaunchInv'
<1>1. SiteOk("client")' /\ SiteOk("server")'
  BY SiteKept DEF LaunchInv, Roles, Arrived, InRun
<1>2. PeersOk'
  BY PeersKept DEF LaunchInv, Connected, Arrived
<1>3. OrderOk'
  BY DEF LaunchInv, OrderOk, index
<1>. QED
  BY <1>1, <1>2, <1>3 DEF LaunchInv

\* The server's order is drawn before it has any thread.
LEMMA DrawStep ==
  ASSUME LaunchInv, Draw
  PROVE  LaunchInv'
<1>0. PICK d \in Draws :
        \E o \in ServerOrders(d) : order' = [order EXCEPT !["server"] = o]
  BY DEF Draw
<1>1. PICK o \in ServerOrders(d) : order' = [order EXCEPT !["server"] = o]
  BY <1>0
<1>2. /\ Running("server") /\ order["server"] = <<>>
      /\ UNCHANGED <<late, pc, flagOfWait, contexts, fate, averaged>>
  BY DEF Draw
<1>3. /\ o \in [Slots -> Indices \cup {Stray}] /\ o # <<>>
      /\ (\E i \in Slots : o[i] = Leader) => Permutes(o)
  BY OrdersOk
<1>4. order'["server"] = o /\ order'["client"] = order["client"]
  BY <1>1 DEF LaunchInv, TypeOK, Roles
<1>5. \A j \in Slots : pc["server"][j] = "none"
  BY <1>2 DEF LaunchInv, OrderOk
<1>6. \A j \in Slots : /\ ~Connected("server", j) /\ ~Arrived("server", j)
                       /\ ~InRun("server", j) /\ pc["server"][j] # "reset"
  BY <1>5 DEF Connected, Arrived, InRun
<1>7. \A j \in Slots : ~Connected("client", j)
  BY <1>6 DEF LaunchInv, PeersOk, Peer
<1>8. \A r \in Roles, j \in Slots :
        /\ ~Connected(r, j)' /\ (Arrived(r, j)' <=> Arrived(r, j))
        /\ ~InRun(r, j) /\ ~InRun(r, j)' /\ pc[r][j] # "reset" /\ pc'[r][j] # "reset"
  BY <1>2, <1>6, <1>7 DEF Connected, Arrived, InRun, Roles
<1>9. PeersOk'
  BY <1>8 DEF PeersOk, Peer, Roles
<1>10. ASSUME NEW r \in Roles PROVE SiteOk(r)'
  <2>1. flagOfWait[r] = Cardinality(Arr(r))
    BY <1>8 DEF LaunchInv, SiteOk, LeaderRuns, Roles
  <2>2. Arr(r)' = Arr(r)
    BY <1>8 DEF Arr
  <2>. QED
    BY <1>2, <1>8, <2>1, <2>2 DEF SiteOk
<1>11. SiteOk("client")' /\ SiteOk("server")'
  BY <1>10 DEF Roles
<1>12. TypeOK'
  <2>1. order' \in [Roles -> {<<>>} \cup [Slots -> Indices \cup {Stray}]]
    BY <1>1, <1>3 DEF LaunchInv, TypeOK
  <2>. QED
    BY <1>2, <2>1 DEF LaunchInv, TypeOK
<1>13. OrderOk'
  BY <1>3, <1>4 DEF LaunchInv, OrderOk, index
<1>14. FateOk'
  BY <1>2, <1>4 DEF LaunchInv, FateOk, Running
<1>. QED
  BY <1>9, <1>11, <1>12, <1>13, <1>14 DEF LaunchInv

LEMMA DrawKillsStep ==
  ASSUME LaunchInv, DrawKills
  PROVE  LaunchInv'
<1>1. /\ order["server"] = <<>> /\ fate' = [fate EXCEPT !["server"] = "killed"]
      /\ UNCHANGED <<late, order, pc, flagOfWait, contexts, averaged>>
  BY DEF DrawKills
<1>2. fate'["server"] = "killed" /\ fate'["client"] = fate["client"]
  BY <1>1 DEF LaunchInv, TypeOK, Roles
<1>3. FateOk'
  BY <1>1, <1>2 DEF LaunchInv, FateOk
<1>4. TypeOK'
  BY <1>1 DEF LaunchInv, TypeOK
<1>. QED
  BY <1>1, <1>3, <1>4, Still

LEMMA FinishStep ==
  ASSUME LaunchInv, NEW r \in Roles, Finish(r)
  PROVE  LaunchInv'
<1>1. /\ fate[r] = "running" /\ fate' = [fate EXCEPT ![r] = "exited"]
      /\ averaged' = [averaged EXCEPT ![r] = contexts[r]]
      /\ UNCHANGED <<late, order, pc, flagOfWait, contexts>>
  BY DEF Finish, Running
<1>2. \A q \in Roles : fate'[q] = IF q = r THEN "exited" ELSE fate[q]
  BY <1>1 DEF LaunchInv, TypeOK
<1>3. FateOk'
  BY <1>1, <1>2 DEF LaunchInv, FateOk, Roles, index
<1>4. TypeOK'
  BY <1>1 DEF LaunchInv, TypeOK
<1>. QED
  BY <1>1, <1>3, <1>4, Still

\* Only an order without the leader's index has two threads on one port.
LEMMA SBindFailsStep ==
  ASSUME LaunchInv, NEW i \in Slots, SBindFails(i)
  PROVE  LaunchInv'
<1>1. /\ pc["server"][i] = "socket" /\ fate' = [fate EXCEPT !["server"] = "aborted"]
      /\ UNCHANGED <<late, order, pc, flagOfWait, contexts, averaged>>
  BY DEF SBindFails, Abort
<1>2. PICK j \in Slots : HoldsPort(j, index("server", i))
  BY DEF SBindFails
<1>3. i # j /\ index("server", j) = index("server", i)
  BY <1>1, <1>2 DEF HoldsPort
<1>4. order["server"] # <<>>
  BY <1>1, Drawn DEF Roles
<1>5. fate'["server"] = "aborted" /\ fate'["client"] = fate["client"]
  BY <1>1 DEF LaunchInv, TypeOK, Roles
<1>6. FateOk'
  BY <1>1, <1>3, <1>4, <1>5 DEF LaunchInv, FateOk, index
<1>7. TypeOK'
  BY <1>1 DEF LaunchInv, TypeOK
<1>. QED
  BY <1>1, <1>6, <1>7, Still

LEMMA CTimeOutStep ==
  ASSUME LaunchInv, NEW i \in Slots, CTimeOut(i)
  PROVE  LaunchInv'
<1>1. /\ pc["client"][i] = "socket" /\ fate' = [fate EXCEPT !["client"] = "aborted"]
      /\ UNCHANGED <<late, order, pc, flagOfWait, contexts, averaged>>
  BY DEF CTimeOut, Abort
<1>2. fate'["client"] = "aborted" /\ fate'["server"] = fate["server"]
  BY <1>1 DEF LaunchInv, TypeOK, Roles
<1>3. FateOk'
  BY <1>1, <1>2 DEF LaunchInv, FateOk, index
<1>4. TypeOK'
  BY <1>1 DEF LaunchInv, TypeOK
<1>. QED
  BY <1>1, <1>3, <1>4, Still

LEMMA LaunchStep == LaunchInv /\ [Next]_vars => LaunchInv'
<1> SUFFICES ASSUME LaunchInv, [Next]_vars
             PROVE  LaunchInv'
  OBVIOUS
<1>1. CASE UNCHANGED vars
  <2>1. TypeOK' /\ FateOk'
    BY <1>1 DEF LaunchInv, TypeOK, FateOk, vars, index
  <2>. QED
    BY <1>1, <2>1, Still DEF vars
<1>2. ASSUME NEW r \in Roles, Main(r) PROVE LaunchInv'
  BY <1>2, DrawStep, DrawKillsStep, StartStep, FinishStep DEF Main
<1>3. ASSUME NEW r \in Roles, NEW i \in Slots, Thread(r, i) \/ RunSmpaq(r, i)
      PROVE  LaunchInv'
  BY <1>3, SListenStep, SBindFailsStep, SAcceptStep, ConnectStep, CTimeOutStep,
     CountStep, WaitStep, ResetStep, RunStep, AddContextStep DEF Thread
<1>. QED
  BY <1>1, <1>2, <1>3 DEF Next

LEMMA LaunchInvariance == Spec => []LaunchInv
BY LaunchInit, LaunchStep, PTL DEF Spec
-----------------------------------------------------------------------------
(* The byte counters: the sums that main averages.                         *)

Chosen(s) == CHOOSE x \in s : TRUE
Accumulated(h, S) == (CHOOSE f : f = [s \in SUBSET S |->
                IF s = {} THEN 0 ELSE h[Chosen(s)] + f[s \ {Chosen(s)}]])[S]

\* F starts with 0 and grows by the summand with every element.
Grows(F, h, S) ==
  F[{}] = 0 /\ \A T \in SUBSET S : \A x \in T : F[T] = h[x] + F[T \ {x}]

\* A sum over a finite set is F of the set if F grows so: the library takes the
\* elements in an order of its own.
LEMMA SumIs ==
  ASSUME NEW S, IsFiniteSet(S), NEW h, NEW F, Grows(F, h, S)
  PROVE  Accumulated(h, S) = F[S]
<1> DEFINE Sums(f) == f = [s \in SUBSET S |->
                        IF s = {} THEN 0 ELSE h[Chosen(s)] + f[s \ {Chosen(s)}]]
           E == [T \in SUBSET S |-> F[T]]
           g == CHOOSE f : Sums(f)
           V == {T \in SUBSET S : g[T] # F[T]}
<1>0. F[{}] = 0 /\ \A T \in SUBSET S : \A x \in T : F[T] = h[x] + F[T \ {x}]
  BY DEF Grows
<1>1. \A s \in SUBSET S : s # {} => Chosen(s) \in s
  BY DEF Chosen
<1>2. Sums(E)
  <2> DEFINE D == [s \in SUBSET S |->
                     IF s = {} THEN 0 ELSE h[Chosen(s)] + E[s \ {Chosen(s)}]]
  <2>1. ASSUME NEW s \in SUBSET S PROVE E[s] = D[s]
    <3>1. CASE s = {}
      BY <1>0, <3>1
    <3>2. CASE s # {}
      <4>1. E[s] = F[s] /\ E[s \ {Chosen(s)}] = F[s \ {Chosen(s)}]
        OBVIOUS
      <4>2. F[s] = h[Chosen(s)] + F[s \ {Chosen(s)}]
        BY <1>0, <1>1, <3>2
      <4> QED
        BY <3>2, <4>1, <4>2
    <3> QED
      BY <3>1, <3>2
  <2> QED
    BY <2>1
<1>3. Sums(g)
  <2> HIDE DEF Sums, E
  <2> QED
    BY <1>2
<1>4. \A s \in SUBSET S : g[s] = IF s = {} THEN 0 ELSE h[Chosen(s)] + g[s \ {Chosen(s)}]
  <2> HIDE DEF g
  <2> QED
    BY <1>3
<1> HIDE DEF g, Sums
<1>5. V = {}
  <2> SUFFICES ASSUME V # {} PROVE FALSE
    OBVIOUS
  <2>1. IsWellFoundedOn(StrictSubsetOrdering(S), SUBSET S)
    BY FS_StrictSubsetOrderingWellFounded, FS_FiniteSubsetsOfFinite
  <2>2. PICK T \in V : \A U \in V : <<U, T>> \notin StrictSubsetOrdering(S)
    <3>1. V \subseteq SUBSET S
      OBVIOUS
    <3> HIDE DEF V
    <3> QED
      BY <2>1, <3>1, WFMin
  <2>3. T # {}
    BY <1>0, <1>4
  <2> DEFINE x == Chosen(T)
             U == T \ {x}
  <2>4. x \in T /\ U \in SUBSET S /\ U \subseteq T /\ U # T
    BY <1>1, <2>3
  <2>5. <<U, T>> \in StrictSubsetOrdering(S)
    BY <2>4 DEF StrictSubsetOrdering
  <2>6. g[U] = F[U]
    BY <2>2, <2>4, <2>5
  <2>7. F[T] = h[x] + F[U]
    BY <1>0, <2>4
  <2>8. g[T] = h[x] + g[U]
    BY <1>4, <2>3
  <2> QED
    BY <2>6, <2>7, <2>8
<1> QED
  BY <1>5 DEF g, Sums, Accumulated

\* The threads of both processes, and those of the server.
Everybody == Roles \X Indices
Servers   == {"server"} \X Indices

\* The server has N threads.
LEMMA HowMany ==
  /\ IsFiniteSet(Everybody)
  /\ IsFiniteSet(Servers) /\ Cardinality(Servers) = N /\ Servers \subseteq Everybody
<1>1. IsFiniteSet(Indices) /\ Cardinality(Indices) = N
  BY Size, FS_Interval
<1>2. IsFiniteSet(Roles)
  <2>1. Roles = {"server"} \cup {"client"} /\ IsFiniteSet({"server"})
    BY FS_Singleton DEF Roles
  <2> QED
    BY <2>1, FS_AddElement
<1>3. IsFiniteSet({"server"}) /\ Cardinality({"server"}) = 1
  BY FS_Singleton
<1>4. IsFiniteSet(Everybody)
  BY <1>1, <1>2, FS_Product DEF Everybody
<1>5. IsFiniteSet(Servers) /\ Cardinality(Servers) = 1 * N
  BY <1>1, <1>3, FS_Product DEF Servers
<1>6. Servers \subseteq Everybody
  BY DEF Servers, Everybody, Roles
<1> QED
  BY <1>4, <1>5, <1>6, Size

\* What one thread adds to the excess.
OneExcess(type, c) == AddedRecv(type, c[1], c[2], N, SNELES, BITLEN)
                        - AddedSent(type, c[1], c[2], N, SNELES, BITLEN)

\* The excess is what F says of both processes.
LEMMA ExcessIs ==
  ASSUME NEW type, NEW F,
         Grows(F, [c \in Everybody |-> OneExcess(type, c)], Everybody),
         \A r \in Roles : averaged[r] = Indices
  PROVE  Excess(type) = F[Everybody]
<1> DEFINE h == [c \in Everybody |-> OneExcess(type, c)]
           S == UNION {{r} \X averaged[r] : r \in Roles}
           g == CHOOSE f : f = [s \in SUBSET Everybody |->
                    IF s = {} THEN 0 ELSE h[Chosen(s)] + f[s \ {Chosen(s)}]]
           e == CHOOSE f : f = [s \in SUBSET S |->
                    IF s = {} THEN 0
                    ELSE OneExcess(type, Chosen(s)) + f[s \ {Chosen(s)}]]
<1>1. S = Everybody
  BY DEF Everybody
<1>2. Excess(type) = e[S]
  BY DEF Excess, MapThenSumSet, MapThenFoldSet, OneExcess, Chosen
<1>3. \A s \in SUBSET Everybody : s # {} => Chosen(s) \in Everybody
  BY DEF Chosen
<1>4. g = e
  <2>1. ASSUME NEW f
        PROVE  [s \in SUBSET Everybody |->
                  IF s = {} THEN 0 ELSE h[Chosen(s)] + f[s \ {Chosen(s)}]]
               = [s \in SUBSET Everybody |->
                    IF s = {} THEN 0
                    ELSE OneExcess(type, Chosen(s)) + f[s \ {Chosen(s)}]]
    BY <1>3
  <2> HIDE DEF h, S
  <2> QED
    BY <1>1, <2>1, Zenon
<1>5. Accumulated(h, Everybody) = F[Everybody]
  <2>1. Grows(F, h, Everybody)
    OBVIOUS
  <2> HIDE DEF h
  <2> QED
    BY <2>1, HowMany, SumIs
<1>6. g[Everybody] = Accumulated(h, Everybody)
  BY DEF Accumulated
<1> QED
  BY <1>1, <1>2, <1>4, <1>5, <1>6

\* Every server adds a, and u and v add b and c more.
Adds(type, a, u, b, v, c) == \A x \in Everybody :
  OneExcess(type, x) = (IF x \in Servers THEN a ELSE 0)
                         + (IF x = u THEN b ELSE 0) + (IF x = v THEN c ELSE 0)

\* Then the excess is that of N servers and of the two.
LEMMA ExcessCounts ==
  ASSUME NEW type, NEW a \in Int, NEW b \in Int, NEW c \in Int,
         NEW u \in Everybody, NEW v \in Everybody,
         Adds(type, a, u, b, v, c),
         \A r \in Roles : averaged[r] = Indices
  PROVE  Excess(type) = N * a + b + c
<1> DEFINE K(T) == Cardinality(T \cap Servers)
           L(T) == (IF u \in T THEN b ELSE 0) + (IF v \in T THEN c ELSE 0)
           F == [T \in SUBSET Everybody |-> K(T) * a + L(T)]
           h == [x \in Everybody |-> OneExcess(type, x)]
<1>1. \A T \in SUBSET Everybody : K(T) \in Nat /\ L(T) \in Int /\ IsFiniteSet(T \cap Servers)
  <2> TAKE T \in SUBSET Everybody
  <2>1. T \cap Servers \in SUBSET Servers
    OBVIOUS
  <2>2. IsFiniteSet(T \cap Servers)
    BY <2>1, HowMany, FS_Subset
  <2> QED
    BY <2>2, FS_CardinalityType
<1>2. F[{}] = 0
  <2>1. {} \cap Servers = {} /\ Cardinality({}) = 0 /\ {} \in SUBSET Everybody
    BY FS_EmptySet
  <2>2. K({}) = 0 /\ L({}) = 0
    BY <2>1
  <2> HIDE DEF K, L
  <2> QED
    BY <2>1, <2>2
<1>3. ASSUME NEW T \in SUBSET Everybody, NEW x \in T
      PROVE  F[T] = h[x] + F[T \ {x}]
  <2> DEFINE U == T \ {x}
             d == (IF x = u THEN b ELSE 0) + (IF x = v THEN c ELSE 0)
  <2>1. U \in SUBSET Everybody /\ x \in Everybody
    OBVIOUS
  <2>2. h[x] = (IF x \in Servers THEN a ELSE 0) + d
    BY <2>1 DEF Adds
  <2>3. L(T) = L(U) + d /\ d \in Int
    OBVIOUS
  <2>4. K(T) = IF x \in Servers THEN K(U) + 1 ELSE K(U)
    <3>1. CASE x \in Servers
      <4>1. T \cap Servers = (U \cap Servers) \cup {x} /\ x \notin U \cap Servers
        BY <3>1
      <4> QED
        BY <1>1, <2>1, <3>1, <4>1, FS_AddElement
    <3>2. CASE x \notin Servers
      <4>1. T \cap Servers = U \cap Servers
        BY <3>2
      <4> QED
        BY <3>2, <4>1
    <3> QED
      BY <3>1, <3>2
  <2>5. F[T] = K(T) * a + L(T) /\ F[U] = K(U) * a + L(U)
    BY <2>1
  <2>6. K(U) \in Nat /\ L(U) \in Int
    BY <1>1, <2>1
  <2> HIDE DEF F, h, K, L, d, U
  <2>7. (K(U) + 1) * a = K(U) * a + a
    BY <2>6
  <2>8. K(U) * a \in Int
    BY <2>6
  <2>9. F[T] = h[x] + F[U]
    BY <2>2, <2>3, <2>4, <2>5, <2>6, <2>7, <2>8
  <2> QED
    BY <2>9 DEF U
<1>4. Grows(F, h, Everybody)
  <2> HIDE DEF F, h
  <2> QED
    BY <1>2, <1>3 DEF Grows
<1>5. Excess(type) = F[Everybody]
  <2> HIDE DEF F
  <2> QED
    BY <1>4, ExcessIs
<1>6. Everybody \cap Servers = Servers /\ L(Everybody) = b + c
  BY HowMany
<1>7. F[Everybody] = N * a + (b + c)
  BY <1>6, HowMany
<1> QED
  BY <1>5, <1>7, Size

\* The additions of SMPAQ1 cancel out.
LEMMA Excess1 ==
  ASSUME \A r \in Roles : averaged[r] = Indices
  PROVE  Excess("SMPAQ1") = 0
<1> DEFINE W == Row1(SNELES, BITLEN)
           K == Key(BITLEN)
           u == <<"server", 0>>
           v == <<"client", 0>>
           one(x) == (IF x \in Servers THEN -W ELSE 0)
                       + (IF x = u THEN W * N - K ELSE 0) + (IF x = v THEN K ELSE 0)
<1>1. W \in Int /\ K \in Int /\ N \in Int /\ W * N \in Int
  BY LaunchAssumption DEF Row1, Key, BlockSize, WordSize
<1>2. u \in Everybody /\ v \in Everybody
  BY Size DEF Everybody, Roles
<1>3. ASSUME NEW x \in Everybody PROVE OneExcess("SMPAQ1", x) = one(x)
  <2>1. PICK i \in Indices : x = <<"server", i>> \/ x = <<"client", i>>
    BY DEF Everybody, Roles
  <2>2. 0 # N-1 /\ i \in Int
    BY Size
  <2>3. CASE x = <<"client", i>>
    <3>1. x \notin Servers /\ x # u /\ (x = v <=> i = 0)
      BY <2>3 DEF Servers
    <3>2. OneExcess("SMPAQ1", x) = 0 - (IF i = 0 THEN -K ELSE 0)
      BY <2>3 DEF OneExcess, AddedRecv, AddedSent, clientSent1
    <3> HIDE DEF W, K, u, v
    <3>3. one(x) = IF i = 0 THEN K ELSE 0
      BY <1>1, <3>1
    <3> QED
      BY <1>1, <3>2, <3>3
  <2>4. CASE x = <<"server", i>>
    <3>1. x \in Servers /\ (x = u <=> i = 0) /\ x # v
      BY <2>4 DEF Servers
    <3>2. OneExcess("SMPAQ1", x) = serverRecv1(i, N, SNELES, BITLEN)
                                     - serverSent1(i, N, SNELES, BITLEN)
      BY <2>4 DEF OneExcess, AddedRecv, AddedSent
    <3>3. /\ serverSent1(i, N, SNELES, BITLEN) = IF i = N-1 THEN W * N ELSE W
          /\ i = 0 => serverRecv1(i, N, SNELES, BITLEN) = W * N - K
          /\ i = N-1 => serverRecv1(i, N, SNELES, BITLEN) = W * (N-1)
          /\ i # 0 /\ i # N-1 => serverRecv1(i, N, SNELES, BITLEN) = 0
      BY <2>2 DEF serverSent1, serverRecv1
    <3>4. W * (N-1) = W * N - W
      <4> HIDE DEF W
      <4> QED
        BY <1>1
    <3> HIDE DEF W, K, u, v
    <3>5. one(x) = -W + (IF i = 0 THEN W * N - K ELSE 0)
      BY <1>1, <3>1
    <3> QED
      BY <1>1, <2>2, <3>2, <3>3, <3>4, <3>5
  <2> QED
    BY <2>1, <2>3, <2>4
<1> DEFINE a == -W
           b == W * N - K
<1>4. a \in Int /\ b \in Int
  BY <1>1
<1>5. Excess("SMPAQ1") = N * a + b + K
  <2> HIDE DEF W, K, u, v
  <2>1. Adds("SMPAQ1", a, u, b, v, K)
    BY <1>3 DEF Adds
  <2> HIDE DEF a, b
  <2> QED
    BY <1>1, <1>2, <1>4, <2>1, ExcessCounts
<1>6. N * (-W) + (W * N - K) + K = 0
  <2> HIDE DEF W, K
  <2> QED
    BY <1>1
<1> QED
  BY <1>5, <1>6

\* Those of SMPAQ2 do not.
LEMMA Excess2 ==
  ASSUME \A r \in Roles : averaged[r] = Indices
  PROVE  Excess("SMPAQ2") = WordSize * SNELES * (N + 6) - 4
<1> DEFINE u == <<"server", 0>>
           v == <<"server", N-1>>
           P == SNELES * N
           a == -(48 * SNELES)
           b == 24 * P + 24 * SNELES - 2
           c == 32 * P + 24 * SNELES - 2
<1>1. SNELES \in Int /\ N \in Int /\ P \in Int /\ a \in Int /\ b \in Int /\ c \in Int
  BY LaunchAssumption
<1>2. u \in Everybody /\ v \in Everybody
  BY Size DEF Everybody, Roles
<1>3. ASSUME NEW x \in Everybody
      PROVE  OneExcess("SMPAQ2", x) = (IF x \in Servers THEN a ELSE 0)
                                        + (IF x = u THEN b ELSE 0) + (IF x = v THEN c ELSE 0)
  <2>1. PICK i \in Indices : x = <<"server", i>> \/ x = <<"client", i>>
    BY DEF Everybody, Roles
  <2>2. 0 # N-1 /\ i \in Int
    BY Size
  <2>3. CASE x = <<"client", i>>
    <3>1. x \notin Servers /\ x # u /\ x # v
      BY <2>3 DEF Servers
    <3>2. OneExcess("SMPAQ2", x) = 0 - 0
      BY <2>3 DEF OneExcess, AddedRecv, AddedSent
    <3> HIDE DEF a, b, c, u, v
    <3> QED
      BY <3>1, <3>2
  <2>4. CASE x = <<"server", i>>
    <3>1. x \in Servers /\ (x = u <=> i = 0) /\ (x = v <=> i = N-1)
      BY <2>4 DEF Servers
    <3>2. OneExcess("SMPAQ2", x) = serverRecv2(i, N, SNELES) - serverSent2(i, N, SNELES)
      BY <2>4 DEF OneExcess, AddedRecv, AddedSent
    <3>3. /\ serverRecv2(i, N, SNELES) =
               IF i = 0 \/ i = N-1
               THEN (16 * SNELES * N - 1) + (8 * SNELES * N - 1) + (16 + 8) * SNELES * N
               ELSE 0
          /\ i = 0 => serverSent2(i, N, SNELES) = (16 + 8) * SNELES * (N+1)
          /\ i = N-1 => serverSent2(i, N, SNELES) = (16 + 8) * SNELES + 16 * SNELES * N
          /\ i # 0 /\ i # N-1 => serverSent2(i, N, SNELES) = 2 * (16 + 8) * SNELES
      <4>1. BlockSize = 16 /\ WordSize = 8
        BY DEF BlockSize, WordSize
      <4>2. /\ i = 0 => serverSent2(i, N, SNELES) = (16 + 8) * SNELES * (N+1)
            /\ i = N-1 => serverSent2(i, N, SNELES) = (16 + 8) * SNELES + 16 * SNELES * N
            /\ i # 0 /\ i # N-1 => serverSent2(i, N, SNELES) = 2 * (16 + 8) * SNELES
        BY <2>2, <4>1 DEF serverSent2
      <4>3. i \in {0, N-1} <=> i = 0 \/ i = N-1
        OBVIOUS
      <4> QED
        BY <4>1, <4>2, <4>3 DEF serverRecv2
    <3>4. /\ 16 * SNELES * N = 16 * P /\ 8 * SNELES * N = 8 * P
          /\ (16 + 8) * SNELES * N = 24 * P /\ (16 + 8) * SNELES * (N+1) = 24 * P + 24 * SNELES
          /\ (16 + 8) * SNELES = 24 * SNELES /\ 2 * (16 + 8) * SNELES = 48 * SNELES
      BY <1>1
    <3> HIDE DEF P, u, v
    <3> QED
      BY <1>1, <2>2, <3>1, <3>2, <3>3, <3>4
  <2> QED
    BY <2>1, <2>3, <2>4
<1>4. Excess("SMPAQ2") = N * a + b + c
  <2> HIDE DEF a, b, c, u, v
  <2>1. Adds("SMPAQ2", a, u, b, v, c)
    BY <1>3 DEF Adds
  <2> QED
    BY <1>1, <1>2, <2>1, ExcessCounts
<1>5. N * a + b + c = 8 * SNELES * (N + 6) - 4
  <2>1. N * a = -(48 * P) /\ 8 * SNELES * (N + 6) = 8 * P + 48 * SNELES
    BY <1>1
  <2> HIDE DEF a, P
  <2> QED
    BY <1>1, <2>1
<1> QED
  BY <1>4, <1>5 DEF WordSize
-----------------------------------------------------------------------------
(* The byte counters: the contexts that main averages.                     *)

Ended(r) == {i \in Slots : pc[r][i] = "done"}

\* The table of contexts holds those of the threads that have ended, and main
\* averages it only when all have.
ContextsOk == \A r \in Roles :
  /\ contexts[r] = {index(r, i) : i \in Ended(r)}
  /\ fate[r] = "exited" => averaged[r] = contexts[r] /\ Ended(r) = Slots

\* What leaves the ends of the threads alone leaves the contexts alone.
LEMMA ContextsKept ==
  ASSUME ContextsOk, UNCHANGED <<order, contexts, averaged>>,
         \A r \in Roles : /\ Ended(r)' = Ended(r)
                          /\ fate'[r] = "exited" => fate[r] = "exited"
  PROVE  ContextsOk'
BY DEF ContextsOk, index

\* A thread that moves, but not to its end.
LEMMA ContextsMoved ==
  ASSUME ContextsOk, NEW r \in Roles, NEW i \in Slots, NEW from, NEW to,
         Moves(r, i, from, to), from # "done", to # "done",
         UNCHANGED <<order, contexts, averaged, fate>>
  PROVE  ContextsOk'
<1>1. \A q \in Roles : Ended(q)' = Ended(q)
  BY DEF Ended, Moves
<1> QED
  BY <1>1, ContextsKept

\* Nobody has ended at the start.
LEMMA ContextsInit == Init => ContextsOk
<1> SUFFICES ASSUME Init PROVE ContextsOk
  OBVIOUS
<1>1. \A r \in Roles : Ended(r) = {} /\ contexts[r] = {} /\ fate[r] = "running"
  BY DEF Init, Ended
<1> QED
  BY <1>1 DEF ContextsOk

\* The steps of main: only Finish averages.
LEMMA ContextsMain ==
  ASSUME LaunchInv, ContextsOk, NEW r \in Roles, Main(r)
  PROVE  ContextsOk'
<1>1. CASE Draw
  <2>1. /\ order["server"] = <<>> /\ UNCHANGED <<pc, contexts, averaged, fate>>
        /\ \E o : order' = [order EXCEPT !["server"] = o]
    BY <1>1 DEF Draw
  <2>2. \A q \in Roles : Ended(q)' = Ended(q)
    BY <2>1 DEF Ended
  <2>3. Ended("server") = {} /\ order'["client"] = order["client"]
    BY <2>1 DEF LaunchInv, OrderOk, Ended, TypeOK, Roles
  <2>4. \A q \in Roles : {index(q, i) : i \in Ended(q)}' = {index(q, i) : i \in Ended(q)}
    BY <2>2, <2>3 DEF index, Roles
  <2> QED
    BY <2>1, <2>2, <2>4 DEF ContextsOk
<1>2. CASE DrawKills
  <2>1. /\ UNCHANGED <<order, pc, contexts, averaged>>
        /\ fate' = [fate EXCEPT !["server"] = "killed"]
    BY <1>2 DEF DrawKills
  <2>2. \A q \in Roles : fate'[q] = "exited" => fate[q] = "exited"
    BY <2>1 DEF LaunchInv, TypeOK
  <2>3. \A q \in Roles : Ended(q)' = Ended(q)
    BY <2>1 DEF Ended
  <2> QED
    BY <2>1, <2>2, <2>3, ContextsKept
<1>3. ASSUME NEW i \in Slots, StartThread(r, i) PROVE ContextsOk'
  <2>1. Moves(r, i, "none", "socket")
    BY <1>3, GotoMoves DEF StartThread, LaunchInv, Labels
  <2> QED
    BY <1>3, <2>1, ContextsMoved DEF StartThread
<1>4. CASE Finish(r)
  <2>1. /\ Ended(r) = Slots /\ UNCHANGED <<order, pc, contexts>>
        /\ averaged' = [averaged EXCEPT ![r] = contexts[r]]
        /\ fate' = [fate EXCEPT ![r] = "exited"]
    BY <1>4 DEF Finish, Ended
  <2>2. \A q \in Roles : /\ averaged'[q] = IF q = r THEN contexts[r] ELSE averaged[q]
                         /\ fate'[q] = IF q = r THEN "exited" ELSE fate[q]
    BY <2>1 DEF LaunchInv, TypeOK
  <2>3. \A q \in Roles : Ended(q)' = Ended(q)
    BY <2>1 DEF Ended
  <2> QED
    BY <2>1, <2>2, <2>3 DEF ContextsOk, index
<1> QED
  BY <1>1, <1>2, <1>3, <1>4 DEF Main

\* The steps of a thread: only AddContext adds a context, its own.
LEMMA ContextsThread ==
  ASSUME LaunchInv, ContextsOk, NEW r \in Roles, NEW i \in Slots,
         Thread(r, i) \/ RunSmpaq(r, i)
  PROVE  ContextsOk'
<1> USE DEF LaunchInv, Labels
<1>0. "server" \in Roles /\ "client" \in Roles
  BY DEF Roles
<1>1. CASE SListen(i)
  <2>1. Moves("server", i, "socket", "accept")
    BY <1>0, <1>1, GotoMoves DEF SListen
  <2> QED
    BY <1>0, <1>1, <2>1, ContextsMoved DEF SListen
<1>2. CASE SAccept(i)
  <2>1. Moves("server", i, "taken", "count")
    BY <1>0, <1>2, GotoMoves DEF SAccept
  <2> QED
    BY <1>0, <1>2, <2>1, ContextsMoved DEF SAccept
<1>3. CASE CConnect(i)
  <2>1. PICK j \in Slots :
          /\ pc["client"][i] = "socket" /\ pc["server"][j] = "accept"
          /\ pc' = [pc EXCEPT !["client"][i] = "count", !["server"][j] = "taken"]
    BY <1>3 DEF CConnect
  <2>2. \A q \in Roles : Ended(q)' = Ended(q)
    BY <2>1 DEF Ended, Roles, TypeOK
  <2> QED
    BY <1>3, <2>2, ContextsKept DEF CConnect
<1>4. CASE SBindFails(i) \/ CTimeOut(i)
  <2>1. /\ UNCHANGED <<order, pc, contexts, averaged>>
        /\ \E q \in Roles : fate' = [fate EXCEPT ![q] = "aborted"]
    BY <1>0, <1>4 DEF SBindFails, CTimeOut, Abort
  <2>2. \A q \in Roles : fate'[q] = "exited" => fate[q] = "exited"
    BY <2>1 DEF TypeOK
  <2>3. \A q \in Roles : Ended(q)' = Ended(q)
    BY <2>1 DEF Ended
  <2> QED
    BY <2>1, <2>2, <2>3, ContextsKept
<1>5. CASE Count(r, i)
  <2>1. Moves(r, i, "count", "wait")
    BY <1>5, GotoMoves DEF Count
  <2> QED
    BY <1>5, <2>1, ContextsMoved DEF Count
<1>6. CASE Wait(r, i)
  <2>1. \E to \in {"reset", "run"} : Moves(r, i, "wait", to)
    BY <1>6, GotoMoves DEF Wait
  <2> QED
    BY <1>6, <2>1, ContextsMoved DEF Wait
<1>7. CASE Reset(r, i)
  <2>1. Moves(r, i, "reset", "run")
    BY <1>7, GotoMoves DEF Reset
  <2> QED
    BY <1>7, <2>1, ContextsMoved DEF Reset
<1>8. CASE RunSmpaq(r, i)
  <2>1. Moves(r, i, "run", "add")
    BY <1>8, GotoMoves DEF RunSmpaq
  <2> QED
    BY <1>8, <2>1, ContextsMoved DEF RunSmpaq
<1>9. CASE AddContext(r, i)
  <2>1. Moves(r, i, "add", "done")
    BY <1>9, GotoMoves DEF AddContext
  <2>2. /\ UNCHANGED <<order, fate, averaged>> /\ fate[r] # "exited"
        /\ contexts' = [contexts EXCEPT ![r] = @ \cup {index(r, i)}]
    BY <1>9 DEF AddContext, Goto, Running
  <2>3. \A q \in Roles : Ended(q)' = IF q = r THEN Ended(r) \cup {i} ELSE Ended(q)
    BY <2>1 DEF Ended, Moves
  <2>4. \A q \in Roles :
          contexts'[q] = IF q = r THEN contexts[r] \cup {index(r, i)} ELSE contexts[q]
    BY <2>2 DEF TypeOK
  <2> QED
    BY <2>2, <2>3, <2>4 DEF ContextsOk, index
<1> QED
  BY <1>1, <1>2, <1>3, <1>4, <1>5, <1>6, <1>7, <1>8, <1>9 DEF Thread

\* Every step keeps the contexts in order.
LEMMA ContextsStep == LaunchInv /\ ContextsOk /\ [Next]_vars => ContextsOk'
<1> SUFFICES ASSUME LaunchInv, ContextsOk, [Next]_vars PROVE ContextsOk'
  OBVIOUS
<1>1. CASE UNCHANGED vars
  BY <1>1 DEF vars, ContextsOk, Ended, index
<1> QED
  BY <1>1, ContextsMain, ContextsThread DEF Next

\* A process that has exited has averaged the contexts of all indices.
LEMMA AllAveraged ==
  ASSUME LaunchInv, ContextsOk, NEW r \in Roles, fate[r] = "exited"
  PROVE  averaged[r] = Indices
<1>1. /\ averaged[r] = {index(r, i) : i \in Slots}
      /\ \A i \in Slots : pc[r][i] = "done"
  BY DEF ContextsOk, Ended
<1>2. 1 \in Slots
  BY Size
<1>3. InRun(r, 1)
  BY <1>1, <1>2 DEF InRun
<1>4. Permutes(order[r])
  BY <1>2, <1>3, AllIn
<1> QED
  BY <1>1, <1>4 DEF Permutes, index

\* What the two sums and the contexts amount to.
LEMMA InvTrafficBalances == LaunchInv /\ ContextsOk => TrafficBalances
BY AllAveraged, Excess1, Excess2 DEF TrafficBalances
-----------------------------------------------------------------------------
(* The theorems.                                                           *)

\* The variables of the launch keep their types, for any number of threads.
THEOREM TypeCorrect == Spec => []TypeOK
BY LaunchInvariance, PTL DEF LaunchInv

\* Whatever order is drawn and whoever is late, no thread enters run_smpaq
\* before each index is a connected thread of either process (flagOfWait).
THEOREM Together == Spec => []RunsTogether
BY LaunchInvariance, InvRunsTogether, PTL

\* If the insertion kills the server, a bind fails or the client's tries run
\* out, no thread of either process has entered or enters run_smpaq.
THEOREM WholeOrNot == Spec => []AllOrNothing
BY LaunchInvariance, InvAllOrNothing, PTL

\* If both processes exit, what AccumulateCommunicationPSI adds to the bytes
\* received exceeds what it adds to those sent by nothing in SMPAQ1 and by
\* 8 * sneles * (n + 6) - 4 in SMPAQ2, for any n, sneles and bitlen.
THEOREM TrafficIs == Spec => []TrafficBalances
<1>1. Spec => []ContextsOk
  <2>1. Init => ContextsOk
    BY ContextsInit
  <2>2. LaunchInv /\ ContextsOk /\ [Next]_vars => ContextsOk'
    BY ContextsStep
  <2> QED
    BY <2>1, <2>2, LaunchInvariance, PTL DEF Spec
<1> QED
  BY <1>1, LaunchInvariance, InvTrafficBalances, PTL
=============================================================================
