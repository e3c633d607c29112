----------------------------- MODULE RunProofs -----------------------------
(***************************************************************************)
(* What the proofs about runs of Smpaq1 and Smpaq2 share.                  *)
(*                                                                         *)
(* Sockets: one direction of a socket with at most two messages in it.  A  *)
(* message is a record with a kind, put at the end and taken from the      *)
(* front.                                                                  *)
(*                                                                         *)
(* Sites: one call site of waitFor in the middle of a protocol, where it   *)
(* is a few of the labels that a thread goes through.                      *)
(*                                                                         *)
(* Sums and tables: what the sums over the matches, the second PRF and the *)
(* search of Protocol come to, for any number of threads and elements.     *)
(***************************************************************************)
EXTENDS Protocol, SequenceTheorems, FiniteSetTheorems, WellFoundedInduction, TLAPS

-----------------------------------------------------------------------------
(* Sockets.                                                                *)

\* A socket that holds nothing but messages of the given kinds.
One(q, k)    == q = <<q[1]>> /\ q[1].kind = k
Two(q, k, l) == q = <<q[1], q[2]>> /\ q[1].kind = k /\ q[2].kind = l

\* A message put behind one.
LEMMA TwoInARow ==
  ASSUME NEW a, NEW m
  PROVE  Append(<<a>>, m) = <<a, m>>
<1> DEFINE S == {a, m}
           A == Append(<<a>>, m)
           B == <<a, m>>
<1>1. A \in Seq(S) /\ Len(A) = 2 /\ A[1] = a /\ A[2] = m
  <2>1. PICK q : q = <<a>>
    OBVIOUS
  <2>2. q \in Seq({a, m}) /\ m \in {a, m} /\ Len(q) = 1
    BY <2>1
  <2>3. /\ Append(q, m) \in Seq({a, m}) /\ Len(Append(q, m)) = 2
        /\ Append(q, m)[1] = a /\ Append(q, m)[2] = m
    BY <2>1, <2>2, AppendProperties
  <2> QED
    BY <2>1, <2>3
<1>2. B \in Seq(S) /\ Len(B) = 2 /\ B[1] = a /\ B[2] = m
  OBVIOUS
<1> HIDE DEF A, B
<1>3. \A i \in 1..Len(A) : A[i] = B[i]
  BY <1>1, <1>2
<1>4. A = B
  BY <1>1, <1>2, <1>3, SeqEqual
<1> QED
  BY <1>4 DEF A, B

\* What taking and putting a message does to a socket.
LEMMA Queues ==
  /\ \A m, k : m.kind = k => One(Append(<<>>, m), k)
  /\ \A q, k : One(q, k) => q # <<>> /\ Head(q).kind = k /\ Tail(q) = <<>>
  /\ \A q, k, l : Two(q, k, l) => q # <<>> /\ Head(q).kind = k /\ One(Tail(q), l)
  /\ \A q, k, m, l : One(q, k) /\ m.kind = l => Two(Append(q, m), k, l)
<1>1. ASSUME NEW q, NEW k, One(q, k)
      PROVE  q # <<>> /\ Head(q).kind = k /\ Tail(q) = <<>>
  <2>1. PICK a : q = <<a>> /\ a.kind = k
    BY <1>1 DEF One
  <2> QED
    BY <2>1
<1>2. ASSUME NEW q, NEW k, NEW l, Two(q, k, l)
      PROVE  q # <<>> /\ Head(q).kind = k /\ One(Tail(q), l)
  <2>1. PICK a, b : q = <<a, b>> /\ a.kind = k /\ b.kind = l
    BY <1>2 DEF Two
  <2>2. Tail(q) = <<b>>
    BY <2>1
  <2> QED
    BY <2>1, <2>2 DEF One
<1>3. ASSUME NEW m
      PROVE  One(Append(<<>>, m), m.kind)
  BY DEF One
<1>4. ASSUME NEW q, NEW k, NEW m, One(q, k)
      PROVE  Two(Append(q, m), k, m.kind)
  <2>1. PICK a : q = <<a>> /\ a.kind = k
    BY <1>4 DEF One
  <2>2. Append(q, m) = <<a, m>>
    BY <2>1, TwoInARow
  <2> QED
    BY <2>1, <2>2 DEF Two
<1> QED
  BY <1>1, <1>2, <1>3, <1>4
-----------------------------------------------------------------------------
(* Sites.                                                                  *)

\* A site is its threads, those that count themselves, the special one, and the
\* labels up to and including the increment, that of the poll, those of the
\* special thread's function, and that of its reset.
IsSite(s) ==
  /\ s.special \in s.threads /\ s.arrivers \subseteq s.threads
  /\ IsFiniteSet(s.arrivers)
  /\ s.before \cap s.wait = {} /\ s.func \cap s.reset = {}
  /\ (s.before \cup s.wait) \cap (s.func \cup s.reset) = {}

Inside(s)        == s.before \cup s.wait \cup s.func \cup s.reset
Arrived(s, pc)   == {t \in s.arrivers : pc[t] \notin s.before}
HasRun(s, pc)    == pc[s.special] \notin s.before \cup s.wait \cup s.func
HaveLeft(s, pc)  == {t \in s.threads : pc[t] \notin Inside(s)}

\* Until the special thread leaves, the flag counts the arrivals; it goes on
\* after all of them, and the other arrivers go on after it.
Meets(s, pc, flag) ==
  /\ pc[s.special] \in Inside(s) => flag = Cardinality(Arrived(s, pc))
  /\ pc[s.special] \notin s.before \cup s.wait => Arrived(s, pc) = s.arrivers
  /\ \A t \in s.arrivers \ {s.special} :
       pc[t] \notin s.before \cup s.wait => pc[s.special] \notin Inside(s)

\* What Rendezvous allows a step to do.
MayRun(s, pc, pcn) ==
  /\ ~HasRun(s, pc) /\ HasRun(s, pcn) /\ Arrived(s, pc) = s.arrivers
  /\ Arrived(s, pcn) = Arrived(s, pc) /\ HaveLeft(s, pcn) = HaveLeft(s, pc)
MayArrive(s, pc, pcn, t) ==
  /\ t \in s.arrivers \ Arrived(s, pc) /\ Arrived(s, pcn) = Arrived(s, pc) \cup {t}
  /\ HasRun(s, pcn) = HasRun(s, pc) /\ HaveLeft(s, pcn) = HaveLeft(s, pc)
MayLeave(s, pc, pcn, t) ==
  /\ t \in s.threads \ HaveLeft(s, pc)
  /\ t \in s.arrivers => t \in Arrived(s, pc)
  /\ t \in s.arrivers \cup {s.special} => HasRun(s, pc)
  /\ HaveLeft(s, pcn) = HaveLeft(s, pc) \cup {t}
  /\ Arrived(s, pcn) = Arrived(s, pc) /\ HasRun(s, pcn) = HasRun(s, pc)
SameSite(s, pc, pcn) ==
  /\ Arrived(s, pcn) = Arrived(s, pc) /\ HasRun(s, pcn) = HasRun(s, pc)
  /\ HaveLeft(s, pcn) = HaveLeft(s, pc)
Promised(s, pc, pcn) ==
  \/ SameSite(s, pc, pcn) \/ MayRun(s, pc, pcn)
  \/ \E t \in s.threads : MayArrive(s, pc, pcn, t) \/ MayLeave(s, pc, pcn, t)

\* A thread goes from one label to another, and the site is kept.
Goes(s, pc, pcn, t, from, to) ==
  /\ t \in s.threads /\ DOMAIN pc = s.threads /\ pc = [u \in s.threads |-> pc[u]]
  /\ pc[t] = from /\ pcn = [pc EXCEPT ![t] = to]
Kept(s, pc, pcn, flag) == Meets(s, pcn, flag) /\ Promised(s, pc, pcn)

LEMMA GoesFacts ==
  ASSUME NEW s, NEW pc, NEW pcn, NEW t, NEW from, NEW to,
         IsSite(s), Goes(s, pc, pcn, t, from, to)
  PROVE  /\ t \in s.threads /\ pc[t] = from /\ pcn[t] = to
         /\ \A u \in s.threads : u # t => pcn[u] = pc[u]
         /\ s.special \in s.threads /\ s.arrivers \subseteq s.threads
BY DEF Goes, IsSite

\* The number of the arrivers that have arrived.
LEMMA Arrivals ==
  ASSUME NEW s, NEW pc, IsSite(s)
  PROVE  /\ IsFiniteSet(Arrived(s, pc)) /\ Cardinality(Arrived(s, pc)) \in Nat
         /\ Cardinality(Arrived(s, pc)) = Cardinality(s.arrivers) =>
              Arrived(s, pc) = s.arrivers
         /\ Cardinality(Arrived(s, pc)) = 0 <=> Arrived(s, pc) = {}
<1>1. Arrived(s, pc) \subseteq s.arrivers /\ IsFiniteSet(s.arrivers)
  BY DEF Arrived, IsSite
<1> QED
  BY <1>1, FS_Subset, FS_CardinalityType, FS_EmptySet

\* Once one has gone on, the special thread has, and all have arrived.
LEMMA AllMet ==
  ASSUME NEW s, NEW pc, NEW flag, Meets(s, pc, flag),
         NEW t \in s.arrivers \cup {s.special}, pc[t] \notin Inside(s)
  PROVE  /\ pc[s.special] \notin Inside(s)
         /\ \A u \in s.arrivers : pc[u] \notin s.before
<1>1. pc[s.special] \notin Inside(s)
  BY DEF Meets, Inside
<1>2. Arrived(s, pc) = s.arrivers
  BY <1>1 DEF Meets, Inside
<1> QED
  BY <1>1, <1>2 DEF Arrived

\* Nobody has been counted.
LEMMA Starts ==
  ASSUME NEW s, NEW pc, NEW flag, IsSite(s), flag = 0,
         \A t \in s.threads : pc[t] \in s.before \cup s.wait,
         \A t \in s.arrivers : pc[t] \in s.before
  PROVE  /\ Meets(s, pc, flag)
         /\ Arrived(s, pc) = {} /\ ~HasRun(s, pc) /\ HaveLeft(s, pc) = {}
<1>1. s.special \in s.threads /\ s.arrivers \subseteq s.threads
  BY DEF IsSite
<1>2. Arrived(s, pc) = {} /\ Cardinality(Arrived(s, pc)) = 0
  BY Arrivals DEF Arrived
<1>3. ~HasRun(s, pc)
  BY <1>1 DEF HasRun
<1>4. HaveLeft(s, pc) = {}
  BY DEF HaveLeft, Inside
<1>5. Meets(s, pc, flag)
  BY <1>1, <1>2 DEF Meets
<1> QED
  BY <1>2, <1>3, <1>4, <1>5

\* Nobody moves.
LEMMA Rests ==
  ASSUME NEW s, NEW pc, NEW flag, Meets(s, pc, flag)
  PROVE  Kept(s, pc, pc, flag)
BY DEF Kept, Promised, SameSite

\* A step on the way to the site, of an arriver or of the special thread.
LEMMA Approaches ==
  ASSUME NEW s, NEW pc, NEW pcn, NEW t, NEW from, NEW to, NEW flag,
         IsSite(s), Meets(s, pc, flag), Goes(s, pc, pcn, t, from, to),
         from \in s.before, to \in s.before \/ (to \in s.wait /\ t \notin s.arrivers)
  PROVE  Kept(s, pc, pcn, flag)
<1>1. /\ t \in s.threads /\ pc[t] = from /\ pcn[t] = to
      /\ \A u \in s.threads : u # t => pcn[u] = pc[u]
      /\ s.special \in s.threads /\ s.arrivers \subseteq s.threads
  BY GoesFacts
<1>2. Arrived(s, pcn) = Arrived(s, pc)
  BY <1>1 DEF Arrived
<1>3. HaveLeft(s, pcn) = HaveLeft(s, pc)
  BY <1>1 DEF HaveLeft, Inside
<1>4. /\ pcn[s.special] \in Inside(s) <=> pc[s.special] \in Inside(s)
      /\ pcn[s.special] \in s.before \cup s.wait <=> pc[s.special] \in s.before \cup s.wait
      /\ HasRun(s, pcn) = HasRun(s, pc)
  BY <1>1 DEF Inside, HasRun, IsSite
<1>5. \A u \in s.arrivers :
        pcn[u] \in s.before \cup s.wait <=> pc[u] \in s.before \cup s.wait
  BY <1>1
<1>6. Meets(s, pcn, flag)
  BY <1>2, <1>4, <1>5 DEF Meets
<1> QED
  BY <1>2, <1>3, <1>4, <1>6 DEF Kept, Promised, SameSite

\* A step past the site: the flag may be another site's by now.
LEMMA GoesOn ==
  ASSUME NEW s, NEW pc, NEW pcn, NEW t, NEW from, NEW to, NEW flag, NEW flagn,
         IsSite(s), Meets(s, pc, flag), Goes(s, pc, pcn, t, from, to),
         from \notin Inside(s), to \notin Inside(s),
         flagn = flag \/ t \in s.arrivers \cup {s.special}
  PROVE  Kept(s, pc, pcn, flagn)
<1>1. /\ t \in s.threads /\ pc[t] = from /\ pcn[t] = to
      /\ \A u \in s.threads : u # t => pcn[u] = pc[u]
      /\ s.special \in s.threads /\ s.arrivers \subseteq s.threads
  BY GoesFacts
<1>2. Arrived(s, pcn) = Arrived(s, pc)
  BY <1>1 DEF Arrived, Inside
<1>3. HaveLeft(s, pcn) = HaveLeft(s, pc)
  BY <1>1 DEF HaveLeft
<1>4. /\ pcn[s.special] \in Inside(s) <=> pc[s.special] \in Inside(s)
      /\ pcn[s.special] \in s.before \cup s.wait <=> pc[s.special] \in s.before \cup s.wait
      /\ HasRun(s, pcn) = HasRun(s, pc)
  BY <1>1 DEF Inside, HasRun
<1>5. \A u \in s.arrivers :
        pcn[u] \in s.before \cup s.wait <=> pc[u] \in s.before \cup s.wait
  BY <1>1 DEF Inside
<1>6. pc[s.special] \in Inside(s) => flagn = flag
  BY <1>1 DEF Meets, Inside
<1>7. Meets(s, pcn, flagn)
  BY <1>2, <1>4, <1>5, <1>6 DEF Meets
<1> QED
  BY <1>2, <1>3, <1>4, <1>7 DEF Kept, Promised, SameSite

\* A step that the site does not notice: on the way to it, or past it.
Quiet(s, t, from, to) ==
  \/ from \in s.before /\ (to \in s.before \/ (to \in s.wait /\ t \notin s.arrivers))
  \/ {from, to} \cap Inside(s) = {} /\ t \in s.arrivers \cup {s.special}

LEMMA Passes ==
  ASSUME NEW s, NEW pc, NEW pcn, NEW t, NEW from, NEW to, NEW flag, NEW flagn,
         IsSite(s), Meets(s, pc, flag), Goes(s, pc, pcn, t, from, to),
         Quiet(s, t, from, to), flagn = flag \/ from \notin Inside(s)
  PROVE  Kept(s, pc, pcn, flagn)
<1>1. CASE /\ from \in s.before
           /\ to \in s.before \/ (to \in s.wait /\ t \notin s.arrivers)
  <2>1. flagn = flag
    BY <1>1 DEF Inside
  <2>2. Kept(s, pc, pcn, flag)
    BY <1>1, Approaches
  <2> QED
    BY <2>1, <2>2
<1>2. CASE {from, to} \cap Inside(s) = {} /\ t \in s.arrivers \cup {s.special}
  <2>1. from \notin Inside(s) /\ to \notin Inside(s)
    BY <1>2
  <2> QED
    BY <1>2, <2>1, GoesOn
<1> QED
  BY <1>1, <1>2 DEF Quiet

\* flag++
LEMMA Arrives ==
  ASSUME NEW s, NEW pc, NEW pcn, NEW t, NEW from, NEW to, NEW flag, NEW flagn,
         IsSite(s), Meets(s, pc, flag), Goes(s, pc, pcn, t, from, to),
         t \in s.arrivers, from \in s.before, to \in s.wait, flagn = flag + 1
  PROVE  Kept(s, pc, pcn, flagn)
<1>1. /\ t \in s.threads /\ pc[t] = from /\ pcn[t] = to
      /\ \A u \in s.threads : u # t => pcn[u] = pc[u]
      /\ s.special \in s.threads /\ s.arrivers \subseteq s.threads
  BY GoesFacts
<1>2. /\ Arrived(s, pcn) = Arrived(s, pc) \cup {t} /\ t \notin Arrived(s, pc)
      /\ s.before \cap s.wait = {}
  BY <1>1 DEF Arrived, IsSite
<1>3. HaveLeft(s, pcn) = HaveLeft(s, pc)
  BY <1>1 DEF HaveLeft, Inside
<1>4. pc[s.special] \in s.before \cup s.wait
  BY <1>2 DEF Meets
<1>5. pcn[s.special] \in s.before \cup s.wait /\ HasRun(s, pcn) = HasRun(s, pc)
  BY <1>1, <1>4 DEF HasRun
<1>6. Cardinality(Arrived(s, pcn)) = Cardinality(Arrived(s, pc)) + 1
  BY <1>2, Arrivals, FS_AddElement
<1>7. \A u \in s.arrivers \ {s.special} : pcn[u] \in s.before \cup s.wait
  BY <1>1, <1>4 DEF Meets, Inside
<1>8. Meets(s, pcn, flagn)
  BY <1>4, <1>5, <1>6, <1>7 DEF Meets, Inside
<1>9. MayArrive(s, pc, pcn, t)
  BY <1>2, <1>3, <1>5 DEF MayArrive
<1> QED
  BY <1>1, <1>8, <1>9 DEF Kept, Promised

\* The special thread reads the full count.
LEMMA SeesAll ==
  ASSUME NEW s, NEW pc, NEW pcn, NEW t, NEW from, NEW to, NEW flag,
         IsSite(s), Meets(s, pc, flag), Goes(s, pc, pcn, t, from, to),
         t = s.special, from \in s.wait, to \in s.func \cup s.reset,
         flag = Cardinality(s.arrivers)
  PROVE  Kept(s, pc, pcn, flag)
<1>1. /\ t \in s.threads /\ pc[t] = from /\ pcn[t] = to
      /\ \A u \in s.threads : u # t => pcn[u] = pc[u]
      /\ s.special \in s.threads /\ s.arrivers \subseteq s.threads
  BY GoesFacts
<1>2. /\ from \notin s.before /\ to \notin s.before \cup s.wait
      /\ from \in Inside(s) /\ to \in Inside(s)
  BY DEF IsSite, Inside
<1>3. Arrived(s, pc) = s.arrivers
  BY <1>1, <1>2, Arrivals DEF Meets
<1>4. Arrived(s, pcn) = Arrived(s, pc)
  BY <1>1, <1>2 DEF Arrived
<1>5. HaveLeft(s, pcn) = HaveLeft(s, pc)
  BY <1>1, <1>2 DEF HaveLeft
<1>6. \A u \in s.arrivers \ {s.special} : pcn[u] \in s.before \cup s.wait
  BY <1>1, <1>2 DEF Meets
<1>7. Meets(s, pcn, flag)
  BY <1>1, <1>2, <1>3, <1>4, <1>6 DEF Meets
<1>8. ~HasRun(s, pc)
  BY <1>1 DEF HasRun
<1>9. CASE to \in s.func
  <2>1. ~HasRun(s, pcn)
    BY <1>1, <1>9 DEF HasRun
  <2> QED
    BY <1>4, <1>5, <1>7, <1>8, <2>1 DEF Kept, Promised, SameSite, HasRun
<1>10. CASE to \in s.reset
  <2>1. HasRun(s, pcn)
    BY <1>1, <1>2, <1>10 DEF HasRun, IsSite
  <2>2. MayRun(s, pc, pcn)
    BY <1>3, <1>4, <1>5, <1>8, <2>1 DEF MayRun
  <2> QED
    BY <1>7, <2>2 DEF Kept, Promised
<1> QED
  BY <1>9, <1>10

\* It runs its function.
LEMMA RunsFunction ==
  ASSUME NEW s, NEW pc, NEW pcn, NEW t, NEW from, NEW to, NEW flag,
         IsSite(s), Meets(s, pc, flag), Goes(s, pc, pcn, t, from, to),
         t = s.special, from \in s.func, to \in s.reset
  PROVE  Kept(s, pc, pcn, flag)
<1>1. /\ t \in s.threads /\ pc[t] = from /\ pcn[t] = to
      /\ \A u \in s.threads : u # t => pcn[u] = pc[u]
      /\ s.special \in s.threads /\ s.arrivers \subseteq s.threads
  BY GoesFacts
<1>2. /\ from \notin s.before \cup s.wait /\ to \notin s.before \cup s.wait \cup s.func
      /\ from \in Inside(s) /\ to \in Inside(s)
  BY DEF IsSite, Inside
<1>3. Arrived(s, pcn) = Arrived(s, pc) /\ Arrived(s, pc) = s.arrivers
  BY <1>1, <1>2 DEF Arrived, Meets
<1>4. HaveLeft(s, pcn) = HaveLeft(s, pc)
  BY <1>1, <1>2 DEF HaveLeft
<1>5. \A u \in s.arrivers \ {s.special} : pcn[u] \in s.before \cup s.wait
  BY <1>1, <1>2 DEF Meets
<1>6. Meets(s, pcn, flag)
  BY <1>1, <1>2, <1>3, <1>5 DEF Meets
<1>7. ~HasRun(s, pc) /\ HasRun(s, pcn)
  BY <1>1, <1>2 DEF HasRun
<1> QED
  BY <1>3, <1>4, <1>6, <1>7 DEF Kept, Promised, MayRun

\* It resets the flag and leaves.
LEMMA Resets ==
  ASSUME NEW s, NEW pc, NEW pcn, NEW t, NEW from, NEW to, NEW flag, NEW flagn,
         IsSite(s), Meets(s, pc, flag), Goes(s, pc, pcn, t, from, to),
         t = s.special, from \in s.reset, to \notin Inside(s)
  PROVE  Kept(s, pc, pcn, flagn)
<1>1. /\ t \in s.threads /\ pc[t] = from /\ pcn[t] = to
      /\ \A u \in s.threads : u # t => pcn[u] = pc[u]
      /\ s.special \in s.threads /\ s.arrivers \subseteq s.threads
  BY GoesFacts
<1>2. /\ from \notin s.before \cup s.wait \cup s.func /\ from \in Inside(s)
      /\ to \notin s.before \cup s.wait \cup s.func
  BY DEF IsSite, Inside
<1>3. Arrived(s, pcn) = Arrived(s, pc) /\ Arrived(s, pc) = s.arrivers
  BY <1>1, <1>2 DEF Arrived, Meets
<1>4. t \notin HaveLeft(s, pc) /\ HaveLeft(s, pcn) = HaveLeft(s, pc) \cup {t}
  BY <1>1, <1>2 DEF HaveLeft
<1>5. Meets(s, pcn, flagn)
  BY <1>1, <1>3 DEF Meets
<1>6. HasRun(s, pc) /\ HasRun(s, pcn)
  BY <1>1, <1>2 DEF HasRun
<1>7. MayLeave(s, pc, pcn, t)
  BY <1>1, <1>3, <1>4, <1>6 DEF MayLeave, HasRun
<1> QED
  BY <1>1, <1>5, <1>7 DEF Kept, Promised

\* Another arriver reads 0: it has been counted, so the flag has been reset.
LEMMA SeesZero ==
  ASSUME NEW s, NEW pc, NEW pcn, NEW t, NEW from, NEW to, NEW flag,
         IsSite(s), Meets(s, pc, flag), Goes(s, pc, pcn, t, from, to),
         t \in s.arrivers, t # s.special, from \in s.wait, to \notin Inside(s),
         flag = 0
  PROVE  Kept(s, pc, pcn, flag)
<1>1. /\ t \in s.threads /\ pc[t] = from /\ pcn[t] = to
      /\ \A u \in s.threads : u # t => pcn[u] = pc[u]
      /\ s.special \in s.threads /\ s.arrivers \subseteq s.threads
  BY GoesFacts
<1>2. from \notin s.before /\ from \in Inside(s) /\ to \notin s.before
  BY DEF IsSite, Inside
<1>3. t \in Arrived(s, pc) /\ Arrived(s, pcn) = Arrived(s, pc)
  BY <1>1, <1>2 DEF Arrived
<1>4. pc[s.special] \notin Inside(s)
  <2>1. Cardinality(Arrived(s, pc)) # 0
    BY <1>3, Arrivals
  <2> QED
    BY <2>1 DEF Meets
<1>5. pcn[s.special] = pc[s.special] /\ HasRun(s, pc) /\ HasRun(s, pcn)
  BY <1>1, <1>4 DEF HasRun, Inside
<1>6. t \notin HaveLeft(s, pc) /\ HaveLeft(s, pcn) = HaveLeft(s, pc) \cup {t}
  BY <1>1, <1>2 DEF HaveLeft
<1>7. Meets(s, pcn, flag)
  BY <1>3, <1>4, <1>5 DEF Meets
<1>8. MayLeave(s, pc, pcn, t)
  BY <1>1, <1>3, <1>5, <1>6 DEF MayLeave, HasRun
<1> QED
  BY <1>1, <1>7, <1>8 DEF Kept, Promised

\* The same step as Rendezvous words it, of the arrived, of whether the special
\* thread has run its function, and of those that have left.
Acts(s, arrived, arrivedn, ran, rann, left, leftn) ==
  \/ arrivedn = arrived /\ rann = ran /\ leftn = left
  \/ ~ran /\ arrived = s.arrivers /\ rann = TRUE /\ arrivedn = arrived /\ leftn = left
  \/ \E t \in s.threads :
       /\ t \in s.arrivers \ arrived
       /\ arrivedn = arrived \cup {t} /\ rann = ran /\ leftn = left
  \/ \E t \in s.threads :
       /\ t \in s.threads \ left /\ (t \in s.arrivers => t \in arrived)
       /\ t \in s.arrivers \cup {s.special} => ran
       /\ leftn = left \cup {t} /\ arrivedn = arrived /\ rann = ran

LEMMA KeptActs ==
  ASSUME NEW s, NEW pc, NEW pcn, NEW flag, Kept(s, pc, pcn, flag),
         NEW arrived, NEW arrivedn, NEW ran \in BOOLEAN, NEW rann \in BOOLEAN,
         NEW left, NEW leftn,
         arrived = Arrived(s, pc), arrivedn = Arrived(s, pcn),
         ran <=> HasRun(s, pc), rann <=> HasRun(s, pcn),
         left = HaveLeft(s, pc), leftn = HaveLeft(s, pcn)
  PROVE  Acts(s, arrived, arrivedn, ran, rann, left, leftn)
<1>1. CASE SameSite(s, pc, pcn)
  BY <1>1 DEF SameSite, Acts
<1>2. CASE MayRun(s, pc, pcn)
  BY <1>2 DEF MayRun, Acts
<1>3. ASSUME NEW t \in s.threads, MayArrive(s, pc, pcn, t)
      PROVE  Acts(s, arrived, arrivedn, ran, rann, left, leftn)
  BY <1>3 DEF MayArrive, Acts
<1>4. ASSUME NEW t \in s.threads, MayLeave(s, pc, pcn, t)
      PROVE  Acts(s, arrived, arrivedn, ran, rann, left, leftn)
  BY <1>4 DEF MayLeave, Acts
<1> QED
  BY <1>1, <1>2, <1>3, <1>4 DEF Kept, Promised
-----------------------------------------------------------------------------
(* Induction, and sums over finite sets.                                   *)

\* Induction over the natural numbers, for a set: the least number outside of
\* it, which the library's well-founded induction gives, does not exist.
LEMMA NatSets ==
  ASSUME NEW U, 0 \in U, \A n \in Nat : n \in U => n + 1 \in U
  PROVE  \A n \in Nat : n \in U
<1> DEFINE below == {ss \in Nat \X Nat : ss[1] < ss[2]}
<1>1. SUFFICES ASSUME Nat \ U # {} PROVE FALSE
  OBVIOUS
<1>2. IsWellFoundedOn(below, Nat)
  BY NatLessThanWellFounded DEF OpToRel
<1>3. PICK x \in Nat \ U : \A y \in Nat \ U : <<y, x>> \notin below
  BY <1>1, <1>2, WFMin
<1>4. x \in Nat /\ x # 0 /\ x - 1 \in Nat /\ x - 1 < x
  OBVIOUS
<1>5. x - 1 \in Nat \ U /\ <<x - 1, x>> \in below
  BY <1>4
<1> QED
  BY <1>3, <1>5

\* Induction over the subsets of a finite set, for a set of them.
LEMMA FiniteSubsets ==
  ASSUME NEW S, IsFiniteSet(S), NEW U, {} \in U,
         \A T \in SUBSET S : T # {} /\ (\A x \in T : T \ {x} \in U) => T \in U
  PROVE  \A T \in SUBSET S : T \in U
<1> DEFINE V == {n \in Nat : \A T \in SUBSET S : Cardinality(T) = n => T \in U}
<1>1. \A T \in SUBSET S : IsFiniteSet(T) /\ Cardinality(T) \in Nat
  BY FS_Subset, FS_CardinalityType
<1>2. 0 \in V
  BY <1>1, FS_EmptySet
<1>3. ASSUME NEW n \in Nat, n \in V
      PROVE  n + 1 \in V
  <2>1. ASSUME NEW T \in SUBSET S, Cardinality(T) = n + 1
        PROVE  T \in U
    <3>1. IsFiniteSet(T) /\ T # {}
      BY <1>1, <2>1, FS_EmptySet
    <3>2. ASSUME NEW x \in T
          PROVE  T \ {x} \in U
      <4> DEFINE R == T \ {x}
      <4>1. Cardinality(R) = Cardinality(T) - 1
        BY <3>1, FS_RemoveElement
      <4> HIDE DEF R
      <4>2. Cardinality(R) = n
        BY <2>1, <4>1
      <4>3. R \in SUBSET S
        BY DEF R
      <4> QED
        BY <1>3, <4>2, <4>3 DEF R
    <3> QED
      BY <3>1, <3>2
  <2> QED
    BY <2>1
<1>4. \A n \in Nat : n \in V
  <2> HIDE DEF V
  <2> QED
    BY <1>2, <1>3, NatSets
<1> QED
  BY <1>1, <1>4
-----------------------------------------------------------------------------
\* The recursive function behind a sum.
Chosen(s) == CHOOSE x \in s : TRUE
IsFold(f, h, S) ==
  f = [s \in SUBSET S |->
         IF s = {} THEN 0 ELSE h[Chosen(s)] + f[s \ {Chosen(s)}]]

LEMMA ChosenIn == ASSUME NEW s, s # {} PROVE Chosen(s) \in s
BY DEF Chosen

LEMMA FoldStep ==
  ASSUME NEW f, NEW h, NEW S, IsFold(f, h, S), NEW T \in SUBSET S
  PROVE  f[T] = IF T = {} THEN 0 ELSE h[Chosen(T)] + f[T \ {Chosen(T)}]
BY DEF IsFold

\* There is one: it grows with the size of the sets it is defined on.
LEMMA FoldExists ==
  ASSUME NEW h, NEW S, IsFiniteSet(S)
  PROVE  \E f : IsFold(f, h, S)
<1> DEFINE Small(n) == {s \in SUBSET S : Cardinality(s) <= n}
           On(f, n) == f = [s \in Small(n) |->
                         IF s = {} THEN 0 ELSE h[Chosen(s)] + f[s \ {Chosen(s)}]]
           V == {n \in Nat : \E f : On(f, n)}
<1>1. \A T \in SUBSET S : IsFiniteSet(T) /\ Cardinality(T) \in Nat
  BY FS_Subset, FS_CardinalityType
<1>2. 0 \in V
  <2>1. Small(0) = {{}}
    BY <1>1, FS_EmptySet
  <2>2. On([s \in {{}} |-> 0], 0)
    BY <2>1
  <2> QED
    BY <2>2
<1>3. ASSUME NEW n \in Nat, n \in V
      PROVE  n + 1 \in V
  <2>1. PICK f : On(f, n)
    BY <1>3
  <2> DEFINE g == [s \in Small(n + 1) |->
                     IF s = {} THEN 0 ELSE h[Chosen(s)] + f[s \ {Chosen(s)}]]
  <2>2. ASSUME NEW s \in Small(n + 1), s # {}
        PROVE  /\ s \ {Chosen(s)} \in Small(n) /\ s \ {Chosen(s)} \in Small(n + 1)
               /\ g[s \ {Chosen(s)}] = f[s \ {Chosen(s)}]
    <3>1. Chosen(s) \in s /\ IsFiniteSet(s) /\ Cardinality(s) <= n + 1
      BY <1>1, <2>2, ChosenIn
    <3>2. Cardinality(s \ {Chosen(s)}) = Cardinality(s) - 1 /\ Cardinality(s) \in Nat
      BY <1>1, <3>1, FS_RemoveElement
    <3> DEFINE r == s \ {Chosen(s)}
    <3>3. r \in Small(n) /\ r \in Small(n + 1)
      BY <3>1, <3>2
    <3> HIDE DEF r
    <3>4. g[r] = IF r = {} THEN 0 ELSE h[Chosen(r)] + f[r \ {Chosen(r)}]
      BY <3>3
    <3>5. f[r] = IF r = {} THEN 0 ELSE h[Chosen(r)] + f[r \ {Chosen(r)}]
      BY <2>1, <3>3
    <3> QED
      BY <3>3, <3>4, <3>5 DEF r
  <2>3. On(g, n + 1)
    <3>1. g = [s \in Small(n + 1) |->
                 IF s = {} THEN 0 ELSE h[Chosen(s)] + g[s \ {Chosen(s)}]]
      <4> DEFINE k == [s \in Small(n + 1) |->
                 IF s = {} THEN 0 ELSE h[Chosen(s)] + g[s \ {Chosen(s)}]]
      <4>1. \A s \in Small(n + 1) : g[s] = k[s]
        BY <2>2
      <4> QED
        BY <4>1
    <3> QED
      BY <3>1
  <2> HIDE DEF On, g
  <2> QED
    BY <2>3
<1>4. \A n \in Nat : n \in V
  <2> HIDE DEF V
  <2> QED
    BY <1>2, <1>3, NatSets
<1>5. Cardinality(S) \in V
  BY <1>1, <1>4
<1>6. Small(Cardinality(S)) = SUBSET S
  BY <1>1, FS_Subset
<1>7. PICK f : On(f, Cardinality(S))
  BY <1>5
<1> QED
  BY <1>6, <1>7 DEF IsFold

LEMMA SumIsFold ==
  ASSUME NEW h, NEW S, IsFiniteSet(S)
  PROVE  \E f : IsFold(f, h, S) /\ SumFunctionOnSet(h, S) = f[S]
<1> DEFINE g == CHOOSE f : f = [s \in SUBSET S |->
                  IF s = {} THEN 0
                  ELSE h[CHOOSE x \in s : TRUE] + f[s \ {CHOOSE x \in s : TRUE}]]
<1>1. SumFunctionOnSet(h, S) = g[S]
  BY DEF SumFunctionOnSet, FoldFunctionOnSet, MapThenFoldSet
<1>2. IsFold(g, h, S)
  <2>1. PICK f : IsFold(f, h, S)
    BY FoldExists
  <2>2. f = [s \in SUBSET S |->
               IF s = {} THEN 0
               ELSE h[CHOOSE x \in s : TRUE] + f[s \ {CHOOSE x \in s : TRUE}]]
    BY <2>1 DEF IsFold, Chosen
  <2> QED
    BY <2>2 DEF IsFold, Chosen
<1> QED
  BY <1>1, <1>2

\* Two folds agree where their summands do.
LEMMA FoldsAgree ==
  ASSUME NEW f, NEW g, NEW h, NEW k, NEW R, NEW S, IsFold(f, h, R), IsFold(g, k, S),
         NEW T \in SUBSET (R \cap S), IsFiniteSet(T), \A x \in T : h[x] = k[x]
  PROVE  f[T] = g[T]
<1> DEFINE V == {s \in SUBSET T : f[s] = g[s]}
<1>1. {} \in V
  <2>1. {} \in SUBSET R /\ {} \in SUBSET S
    OBVIOUS
  <2> QED
    BY <2>1, FoldStep
<1>2. ASSUME NEW s \in SUBSET T, s # {}, \A x \in s : s \ {x} \in V
      PROVE  s \in V
  <2>1. Chosen(s) \in s /\ s \in SUBSET R /\ s \in SUBSET S
    BY <1>2, ChosenIn
  <2>2. f[s \ {Chosen(s)}] = g[s \ {Chosen(s)}]
    BY <1>2, <2>1
  <2>3. /\ f[s] = h[Chosen(s)] + f[s \ {Chosen(s)}]
        /\ g[s] = k[Chosen(s)] + g[s \ {Chosen(s)}]
    BY <1>2, <2>1, FoldStep
  <2> QED
    BY <2>1, <2>2, <2>3
<1>3. \A s \in SUBSET T : s \in V
  <2> HIDE DEF V
  <2> QED
    BY <1>1, <1>2, FiniteSubsets
<1> QED
  BY <1>3

LEMMA SumSame ==
  ASSUME NEW h, NEW k, NEW S, IsFiniteSet(S), \A x \in S : h[x] = k[x]
  PROVE  SumFunctionOnSet(h, S) = SumFunctionOnSet(k, S)
<1>1. PICK f : IsFold(f, h, S) /\ SumFunctionOnSet(h, S) = f[S]
  BY SumIsFold
<1>2. PICK g : IsFold(g, k, S) /\ SumFunctionOnSet(k, S) = g[S]
  BY SumIsFold
<1> QED
  BY <1>1, <1>2, FoldsAgree

LEMMA SumStep ==
  ASSUME NEW h, NEW S, IsFiniteSet(S)
  PROVE  SumFunctionOnSet(h, S) =
           IF S = {} THEN 0
           ELSE h[Chosen(S)] + SumFunctionOnSet(h, S \ {Chosen(S)})
<1>1. PICK f : IsFold(f, h, S) /\ SumFunctionOnSet(h, S) = f[S]
  BY SumIsFold
<1> DEFINE T == S \ {Chosen(S)}
<1>2. IsFiniteSet(T) /\ T \in SUBSET S
  BY FS_Subset
<1>3. PICK g : IsFold(g, h, T) /\ SumFunctionOnSet(h, T) = g[T]
  BY <1>2, SumIsFold
<1>4. f[T] = g[T]
  BY <1>1, <1>2, <1>3, FoldsAgree
<1> QED
  BY <1>1, <1>3, <1>4, FoldStep

LEMMA SumEmpty ==
  ASSUME NEW h
  PROVE  SumFunctionOnSet(h, {}) = 0
BY SumStep, FS_EmptySet

LEMMA SumInt ==
  ASSUME NEW h, NEW S, IsFiniteSet(S), \A x \in S : h[x] \in Int
  PROVE  SumFunctionOnSet(h, S) \in Int
<1> DEFINE V == {s \in SUBSET S : SumFunctionOnSet(h, s) \in Int}
<1>1. {} \in V
  BY SumEmpty
<1>2. ASSUME NEW s \in SUBSET S, s # {}, \A x \in s : s \ {x} \in V
      PROVE  s \in V
  <2>1. Chosen(s) \in s /\ IsFiniteSet(s)
    BY <1>2, ChosenIn, FS_Subset
  <2>2. SumFunctionOnSet(h, s \ {Chosen(s)}) \in Int
    BY <1>2, <2>1
  <2> QED
    BY <1>2, <2>1, <2>2, SumStep
<1>3. \A s \in SUBSET S : s \in V
  <2> HIDE DEF V
  <2> QED
    BY <1>1, <1>2, FiniteSubsets
<1> QED
  BY <1>3

\* Any element may be taken out first.
LEMMA SumTakes ==
  ASSUME NEW h, NEW S, IsFiniteSet(S), \A x \in S : h[x] \in Int, NEW a \in S
  PROVE  SumFunctionOnSet(h, S) = h[a] + SumFunctionOnSet(h, S \ {a})
<1> DEFINE Sum(s) == SumFunctionOnSet(h, s)
           V == {s \in SUBSET S : \A b \in s : Sum(s) = h[b] + Sum(s \ {b})}
<1>1. \A s \in SUBSET S : Sum(s) \in Int
  BY FS_Subset, SumInt
<1>2. \A s \in SUBSET S : s # {} => Sum(s) = h[Chosen(s)] + Sum(s \ {Chosen(s)})
  BY FS_Subset, SumStep
<1> HIDE DEF Sum
<1>3. {} \in V
  OBVIOUS
<1>4. ASSUME NEW s \in SUBSET S, s # {}, \A x \in s : s \ {x} \in V
      PROVE  s \in V
  <2>1. ASSUME NEW b \in s
        PROVE  Sum(s) = h[b] + Sum(s \ {b})
    <3> DEFINE c == Chosen(s)
    <3>1. c \in s /\ Sum(s) = h[c] + Sum(s \ {c})
      BY <1>2, <1>4, ChosenIn
    <3> HIDE DEF c
    <3>2. CASE b = c
      BY <3>1, <3>2
    <3>3. CASE b # c
      <4> DEFINE r == s \ {b, c}
      <4>1. b \in s \ {c} /\ c \in s \ {b} /\ (s \ {c}) \ {b} = r /\ (s \ {b}) \ {c} = r
        BY <3>1, <3>3
      <4>2. Sum(s \ {c}) = h[b] + Sum(r) /\ Sum(s \ {b}) = h[c] + Sum(r)
        BY <1>4, <3>1, <4>1
      <4>3. h[b] \in Int /\ h[c] \in Int /\ Sum(r) \in Int
        BY <1>1, <3>1
      <4> HIDE DEF r
      <4> QED
        BY <3>1, <4>2, <4>3
    <3> QED
      BY <3>2, <3>3
  <2> QED
    BY <2>1
<1>5. \A s \in SUBSET S : s \in V
  <2> HIDE DEF V
  <2> QED
    BY <1>3, <1>4, FiniteSubsets
<1>6. Sum(S) = h[a] + Sum(S \ {a})
  BY <1>5
<1> QED
  BY <1>6 DEF Sum

\* An element put in.
LEMMA SumPuts ==
  ASSUME NEW h, NEW S, IsFiniteSet(S), NEW a, a \notin S, \A x \in S \cup {a} : h[x] \in Int
  PROVE  SumFunctionOnSet(h, S \cup {a}) = h[a] + SumFunctionOnSet(h, S)
<1>1. IsFiniteSet(S \cup {a}) /\ (S \cup {a}) \ {a} = S /\ a \in S \cup {a}
  BY FS_AddElement
<1> QED
  BY <1>1, SumTakes
-----------------------------------------------------------------------------
(* Sums modulo the width of a word.                                        *)

LEMMA Modulo ==
  ASSUME NEW W \in Nat \ {0}
  PROVE  /\ \A a \in Int : a % W \in 0..W-1 /\ \E q \in Int : a = q * W + (a % W)
         /\ \A q \in Int, r \in 0..W-1 : (q * W + r) % W = r
<1>1. ASSUME NEW a \in Int
      PROVE  a % W \in 0..W-1 /\ \E q \in Int : a = q * W + (a % W)
  <2>1. a \div W \in Int /\ a = (a \div W) * W + (a % W)
    OBVIOUS
  <2>2. a % W \in 0..W-1
    OBVIOUS
  <2> DEFINE r == a % W
             p == a \div W
  <2>3. p \in Int /\ a = p * W + r /\ r \in 0..W-1
    BY <2>1, <2>2
  <2> HIDE DEF p, r
  <2>4. \E q \in Int : a = q * W + r
    BY <2>3
  <2> QED
    BY <2>3, <2>4 DEF r
<1>2. ASSUME NEW q \in Int, NEW r \in 0..W-1
      PROVE  (q * W + r) % W = r
  OBVIOUS
<1> QED
  BY <1>1, <1>2

\* Numbers that differ by a multiple of W.
LEMMA SameModulo ==
  ASSUME NEW W \in Nat \ {0}, NEW a \in Int, NEW b \in Int
  PROVE  a % W = b % W <=> \E q \in Int : a = b + q * W
<1>1. PICK qa \in Int : a = qa * W + (a % W)
  BY Modulo
<1>2. PICK qb \in Int : b = qb * W + (b % W)
  BY Modulo
<1>3. ASSUME a % W = b % W
      PROVE  \E q \in Int : a = b + q * W
  <2>1. (qa - qb) * W = qa * W - qb * W
    OBVIOUS
  <2>2. qa * W \in Int /\ qb * W \in Int /\ a % W \in Int /\ qa - qb \in Int
    BY Modulo
  <2>3. a = b + (qa - qb) * W
    BY <1>1, <1>2, <1>3, <2>1, <2>2
  <2> QED
    BY <2>3
<1>4. ASSUME NEW q \in Int, a = b + q * W
      PROVE  a % W = b % W
  <2> DEFINE r == b % W
  <2>1. r \in 0..W-1 /\ b = qb * W + r
    BY <1>2, Modulo
  <2> HIDE DEF r
  <2>2. (qb + q) * W = qb * W + q * W /\ qb * W \in Int /\ q * W \in Int
    OBVIOUS
  <2>3. a = (qb + q) * W + r
    BY <1>4, <2>1, <2>2
  <2>4. qb + q \in Int
    OBVIOUS
  <2>5. a % W = r
    BY <2>1, <2>3, <2>4, Modulo
  <2> QED
    BY <2>5 DEF r
<1> QED
  BY <1>3, <1>4

Same(W, a, b) == a % W = b % W

LEMMA AddModulo ==
  ASSUME NEW W \in Nat \ {0}, NEW a \in Int, NEW b \in Int, NEW c \in Int, NEW d \in Int,
         Same(W, a, c), Same(W, b, d)
  PROVE  Same(W, a + b, c + d)
<1>1. PICK p \in Int : a = c + p * W
  BY SameModulo DEF Same
<1>2. PICK q \in Int : b = d + q * W
  BY SameModulo DEF Same
<1>3. (p + q) * W = p * W + q * W /\ p * W \in Int /\ q * W \in Int
  OBVIOUS
<1>4. a + b = (c + d) + (p + q) * W
  BY <1>1, <1>2, <1>3
<1>5. a + b \in Int /\ c + d \in Int /\ p + q \in Int
  OBVIOUS
<1> DEFINE x == a + b
           y == c + d
           z == p + q
<1>6. x \in Int /\ y \in Int /\ z \in Int /\ x = y + z * W
  BY <1>4, <1>5
<1> HIDE DEF x, y, z
<1>7. x % W = y % W
  BY <1>6, SameModulo
<1> QED
  BY <1>7 DEF x, y, Same

LEMMA ModuloTwice ==
  ASSUME NEW W \in Nat \ {0}, NEW a \in Int
  PROVE  a % W \in Int /\ (a % W) % W = a % W
<1> DEFINE r == a % W
<1>1. r \in 0..W-1
  BY Modulo
<1> HIDE DEF r
<1>2. 0 \in Int /\ r = 0 * W + r
  BY <1>1
<1>3. r % W = r
  BY <1>1, <1>2, Modulo
<1> QED
  BY <1>1, <1>3 DEF r

\* Sums of what is equal modulo W.
LEMMA SumModulo ==
  ASSUME NEW W \in Nat \ {0}, NEW S, IsFiniteSet(S), NEW h, NEW k,
         \A x \in S : h[x] \in Int /\ k[x] \in Int /\ h[x] % W = k[x] % W
  PROVE  SumFunctionOnSet(h, S) % W = SumFunctionOnSet(k, S) % W
<1> DEFINE H(s) == SumFunctionOnSet(h, s)
           K(s) == SumFunctionOnSet(k, s)
           V == {s \in SUBSET S : H(s) % W = K(s) % W}
<1>1. \A s \in SUBSET S : H(s) \in Int /\ K(s) \in Int
  BY FS_Subset, SumInt
<1>2. \A s \in SUBSET S : s # {} => /\ H(s) = h[Chosen(s)] + H(s \ {Chosen(s)})
                                    /\ K(s) = k[Chosen(s)] + K(s \ {Chosen(s)})
  BY FS_Subset, SumStep
<1>3. H({}) = K({})
  BY SumEmpty
<1> HIDE DEF H, K
<1>4. {} \in V
  BY <1>3
<1>5. ASSUME NEW s \in SUBSET S, s # {}, \A x \in s : s \ {x} \in V
      PROVE  s \in V
  <2> DEFINE c == Chosen(s)
             r == s \ {c}
  <2>1. c \in S /\ r \in SUBSET S /\ r \in V
    BY <1>5, ChosenIn
  <2>2. H(s) = h[c] + H(r) /\ K(s) = k[c] + K(r)
    BY <1>2, <1>5
  <2>3. h[c] \in Int /\ k[c] \in Int /\ h[c] % W = k[c] % W
    BY <2>1
  <2>4. H(r) \in Int /\ K(r) \in Int /\ H(r) % W = K(r) % W
    BY <1>1, <2>1
  <2> HIDE DEF r, c
  <2>5. Same(W, h[c], k[c]) /\ Same(W, H(r), K(r))
    BY <2>3, <2>4 DEF Same
  <2>6. Same(W, h[c] + H(r), k[c] + K(r))
    BY <2>3, <2>4, <2>5, AddModulo
  <2> QED
    BY <2>2, <2>6 DEF Same
<1>6. \A s \in SUBSET S : s \in V
  <2> HIDE DEF V
  <2> QED
    BY <1>4, <1>5, FiniteSubsets
<1>7. H(S) % W = K(S) % W
  BY <1>6
<1> QED
  BY <1>7 DEF H, K

\* The sum of two sums.
LEMMA SumPlus ==
  ASSUME NEW S, IsFiniteSet(S), NEW h, NEW k,
         \A x \in S : h[x] \in Int /\ k[x] \in Int
  PROVE  SumFunctionOnSet(h, S) + SumFunctionOnSet(k, S)
           = SumFunctionOnSet([x \in S |-> h[x] + k[x]], S)
<1> DEFINE l == [x \in S |-> h[x] + k[x]]
<1>0. \A x \in S : l[x] = h[x] + k[x] /\ l[x] \in Int
  OBVIOUS
<1> DEFINE H(s) == SumFunctionOnSet(h, s)
           K(s) == SumFunctionOnSet(k, s)
           L(s) == SumFunctionOnSet(l, s)
           V == {s \in SUBSET S : H(s) + K(s) = L(s)}
<1> HIDE DEF l
<1>1. \A s \in SUBSET S : H(s) \in Int /\ K(s) \in Int /\ L(s) \in Int
  BY <1>0, FS_Subset, SumInt
<1>2. \A s \in SUBSET S : s # {} => /\ H(s) = h[Chosen(s)] + H(s \ {Chosen(s)})
                                    /\ K(s) = k[Chosen(s)] + K(s \ {Chosen(s)})
                                    /\ L(s) = l[Chosen(s)] + L(s \ {Chosen(s)})
  BY FS_Subset, SumStep
<1>3. H({}) = 0 /\ K({}) = 0 /\ L({}) = 0
  BY SumEmpty
<1> HIDE DEF H, K, L
<1>4. {} \in V
  BY <1>3
<1>5. ASSUME NEW s \in SUBSET S, s # {}, \A x \in s : s \ {x} \in V
      PROVE  s \in V
  <2> DEFINE c == Chosen(s)
             r == s \ {c}
  <2>1. c \in S /\ r \in SUBSET S /\ r \in V
    BY <1>5, ChosenIn
  <2>2. H(s) = h[c] + H(r) /\ K(s) = k[c] + K(r) /\ L(s) = l[c] + L(r)
    BY <1>2, <1>5
  <2>3. h[c] \in Int /\ k[c] \in Int /\ l[c] = h[c] + k[c]
    BY <1>0, <2>1
  <2>4. H(r) \in Int /\ K(r) \in Int /\ L(r) = H(r) + K(r)
    BY <1>1, <2>1
  <2> HIDE DEF r, c
  <2>5. H(s) + K(s) = L(s)
    BY <2>2, <2>3, <2>4
  <2> QED
    BY <2>5
<1>6. \A s \in SUBSET S : s \in V
  <2> HIDE DEF V
  <2> QED
    BY <1>4, <1>5, FiniteSubsets
<1>7. H(S) + K(S) = L(S)
  BY <1>6
<1> QED
  BY <1>7 DEF H, K, L, l

\* A sum over other names of the same summands.
LEMMA SumRenamed ==
  ASSUME NEW T, IsFiniteSet(T), NEW r, \A x, y \in T : r[x] = r[y] => x = y,
         NEW h, NEW k, \A x \in T : k[x] \in Int /\ h[r[x]] = k[x]
  PROVE  SumFunctionOnSet(h, {r[x] : x \in T}) = SumFunctionOnSet(k, T)
<1> DEFINE Img(s) == {r[x] : x \in s}
           H(s) == SumFunctionOnSet(h, Img(s))
           K(s) == SumFunctionOnSet(k, s)
           V == {s \in SUBSET T : H(s) = K(s)}
<1>0. ASSUME NEW s \in SUBSET T
      PROVE  IsFiniteSet(s) /\ IsFiniteSet(Img(s))
  <2>1. IsFiniteSet(s)
    BY FS_Subset
  <2> DEFINE f == [x \in s |-> r[x]]
             I == {f[x] : x \in s}
  <2>2. I = Img(s)
    OBVIOUS
  <2>3. f \in [s -> I]
    OBVIOUS
  <2>4. f \in Surjection(s, I)
    BY <2>3 DEF Surjection
  <2> HIDE DEF f, I
  <2>5. IsFiniteSet(I)
    BY <2>1, <2>4, FS_Surjection
  <2> QED
    BY <2>1, <2>2, <2>5
<1>1. {} \in V
  <2>1. Img({}) = {}
    OBVIOUS
  <2> QED
    BY <2>1, SumEmpty
<1>2. ASSUME NEW s \in SUBSET T, s # {}, \A x \in s : s \ {x} \in V
      PROVE  s \in V
  <2>1. PICK c \in s : TRUE
    BY <1>2
  <2>2. Img(s) \ {r[c]} = Img(s \ {c}) /\ r[c] \in Img(s)
    <3>1. \A x \in s : r[x] = r[c] => x = c
      OBVIOUS
    <3> QED
      BY <3>1
  <2>3. \A y \in Img(s) : h[y] \in Int
    OBVIOUS
  <2>4. H(s) = h[r[c]] + H(s \ {c})
    <3> DEFINE A == Img(s)
    <3>1. SumFunctionOnSet(h, A) = h[r[c]] + SumFunctionOnSet(h, A \ {r[c]})
      <4>1. IsFiniteSet(A) /\ r[c] \in A /\ \A y \in A : h[y] \in Int
        BY <1>0, <2>2, <2>3
      <4> HIDE DEF A
      <4> QED
        BY <4>1, SumTakes
    <3> QED
      BY <2>2, <3>1
  <2>5. K(s) = k[c] + K(s \ {c})
    <3>1. IsFiniteSet(s) /\ \A x \in s : k[x] \in Int
      BY <1>0
    <3> QED
      BY <3>1, SumTakes
  <2>6. H(s \ {c}) = K(s \ {c}) /\ h[r[c]] = k[c]
    BY <1>2
  <2> HIDE DEF H, K
  <2> QED
    BY <2>4, <2>5, <2>6
<1>3. \A s \in SUBSET T : s \in V
  <2> HIDE DEF V
  <2> QED
    BY <1>1, <1>2, FiniteSubsets
<1> QED
  BY <1>3
-----------------------------------------------------------------------------
(* The tables, from how the second PRF goes through them.                  *)

\* A table of rows of one entry each, read row after row, is the entries.
LEMMA Flattened ==
  ASSUME NEW n \in Nat \ {0}, NEW S, NEW e \in [1..n -> S]
  PROVE  FlattenSeq([i \in 1..n |-> <<e[i]>>]) = e
<1> DEFINE seqs == [i \in 1..n |-> <<e[i]>>]
           F == [i \in 1..n |-> [j \in 1..i |-> e[j]]]
           step(f) == [i \in 1..n |-> IF i = 1 THEN seqs[i] ELSE f[i-1] \o seqs[i]]
           G == CHOOSE f : f = step(f)
<1>1. seqs \in Seq(Seq(S)) /\ Len(seqs) = n
  OBVIOUS
<1>2. FlattenSeq(seqs) = G[n]
  <2>1. Len(seqs) = n /\ n # 0
    BY <1>1
  <2> HIDE DEF seqs
  <2> QED
    BY <2>1 DEF FlattenSeq
<1>3. F = step(F)
  <2>1. ASSUME NEW i \in 1..n
        PROVE  F[i] = step(F)[i]
    <3>1. CASE i = 1
      BY <3>1
    <3>2. CASE i # 1
      <4> DEFINE a == F[i-1]
                 b == <<e[i]>>
                 c == F[i]
      <4>1. i - 1 \in 1..n /\ i \in Nat /\ a = [j \in 1..(i-1) |-> e[j]]
        BY <3>2
      <4>2. a \in Seq(S) /\ Len(a) = i - 1 /\ b \in Seq(S) /\ Len(b) = 1
        BY <4>1
      <4>3. c \in Seq(S) /\ Len(c) = i
        OBVIOUS
      <4>4. /\ a \o b \in Seq(S) /\ Len(a \o b) = i
            /\ \A j \in 1..i : (a \o b)[j] = IF j <= i - 1 THEN a[j] ELSE b[j - (i-1)]
        <5>1. Len(a) + Len(b) = i
          BY <4>2
        <5> HIDE DEF a, b
        <5>2. /\ a \o b \in Seq(S) /\ Len(a \o b) = Len(a) + Len(b)
              /\ \A j \in 1..Len(a) + Len(b) :
                   (a \o b)[j] = IF j <= Len(a) THEN a[j] ELSE b[j - Len(a)]
          BY <4>2, ConcatProperties
        <5> QED
          BY <4>2, <5>1, <5>2
      <4>5. ASSUME NEW j \in 1..i
            PROVE  (a \o b)[j] = c[j]
        <5>1. CASE j <= i - 1
          <6>1. (a \o b)[j] = a[j]
            BY <4>4, <5>1
          <6>2. a[j] = e[j] /\ c[j] = e[j]
            BY <4>1, <5>1
          <6> QED
            BY <6>1, <6>2
        <5>2. CASE j = i
          <6>1. (a \o b)[j] = b[1]
            BY <4>4, <5>2
          <6> QED
            BY <5>2, <6>1
        <5> QED
          BY <5>1, <5>2
      <4>6. a \o b = c
        <5> HIDE DEF a, b, c
        <5> DEFINE d == a \o b
        <5>1. d \in Seq(S) /\ Len(d) = Len(c) /\ \A j \in 1..Len(d) : d[j] = c[j]
          BY <4>3, <4>4, <4>5
        <5> HIDE DEF d
        <5>2. d = c
          BY <4>3, <5>1, SeqEqual
        <5> QED
          BY <5>2 DEF d
      <4>7. seqs[i] = b
        OBVIOUS
      <4> QED
        BY <3>2, <4>6, <4>7
    <3> QED
      BY <3>1, <3>2
  <2> QED
    BY <2>1
<1>4. G = step(G)
  BY <1>3
<1>5. \A i \in 1..n : G[i] = F[i]
  <2> DEFINE U == {i \in Nat : i \in 1..n => G[i] = F[i]}
  <2>1. 0 \in U
    OBVIOUS
  <2>2. ASSUME NEW i \in Nat, i \in U
        PROVE  i + 1 \in U
    <3>1. ASSUME i + 1 \in 1..n
          PROVE  G[i+1] = F[i+1]
      <4>1. G[i+1] = step(G)[i+1] /\ F[i+1] = step(F)[i+1]
        BY <1>3, <1>4
      <4> HIDE DEF G, F
      <4>2. CASE i = 0
        BY <3>1, <4>1, <4>2
      <4>3. CASE i # 0
        <5>1. i \in 1..n /\ (i + 1) - 1 = i
          BY <3>1, <4>3
        <5>2. G[i] = F[i]
          BY <2>2, <5>1
        <5> QED
          BY <3>1, <4>1, <4>3, <5>1, <5>2
      <4> QED
        BY <4>2, <4>3
    <3> QED
      BY <3>1
  <2>3. \A i \in Nat : i \in U
    <3> HIDE DEF U
    <3> QED
      BY <2>1, <2>2, NatSets
  <2> HIDE DEF G, F
  <2> QED
    BY <2>3
<1>6. F[n] = e /\ n \in 1..n
  OBVIOUS
<1> HIDE DEF G, F
<1>7. FlattenSeq(seqs) = e
  BY <1>2, <1>5, <1>6
<1> QED
  BY <1>7 DEF seqs

\* What entries are made of: items and keys.
Piece == Int \cup (Int \X Int)

LEMMA OprfInjective ==
  ASSUME NEW t \in Int, NEW k \in Int, NEW u \in Int, NEW l \in Int,
         NEW e \in Seq(Piece), NEW f \in Seq(Piece)
  PROVE  /\ Oprf(t, k, e) \in Seq(Piece)
         /\ Len(Oprf(t, k, e)) = Len(e) + 1
         /\ Oprf(t, k, e)[Len(e) + 1] = <<t, k>>
         /\ Oprf(t, k, e) = Oprf(u, l, f) => t = u /\ k = l /\ e = f
<1> DEFINE x == <<t, k>>
           y == <<u, l>>
<1>1. x \in Piece /\ y \in Piece /\ (x = y <=> t = u /\ k = l)
  BY DEF Piece
<1> HIDE DEF x, y
<1>2. /\ Append(e, x) \in Seq(Piece) /\ Len(Append(e, x)) = Len(e) + 1
      /\ Append(e, x)[Len(e) + 1] = x
  BY <1>1, AppendProperties
<1>3. Append(e, x) = Append(f, y) <=> e = f /\ x = y
  BY <1>1, AppendInjective
<1> QED
  BY <1>1, <1>2, <1>3 DEF x, y, Oprf

LEMMA OprfSame ==
  ASSUME NEW c, NEW i, NEW j, NEW x, NEW y, Oprf(c, i, x) = Oprf(c, j, y),
         c \in Int, i \in Int, j \in Int, x \in Seq(Piece), y \in Seq(Piece)
  PROVE  i = j /\ x = y
<1>1. c = c /\ i = j /\ x = y
  BY OprfInjective
<1> QED
  BY <1>1

LEMMA OneMore ==
  ASSUME NEW t \in Int, NEW k \in Int, NEW e \in Seq(Piece)
  PROVE  Oprf(t, k, e) \in Seq(Piece) /\ Len(Oprf(t, k, e)) = Len(e) + 1
BY OprfInjective

LEMMA SameChannel ==
  ASSUME NEW t, NEW k, NEW e, NEW u, NEW l, NEW f, Oprf(t, k, e) = Oprf(u, l, f),
         t \in Int, k \in Int, e \in Seq(Piece), u \in Int, l \in Int, f \in Seq(Piece)
  PROVE  t = u
BY OprfInjective

LEMMA FlattenTable ==
  ASSUME NEW S, NEW b \in [Threads -> S]
  PROVE  flatten([t \in Threads |-> <<b[t]>>]) = [k \in 1..N |-> b[k-1]]
<1> DEFINE e == [k \in 1..N |-> b[k-1]]
           table == [t \in Threads |-> <<b[t]>>]
<1>1. e \in [1..N -> S] /\ N \in Nat \ {0}
  BY ProtocolAssumption DEF Threads
<1>2. Rows(table) = [k \in 1..N |-> <<e[k]>>]
  BY ProtocolAssumption DEF Rows, Threads
<1> HIDE DEF e, table
<1>3. FlattenSeq([k \in 1..N |-> <<e[k]>>]) = e
  BY <1>1, Flattened
<1>4. flatten(table) = e
  BY <1>2, <1>3 DEF flatten
<1> QED
  BY <1>4 DEF e, table

\* The second PRF of a client: row t is encoded in the channel of c as input
\* t+1, whatever the table that takes the results held before.
LEMMA Received ==
  ASSUME NEW c, NEW table, NEW old, table = [t \in Threads |-> table[t]],
         \A t \in Threads : table[t] = <<table[t][1]>>
  PROVE  \A t \in Threads :
           AddRows(old, AsRows(ot_receiver(c, flatten(table))))[t]
             = <<Oprf(c, t + 1, table[t][1])>>
<1> DEFINE b == [t \in Threads |-> table[t][1]]
           e == [k \in 1..N |-> b[k-1]]
           r == [k \in 1..N |-> Oprf(c, k, e[k])]
           rows == [k \in 1..N |-> <<r[k]>>]
<1>1. flatten(table) = e
  <2> DEFINE S == {b[t] : t \in Threads}
  <2>1. b \in [Threads -> S] /\ table = [t \in Threads |-> <<b[t]>>]
    OBVIOUS
  <2> HIDE DEF S, b
  <2> QED
    BY <2>1, FlattenTable
<1>2. Len(e) = N
  BY ProtocolAssumption
<1>3. ot_receiver(c, e) = r
  BY <1>2 DEF ot_receiver
<1>4. AsRows(r) = rows
  BY DEF AsRows
<1>5. ASSUME NEW t \in Threads
      PROVE  AddRows(old, rows)[t] = <<Oprf(c, t + 1, table[t][1])>>
  <2>1. /\ t + 1 \in DOMAIN rows
        /\ rows[t + 1] = <<Oprf(c, t + 1, table[t][1])>>
    <3>1. t + 1 \in 1..N /\ (t + 1) - 1 = t
      BY ProtocolAssumption DEF Threads
    <3> QED
      BY <3>1
  <2> HIDE DEF rows
  <2> QED
    BY <2>1 DEF AddRows
<1> HIDE DEF e, r, rows
<1> QED
  BY <1>1, <1>3, <1>4, <1>5

\* The second PRF of a server: as many rows as a server has elements.
LEMMA Sent ==
  ASSUME NEW c, NEW table, NEW old
  PROVE  AddRows(old, fromServerOprfData(ot_sender(c, Rows(table), N), SNELES))
           = [t \in Threads |->
                IF t >= SNELES THEN old[t]
                ELSE [m \in 1..Len(table[t]) |-> Oprf(c, t + 1, table[t][m])]]
<1> DEFINE rows == fromServerOprfData(ot_sender(c, Rows(table), N), SNELES)
<1>1. DOMAIN rows = 1..SNELES
  BY DEF fromServerOprfData
<1>2. ASSUME NEW t \in Threads
      PROVE  /\ t + 1 \in DOMAIN rows <=> ~ t >= SNELES
             /\ t + 1 \in DOMAIN rows =>
                  rows[t + 1] = [m \in 1..Len(table[t]) |-> Oprf(c, t + 1, table[t][m])]
  <2>1. t + 1 \in 1..SNELES <=> ~ t >= SNELES
    BY ProtocolAssumption DEF Threads
  <2>2. t + 1 \in 1..N /\ (t + 1) - 1 = t
    BY ProtocolAssumption DEF Threads
  <2>3. Rows(table)[t + 1] = table[t]
    BY <2>2 DEF Rows
  <2>4. t + 1 \in 1..SNELES => rows[t + 1] = ot_sender(c, Rows(table), N)[t + 1]
    BY <2>2 DEF fromServerOprfData, ot_sender
  <2>5. ot_sender(c, Rows(table), N)[t + 1] =
          [m \in 1..Len(Rows(table)[t+1]) |-> Oprf(c, t + 1, Rows(table)[t+1][m])]
    BY <2>2 DEF ot_sender
  <2> QED
    BY <1>1, <2>1, <2>3, <2>4, <2>5
<1> HIDE DEF rows
<1>3. AddRows(old, rows) = [t \in Threads |->
                IF t >= SNELES THEN old[t]
                ELSE [m \in 1..Len(table[t]) |-> Oprf(c, t + 1, table[t][m])]]
  BY <1>2 DEF AddRows
<1> QED
  BY <1>3 DEF rows

\* The first PRF: one input, one row.
LEMMA FirstRows ==
  ASSUME NEW t
  PROVE  /\ ot_receiver(t, queryRow) = <<Oprf(t, 1, <<QueryItem>>)>>
         /\ fromServerOprfData(ot_sender(t, <<elementsRow>>, 1), 1)[1]
              = [k \in 1..SNELES |-> Oprf(t, 1, <<k>>)]
<1>1. Len(queryRow) = 1 /\ queryRow[1] = <<QueryItem>>
  BY DEF queryRow
<1>2. ot_receiver(t, queryRow) = [k \in 1..1 |-> Oprf(t, k, queryRow[k])]
  BY <1>1 DEF ot_receiver
<1>3. [k \in 1..1 |-> Oprf(t, k, queryRow[k])] = <<Oprf(t, 1, <<QueryItem>>)>>
  <2> DEFINE x == Oprf(t, 1, <<QueryItem>>)
             f == [k \in 1..1 |-> Oprf(t, k, queryRow[k])]
  <2>1. f[1] = x
    BY <1>1
  <2>2. DOMAIN f = 1..1 /\ f = [k \in 1..1 |-> f[k]]
    OBVIOUS
  <2> HIDE DEF f, x
  <2>3. f = <<x>>
    BY <2>1, <2>2
  <2> QED
    BY <2>3 DEF f, x
<1>4. DOMAIN ot_sender(t, <<elementsRow>>, 1) = 1..1
  BY DEF ot_sender
<1>5. fromServerOprfData(ot_sender(t, <<elementsRow>>, 1), 1)[1]
        = ot_sender(t, <<elementsRow>>, 1)[1]
  BY <1>4 DEF fromServerOprfData
<1>6. ot_sender(t, <<elementsRow>>, 1)[1]
        = [m \in 1..Len(elementsRow) |-> Oprf(t, 1, elementsRow[m])]
  <2> DEFINE row == elementsRow
  <2> HIDE DEF row
  <2>1. ot_sender(t, <<row>>, 1)[1] = [m \in 1..Len(row) |-> Oprf(t, 1, row[m])]
    BY DEF ot_sender
  <2> QED
    BY <2>1 DEF row
<1>7. Len(elementsRow) = SNELES /\ \A m \in 1..SNELES : elementsRow[m] = <<m>>
  BY ProtocolAssumption DEF elementsRow
<1> QED
  BY <1>2, <1>3, <1>5, <1>6, <1>7
-----------------------------------------------------------------------------
\* The servers whose rows are looked up, if they hold the element.
Found == {t \in Threads : t < SNELES /\ QueryItem <= SNELES}

\* Where the search finds them: identifier t + 1, row t, the element asked for.
FoundAt == {<<t + 1, t, QueryItem>> : t \in Found}

\* The identifiers and the rows in which they are looked up: both went through
\* the second PRF in channel c, after a first that told the entries apart.  A
\* row that did not go through the second one has no identifier in it.
Identifiers(c, asked) == [k \in 1..N |-> Oprf(c, k, asked[k-1])]
LookedUp(c, held, t)  == [k \in 1..SNELES |-> Oprf(c, t + 1, held[t][k])]
Comparable(c, asked, held, table) ==
  /\ c \in Int /\ asked \in [Threads -> Seq(Piece)]
  /\ held \in [Threads -> [1..SNELES -> Seq(Piece)]]
  /\ \A t \in Threads, k \in 1..SNELES : asked[t] = held[t][k] <=> k = QueryItem
  /\ \A t \in Threads : t < SNELES => table[t] = LookedUp(c, held, t)
  /\ \A t \in Threads, u \in Threads, k \in 1..SNELES :
       t >= SNELES /\ k <= Len(table[t]) => table[t][k] # Oprf(c, u + 1, asked[u])

\* Row t is looked up among all rows, and found in its own only.
LEMMA Matching ==
  ASSUME NEW c, NEW asked, NEW held, NEW table, Comparable(c, asked, held, table)
  PROVE  Matches(Identifiers(c, asked), table) = FoundAt
<1> SUFFICES
      ASSUME c \in Int, asked \in [Threads -> Seq(Piece)],
             held \in [Threads -> [1..SNELES -> Seq(Piece)]],
             \A t \in Threads, k \in 1..SNELES : asked[t] = held[t][k] <=> k = QueryItem,
             \A t \in Threads : t < SNELES =>
               table[t] = [k \in 1..SNELES |-> Oprf(c, t + 1, held[t][k])],
             \A t \in Threads, u \in Threads, k \in 1..SNELES :
               t >= SNELES /\ k <= Len(table[t]) => table[t][k] # Oprf(c, u + 1, asked[u])
      PROVE  Matches([k \in 1..N |-> Oprf(c, k, asked[k-1])], table)
               = {<<t + 1, t, QueryItem>> : t \in Found}
  BY DEF Comparable, Identifiers, LookedUp, FoundAt
<1> DEFINE q == [k \in 1..N |-> Oprf(c, k, asked[k-1])]
<1>1. Len(q) = N
  BY ProtocolAssumption
<1>2. \A i \in 1..N : i - 1 \in Threads /\ (i - 1) + 1 = i
  BY ProtocolAssumption DEF Threads
<1>3. \A t \in Threads : t \in Int /\ t + 1 \in 1..N /\ (t + 1) - 1 = t
  BY ProtocolAssumption DEF Threads
<1>4. ASSUME NEW i \in 1..N, NEW t \in Threads, NEW k \in 1..SNELES
      PROVE  (k <= Len(table[t]) /\ q[i] = table[t][k])
               <=> (t < SNELES /\ i = t + 1 /\ k = QueryItem)
  <2>0. q[i] = Oprf(c, i, asked[i-1]) /\ i - 1 \in Threads /\ (i - 1) + 1 = i
    BY <1>2
  <2> HIDE DEF q
  <2>1. CASE t >= SNELES
    <3>1. ~(t < SNELES)
      BY <2>1, <1>3, ProtocolAssumption
    <3>2. ~(k <= Len(table[t]) /\ q[i] = table[t][k])
      BY <2>0, <2>1
    <3> QED
      BY <3>1, <3>2
  <2>2. CASE t < SNELES
    <3>1. table[t] = [j \in 1..SNELES |-> Oprf(c, t + 1, held[t][j])]
      BY <2>2
    <3>2. Len(table[t]) = SNELES /\ table[t][k] = Oprf(c, t + 1, held[t][k])
      BY <3>1, ProtocolAssumption
    <3> DEFINE x == asked[i-1]
               y == held[t][k]
               j == t + 1
    <3>3. x \in Seq(Piece) /\ y \in Seq(Piece) /\ i \in Int /\ j \in Int
      <4>1. x \in Seq(Piece)
        BY <2>0
      <4>2. y \in Seq(Piece)
        <5> DEFINE row == held[t]
        <5>1. row \in [1..SNELES -> Seq(Piece)]
          OBVIOUS
        <5> HIDE DEF row
        <5>2. row[k] \in Seq(Piece)
          BY <5>1
        <5> QED
          BY <5>2 DEF row
      <4>3. i \in Int /\ j \in Int
        BY <1>3
      <4> QED
        BY <4>1, <4>2, <4>3
    <3>4. q[i] = table[t][k] <=> i = t + 1 /\ asked[i-1] = held[t][k]
      <4>1. q[i] = Oprf(c, i, x) /\ table[t][k] = Oprf(c, j, y)
        BY <2>0, <3>2
      <4> HIDE DEF x, y, j
      <4>2. ASSUME Oprf(c, i, x) = Oprf(c, j, y)
            PROVE  i = j /\ x = y
        <5>1. c \in Int
          OBVIOUS
        <5> QED
          BY ONLY <3>3, <4>2, <5>1, OprfSame
      <4> QED
        BY <4>1, <4>2 DEF x, y, j
    <3>5. i = t + 1 => i - 1 = t
      BY <1>3
    <3>6. k <= SNELES
      BY ProtocolAssumption
    <3> QED
      BY <2>2, <3>2, <3>4, <3>5, <3>6
  <2> QED
    BY <1>3, <2>1, <2>2, ProtocolAssumption
<1>5. QueryItem <= SNELES <=> QueryItem \in 1..SNELES
  BY ProtocolAssumption
<1>6. ASSUME NEW m \in Matches(q, table)
      PROVE  m \in {<<t + 1, t, QueryItem>> : t \in Found}
  <2>1. PICK i \in 1..N, t \in Threads, k \in 1..SNELES : m = <<i, t, k>>
    <3> HIDE DEF q
    <3>1. m \in (1..N) \X Threads \X (1..SNELES)
      BY <1>1 DEF Matches
    <3> QED
      BY <3>1
  <2>2. k <= Len(table[t]) /\ q[i] = table[t][k]
    BY <2>1 DEF Matches
  <2>3. t < SNELES /\ i = t + 1 /\ k = QueryItem
    BY <1>4, <2>2
  <2> QED
    BY <1>5, <2>1, <2>3 DEF Found
<1>7. ASSUME NEW t \in Found
      PROVE  <<t + 1, t, QueryItem>> \in Matches(q, table)
  <2>1. t \in Threads /\ t < SNELES /\ QueryItem \in 1..SNELES /\ t + 1 \in 1..N
    BY <1>3, <1>5 DEF Found
  <2>2. QueryItem <= Len(table[t]) /\ q[t + 1] = table[t][QueryItem]
    BY <1>4, <2>1
  <2> HIDE DEF q
  <2> QED
    BY <1>1, <2>1, <2>2 DEF Matches
<1> HIDE DEF q
<1>8. Matches(q, table) = {<<t + 1, t, QueryItem>> : t \in Found}
  BY <1>6, <1>7
<1> QED
  BY <1>8 DEF q

\* The sums of the models, as sums of functions.
LEMMA MatchSumIs ==
  ASSUME NEW query, NEW table, NEW data, IsFiniteSet(Matches(query, table))
  PROVE  MatchSum(query, table, data) =
           SumFunctionOnSet([m \in Matches(query, table) |-> data[m[2]][m[3]]],
                            Matches(query, table))
<1> DEFINE S == Matches(query, table)
           h == [m \in S |-> data[m[2]][m[3]]]
           g == CHOOSE f : f = [s \in SUBSET S |->
                  IF s = {} THEN 0
                  ELSE data[(CHOOSE x \in s : TRUE)[2]][(CHOOSE x \in s : TRUE)[3]]
                         + f[s \ {CHOOSE x \in s : TRUE}]]
<1>1. MatchSum(query, table, data) = g[S]
  BY DEF MatchSum, MapThenSumSet, MapThenFoldSet
<1> HIDE DEF S
<1>2. \A s \in SUBSET S : s # {} => h[Chosen(s)] = data[Chosen(s)[2]][Chosen(s)[3]]
  BY ChosenIn
<1>3. IsFold(g, h, S)
  <2>1. PICK f : IsFold(f, h, S)
    BY FoldExists DEF S
  <2>2. f = [s \in SUBSET S |->
               IF s = {} THEN 0 ELSE h[Chosen(s)] + f[s \ {Chosen(s)}]]
    BY <2>1 DEF IsFold
  <2> HIDE DEF h
  <2>3. f = [s \in SUBSET S |->
               IF s = {} THEN 0
               ELSE data[Chosen(s)[2]][Chosen(s)[3]] + f[s \ {Chosen(s)}]]
    BY <1>2, <2>2
  <2>4. g = [s \in SUBSET S |->
               IF s = {} THEN 0
               ELSE data[Chosen(s)[2]][Chosen(s)[3]] + g[s \ {Chosen(s)}]]
    BY <2>3 DEF Chosen
  <2> HIDE DEF g
  <2>5. g = [s \in SUBSET S |->
               IF s = {} THEN 0 ELSE h[Chosen(s)] + g[s \ {Chosen(s)}]]
    BY <1>2, <2>4
  <2> QED
    BY <2>5 DEF IsFold
<1>4. PICK f : IsFold(f, h, S) /\ SumFunctionOnSet(h, S) = f[S]
  BY SumIsFold DEF S
<1> HIDE DEF h, g
<1>5. IsFiniteSet(S)
  BY DEF S
<1>6. f[S] = g[S]
  BY <1>3, <1>4, <1>5, FoldsAgree
<1> QED
  BY <1>1, <1>4, <1>6 DEF h, S

LEMMA FiniteThreads ==
  /\ IsFiniteSet(Threads) /\ Found \subseteq Threads /\ IsFiniteSet(Found)
<1>1. IsFiniteSet(Threads)
  BY ProtocolAssumption, FS_Interval DEF Threads
<1>2. Found \subseteq Threads
  BY DEF Found
<1> QED
  BY <1>1, <1>2, FS_Subset

\* What is summed up over the matches, by server.
LEMMA ByServer ==
  ASSUME NEW h, NEW k, \A t \in Found : k[t] \in Int /\ h[<<t + 1, t, QueryItem>>] = k[t]
  PROVE  /\ IsFiniteSet(FoundAt)
         /\ SumFunctionOnSet(h, FoundAt)
              = SumFunctionOnSet(k, Found)
<1> DEFINE r == [t \in Found |-> <<t + 1, t, QueryItem>>]
           I == {r[x] : x \in Found}
<1>1. I = FoundAt
  BY DEF FoundAt
<1>2. /\ \A x, y \in Found : r[x] = r[y] => x = y
      /\ \A x \in Found : k[x] \in Int /\ h[r[x]] = k[x]
  OBVIOUS
<1>3. r \in Surjection(Found, I)
  BY DEF Surjection
<1> HIDE DEF r
<1>4. SumFunctionOnSet(h, I) = SumFunctionOnSet(k, Found)
  BY <1>2, FiniteThreads, SumRenamed
<1> HIDE DEF I
<1>5. IsFiniteSet(I)
  BY <1>3, FiniteThreads, FS_Surjection
<1> QED
  BY <1>1, <1>4, <1>5

LEMMA FoundSum ==
  ASSUME NEW q, NEW table, NEW data,
         Matches(q, table) = FoundAt,
         \A t \in Found : data[t][QueryItem] \in Int
  PROVE  MatchSum(q, table, data)
           = SumFunctionOnSet([t \in Threads |-> data[t][QueryItem]], Found)
<1> DEFINE h == [m \in FoundAt |-> data[m[2]][m[3]]]
           k == [t \in Threads |-> data[t][QueryItem]]
<1>1. \A t \in Found : k[t] \in Int /\ h[<<t + 1, t, QueryItem>>] = k[t]
  BY FiniteThreads DEF FoundAt
<1>2. IsFiniteSet(FoundAt) /\ SumFunctionOnSet(h, FoundAt) = SumFunctionOnSet(k, Found)
  <2> HIDE DEF h, k
  <2> QED
    BY <1>1, ByServer
<1>3. MatchSum(q, table, data) = SumFunctionOnSet(h, FoundAt)
  BY <1>2, MatchSumIs
<1> QED
  BY <1>2, <1>3

\* The sum that the client is promised.
SumAt(payload, S) == MapThenSumSet(LAMBDA s : payload[s][QueryItem], S)

LEMMA SumAtIs ==
  ASSUME NEW payload, NEW S, IsFiniteSet(S)
  PROVE  SumAt(payload, S) =
           SumFunctionOnSet([t \in S |-> payload[t][QueryItem]], S)
<1> DEFINE h == [t \in S |-> payload[t][QueryItem]]
           g == CHOOSE f : f = [s \in SUBSET S |->
                  IF s = {} THEN 0
                  ELSE payload[CHOOSE x \in s : TRUE][QueryItem]
                         + f[s \ {CHOOSE x \in s : TRUE}]]
<1>1. SumAt(payload, S) = g[S]
  BY DEF SumAt, MapThenSumSet, MapThenFoldSet
<1>2. \A s \in SUBSET S : s # {} => h[Chosen(s)] = payload[Chosen(s)][QueryItem]
  BY ChosenIn
<1>3. IsFold(g, h, S)
  <2>1. PICK f : IsFold(f, h, S)
    BY FoldExists
  <2>2. f = [s \in SUBSET S |->
               IF s = {} THEN 0 ELSE h[Chosen(s)] + f[s \ {Chosen(s)}]]
    BY <2>1 DEF IsFold
  <2> HIDE DEF h
  <2>3. f = [s \in SUBSET S |->
               IF s = {} THEN 0
               ELSE payload[Chosen(s)][QueryItem] + f[s \ {Chosen(s)}]]
    BY <1>2, <2>2
  <2>4. g = [s \in SUBSET S |->
               IF s = {} THEN 0
               ELSE payload[Chosen(s)][QueryItem] + g[s \ {Chosen(s)}]]
    BY <2>3 DEF Chosen
  <2> HIDE DEF g
  <2>5. g = [s \in SUBSET S |->
               IF s = {} THEN 0 ELSE h[Chosen(s)] + g[s \ {Chosen(s)}]]
    BY <1>2, <2>4
  <2> QED
    BY <2>5 DEF IsFold
<1>4. PICK f : IsFold(f, h, S) /\ SumFunctionOnSet(h, S) = f[S]
  BY SumIsFold
<1> HIDE DEF h, g
<1>5. f[S] = g[S]
  BY <1>3, <1>4, FoldsAgree
<1> QED
  BY <1>1, <1>4, <1>5 DEF h

\* With as many elements as servers nobody is left out.
LEMMA SumOfAll ==
  ASSUME SNELES >= N, NEW payload, \A t \in Threads : DOMAIN payload[t] = 1..SNELES
  PROVE  SumAt(payload, {s \in Threads : QueryItem \in DOMAIN payload[s]})
           = SumFunctionOnSet([t \in Threads |-> payload[t][QueryItem]], Found)
<1>1. {s \in Threads : QueryItem \in DOMAIN payload[s]} = Found
  BY ProtocolAssumption DEF Found, Threads
<1> DEFINE h == [t \in Found |-> payload[t][QueryItem]]
           k == [t \in Threads |-> payload[t][QueryItem]]
<1>2. SumAt(payload, Found) = SumFunctionOnSet(h, Found)
  BY FiniteThreads, SumAtIs
<1>3. \A t \in Found : h[t] = k[t]
  BY FiniteThreads
<1>4. SumFunctionOnSet(h, Found) = SumFunctionOnSet(k, Found)
  <2> HIDE DEF h, k
  <2> QED
    BY <1>3, FiniteThreads, SumSame
<1> QED
  BY <1>1, <1>2, <1>4

-----------------------------------------------------------------------------
(* A flag between two uses, and the types of rows.                         *)

\* The special thread leaves a flag behind that is 0, and it stays 0.
AtRest(s, pc, flag) == pc[s.special] \notin Inside(s) => flag = 0
StaysZero(s, t, from, to, flag, flagn) ==
  /\ t = s.special /\ from \in Inside(s) => to \in Inside(s) \/ flagn = 0
  /\ \/ flagn = flag \/ flagn = 0
     \/ t \in s.arrivers \cup {s.special} /\ from \in s.before

LEMMA StaysAtRest ==
  ASSUME NEW s, NEW pc, NEW pcn, NEW t, NEW from, NEW to, NEW flag, NEW flagn,
         IsSite(s), Meets(s, pc, flag), Goes(s, pc, pcn, t, from, to),
         AtRest(s, pc, flag), StaysZero(s, t, from, to, flag, flagn)
  PROVE  AtRest(s, pcn, flagn)
<1> SUFFICES ASSUME pcn[s.special] \notin Inside(s) PROVE flagn = 0
  BY DEF AtRest
<1>1. /\ t \in s.threads /\ pc[t] = from /\ pcn[t] = to
      /\ \A u \in s.threads : u # t => pcn[u] = pc[u]
      /\ s.special \in s.threads
  BY GoesFacts
<1>2. s.before \subseteq Inside(s)
  BY DEF Inside
<1>3. CASE t = s.special
  BY <1>1, <1>2, <1>3 DEF StaysZero, AtRest
<1>4. CASE t # s.special
  <2>1. pc[s.special] \notin Inside(s) /\ flag = 0
    BY <1>1, <1>4 DEF AtRest
  <2>2. \A u \in s.arrivers : pc[u] \notin s.before
    BY <2>1, AllMet
  <2> QED
    BY <1>1, <1>4, <2>1, <2>2 DEF StaysZero
<1> QED
  BY <1>3, <1>4

\* A flag is never above the number of threads that count.
LEMMA FlagBound ==
  ASSUME NEW s, NEW pc, NEW flag, IsSite(s), Meets(s, pc, flag), AtRest(s, pc, flag),
         NEW n \in Nat, Cardinality(s.arrivers) = n
  PROVE  flag \in 0..n
<1>1. CASE pc[s.special] \notin Inside(s)
  BY <1>1 DEF AtRest
<1>2. CASE pc[s.special] \in Inside(s)
  <2>1. flag = Cardinality(Arrived(s, pc))
    BY <1>2 DEF Meets
  <2>2. Arrived(s, pc) \subseteq s.arrivers /\ IsFiniteSet(s.arrivers)
    BY DEF Arrived, IsSite
  <2>3. Cardinality(Arrived(s, pc)) <= Cardinality(s.arrivers)
    BY <2>2, FS_Subset
  <2>4. Cardinality(Arrived(s, pc)) \in Nat
    BY Arrivals
  <2> QED
    BY <2>1, <2>3, <2>4
<1> QED
  BY <1>1, <1>2

\* A row with an entry put at its end, entry by entry.
HasEntryAdded(S, s, b) ==
  /\ Append(s, b) \in Seq(S)
  /\ Len(Append(s, b)) = Len(s) + 1
  /\ Append(s, b)[Len(s) + 1] = b
  /\ \A i \in 1..Len(s) : Append(s, b)[i] = s[i]

LEMMA EntryAdded ==
  ASSUME NEW S, NEW s \in Seq(S), NEW b \in S
  PROVE  HasEntryAdded(S, s, b)
BY AppendProperties DEF HasEntryAdded

\* A row of two is a row of one with its last entry put at its end.
LEMMA SecondEntry ==
  ASSUME NEW S, NEW s \in Seq(S), NEW r \in Seq(S), NEW b \in S,
         Len(s) = 1, Len(r) = 2, s[1] = r[1], r[2] = b
  PROVE  Append(s, b) = r
<1> DEFINE q == Append(s, b)
<1>0. HasEntryAdded(S, s, b)
  BY EntryAdded
<1>1. /\ q \in Seq(S) /\ Len(q) = Len(s) + 1 /\ q[Len(s) + 1] = b
      /\ \A i \in 1..Len(s) : q[i] = s[i]
  BY <1>0 DEF HasEntryAdded
<1> HIDE DEF q
<1>2. q[1] = s[1] /\ q[2] = b /\ Len(q) = 2
  BY <1>1
<1>3. \A i \in 1..2 : q[i] = r[i]
  <2> TAKE i \in 1..2
  <2>1. i = 1 \/ i = 2
    OBVIOUS
  <2> QED
    BY <1>2, <2>1
<1>4. q = r
  BY <1>1, <1>2, <1>3, SeqEqual
<1> QED
  BY <1>4 DEF q

\* A row of three is a row of two with its last entry put at its end.
LEMMA ThirdEntry ==
  ASSUME NEW S, NEW s \in Seq(S), NEW r \in Seq(S), NEW b \in S,
         Len(s) = 2, Len(r) = 3, s[1] = r[1], s[2] = r[2], r[3] = b
  PROVE  Append(s, b) = r
<1> DEFINE q == Append(s, b)
<1>0. HasEntryAdded(S, s, b)
  BY EntryAdded
<1>1. /\ q \in Seq(S) /\ Len(q) = Len(s) + 1 /\ q[Len(s) + 1] = b
      /\ \A i \in 1..Len(s) : q[i] = s[i]
  BY <1>0 DEF HasEntryAdded
<1> HIDE DEF q
<1>2. q[1] = s[1] /\ q[2] = s[2] /\ q[3] = b /\ Len(q) = 3
  BY <1>1
<1>3. \A i \in 1..3 : q[i] = r[i]
  <2> TAKE i \in 1..3
  <2>1. i = 1 \/ i = 2 \/ i = 3
    OBVIOUS
  <2> QED
    BY <1>2, <2>1
<1>4. q = r
  BY <1>1, <1>2, <1>3, SeqEqual
<1> QED
  BY <1>4 DEF q

\* A row of no entry or of one.
LEMMA NoneOrOne ==
  ASSUME NEW S, NEW v \in S, NEW r, r = <<>> \/ r = <<v>>
  PROVE  r \in Seq(S)
<1>1. <<>> \in Seq(S) /\ <<v>> \in Seq(S)
  OBVIOUS
<1>2. CASE r = <<>>
  BY <1>1, <1>2, Zenon
<1>3. CASE r = <<v>>
  BY <1>1, <1>3, Zenon
<1> QED
  BY <1>2, <1>3
=============================================================================
