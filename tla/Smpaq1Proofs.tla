---------------------------- MODULE Smpaq1Proofs ----------------------------
(***************************************************************************)
(* Proofs about a run of SMPAQ1, for any number of threads, elements and   *)
(* payloads: the arrival of the key, then the sockets, the six call sites  *)
(* of waitFor, and what has happened before a thread ends.                 *)
(*                                                                         *)
(* The server's first call site, on Sf2_Ng, stands between the arrival of  *)
(* the client's key and its use.  KeyInvariant counts the arrivals at that *)
(* site, as WaitForProofs does, and follows the key from the client's      *)
(* leader over the socket into ng.                                         *)
(*                                                                         *)
(* PairsInStep relates a client thread to the server thread of the same    *)
(* number and to what is on the way between the two.  ClientMeets and      *)
(* ServerMeets count the arrivals at every site of either process.         *)
(***************************************************************************)
EXTENDS Smpaq1, RunProofs

\* The part of the invariant that is about the server's flag and labels only.
SiteInvariant == Places /\ NgCounts /\ CenterAfterAll /\ OthersAfterCenter

\* The labels, as the sets the threads' places are drawn from.
LEMMA Labels ==
  /\ {"recvKey", "incNg", "waitNg", "resetNg", "encrypt",
      "inc2", "wait2", "func2", "reset2",
      "oprf1", "inc1", "wait1", "func1", "reset1",
      "oprf2", "inc3", "wait3", "reset3",
      "search", "sciSend", "sciRecv", "done"} \subseteq Range(SOrder)
  /\ {"sendKey", "oprf1", "inc1", "wait1", "func1", "reset1",
      "oprf2", "inc2", "wait2", "reset2", "send", "recv", "sci", "done"}
     \subseteq Range(COrder)
BY DEF Range, SOrder, COrder

\* There are two threads at least, so the leader is not the center.
LEMMA Roles ==
  /\ Leader \in Threads /\ Center \in Threads
  /\ Leader # Center /\ Leader \in Others
  /\ Others \subseteq Threads /\ Center \notin Others
  /\ N - 1 \in Nat \ {0}
BY ProtocolAssumption DEF Threads, Leader, Center, Others

\* The others are n-1 threads, so n-1 of them are all of them.
LEMMA CountOfOthers ==
  ASSUME NEW S \in SUBSET Others
  PROVE  /\ IsFiniteSet(S)
         /\ Cardinality(S) \in Nat
         /\ Cardinality(Others) = N-1
         /\ Cardinality(S) = N-1 => S = Others
         /\ Cardinality(S) = 0 <=> S = {}
<1>1. Others = 0..(N-2)
  BY ProtocolAssumption DEF Others, Threads, Center
<1>2. IsFiniteSet(Others) /\ Cardinality(Others) = N-1
  BY <1>1, FS_Interval, ProtocolAssumption
<1>3. IsFiniteSet(S) /\ (Cardinality(S) = Cardinality(Others) => S = Others)
  BY <1>2, FS_Subset
<1>4. Cardinality(S) \in Nat /\ (Cardinality(S) = 0 <=> S = {})
  BY <1>3, FS_CardinalityType, FS_EmptySet
<1> QED
  BY <1>2, <1>3, <1>4

\* The key has not been received, nobody has been counted.
LEMMA InitKey == Init => KeyInvariant
<1> SUFFICES ASSUME Init
             PROVE  KeyInvariant
  OBVIOUS
<1>1. /\ spc = [t \in Threads |-> IF t = Leader THEN "recvKey"
                                  ELSE IF t = Center THEN "waitNg" ELSE "incNg"]
      /\ cpc = [t \in Threads |-> IF t = Leader THEN "sendKey"
                                  ELSE IF t = Center THEN "wait1" ELSE "oprf1"]
      /\ Sf2_Ng = 0
      /\ up = [t \in Threads |-> <<>>]
  BY DEF Init
<1>2. spc[Center] = "waitNg" /\ spc[Leader] = "recvKey"
  BY <1>1, Roles
<1>3. counted = {}
  BY <1>1, Roles DEF counted
<1>4. Places
  <2>1. spc \in [Threads -> Range(SOrder)]
    BY <1>1, Labels
  <2>2. ASSUME NEW t \in Threads
        PROVE  /\ spc[t] = "recvKey" => t = Leader
               /\ spc[t] # "resetNg"
    BY <1>1
  <2> QED
    BY <1>2, <2>1, <2>2 DEF Places
<1>5. NgCounts
  BY <1>1, <1>2, <1>3, FS_EmptySet DEF NgCounts, EarlyLabels
<1>6. CenterAfterAll /\ OthersAfterCenter
  BY <1>1, <1>2, Roles DEF CenterAfterAll, OthersAfterCenter, EarlyLabels
<1>7. KeyUnderWay
  <2>1. cpc \in [Threads -> Range(COrder)] /\ DOMAIN up = Threads
    BY <1>1, Labels
  <2>2. cpc[Leader] = "sendKey" /\ up[Leader] = <<>>
    BY <1>1, Roles
  <2> QED
    BY <1>2, <2>1, <2>2 DEF KeyUnderWay
<1> QED
  BY <1>4, <1>5, <1>6, <1>7 DEF KeyInvariant

\* What a step of a server thread must not do to keep Places.
LEMMA PlacesStep ==
  ASSUME Places, NEW t \in Threads, NEW to \in Range(SOrder),
         spc' = [spc EXCEPT ![t] = to],
         to # "recvKey", to = "resetNg" => t = Center,
         t = Center => to # "incNg"
  PROVE  Places'
BY Roles DEF Places

\* A step of a server thread that is past the site leaves the site alone.
LEMMA PastSite ==
  ASSUME SiteInvariant, NEW t \in Threads, NEW to \in Range(SOrder),
         SGoto(t, spc[t], to), spc[t] \notin EarlyLabels, to \notin EarlyLabels,
         Sf2_Ng' = Sf2_Ng
  PROVE  SiteInvariant'
<1> USE DEF SiteInvariant
<1>1. /\ spc \in [Threads -> Range(SOrder)]
      /\ spc' = [spc EXCEPT ![t] = to]
  BY DEF SGoto, Places
<1>2. counted' = counted
  BY <1>1, Roles DEF counted, EarlyLabels
<1>3. Places'
  BY <1>1, Roles DEF Places, EarlyLabels
<1>4. NgCounts'
  BY <1>1, <1>2, Roles DEF NgCounts
<1>5. CenterAfterAll'
  BY <1>1, <1>2, Roles DEF CenterAfterAll, EarlyLabels
<1>6. OthersAfterCenter'
  BY <1>1, Roles DEF OthersAfterCenter
<1> QED
  BY <1>3, <1>4, <1>5, <1>6

\* A step that neither moves a server thread nor touches the flag, too.
LEMMA NoServerStep ==
  ASSUME SiteInvariant, UNCHANGED <<spc, Sf2_Ng>>
  PROVE  SiteInvariant'
<1>1. counted' = counted
  BY DEF counted
<1> QED
  BY <1>1 DEF SiteInvariant, Places, NgCounts, CenterAfterAll, OthersAfterCenter

\* An arrival at the site.
LEMMA ArrivalStep ==
  ASSUME SiteInvariant, NEW t \in Threads, SIncNg(t)
  PROVE  SiteInvariant'
<1> USE DEF SiteInvariant
<1>1. /\ spc \in [Threads -> Range(SOrder)] /\ spc[t] = "incNg"
      /\ spc' = [spc EXCEPT ![t] = "waitNg"]
      /\ Sf2_Ng' = Sf2_Ng + 1
  BY DEF SIncNg, SGoto, Places
<1>2. t # Center /\ t \in Others
  BY <1>1 DEF Places, Others
<1>3. counted' = counted \cup {t} /\ t \notin counted
  BY <1>1, <1>2, Roles DEF counted
<1>4. /\ IsFiniteSet(counted) /\ Cardinality(counted) \in Nat
      /\ Cardinality(counted') = Cardinality(counted) + 1
  <2>1. counted \in SUBSET Others
    BY DEF counted
  <2> QED
    BY <2>1, <1>3, CountOfOthers, FS_AddElement
<1>5. spc[Center] = "waitNg" /\ spc'[Center] = "waitNg"
  BY <1>1, <1>2, <1>3, Roles DEF CenterAfterAll
<1>6. Places'
  BY <1>1, <1>2, PlacesStep, Labels
<1>7. NgCounts'
  BY <1>1, <1>4, <1>5 DEF NgCounts, EarlyLabels
<1>8. CenterAfterAll' /\ OthersAfterCenter'
  BY <1>1, <1>2, <1>5, Roles DEF CenterAfterAll, OthersAfterCenter, EarlyLabels
<1> QED
  BY <1>6, <1>7, <1>8

\* A successful poll at the site.
LEMMA PollStep ==
  ASSUME SiteInvariant, NEW t \in Threads, SWaitNg(t)
  PROVE  SiteInvariant'
<1> USE DEF SiteInvariant
<1>0. spc \in [Threads -> Range(SOrder)] /\ counted \in SUBSET Others
  BY DEF Places, counted
<1>1. CASE t = Center
  <2>1. /\ Sf2_Ng = N-1 /\ spc[Center] = "waitNg" /\ Sf2_Ng' = Sf2_Ng
        /\ spc' = [spc EXCEPT ![Center] = "resetNg"]
    BY <1>1 DEF SWaitNg, SGoto, Quits, serverFlags
  <2>2. counted' = counted
    BY <1>0, <2>1, Roles DEF counted
  <2>3. counted = Others
    <3>1. Cardinality(counted) = N-1
      BY <2>1 DEF NgCounts, EarlyLabels
    <3> QED
      BY <1>0, <3>1, CountOfOthers
  <2>4. Places'
    BY <1>0, <2>1, PlacesStep, Labels, Roles
  <2>5. NgCounts'
    BY <1>0, <2>1, <2>2, Roles DEF NgCounts, EarlyLabels
  <2>6. CenterAfterAll'
    BY <2>2, <2>3, Roles DEF CenterAfterAll, Others
  <2>7. OthersAfterCenter'
    BY <1>0, <2>1, Roles DEF OthersAfterCenter, EarlyLabels
  <2> QED
    BY <2>4, <2>5, <2>6, <2>7
<1>2. CASE t # Center
  <2>1. /\ Sf2_Ng = 0 /\ spc[t] = "waitNg" /\ Sf2_Ng' = Sf2_Ng
        /\ spc' = [spc EXCEPT ![t] = "encrypt"]
    BY <1>2 DEF SWaitNg, SGoto, Quits, serverFlags
  <2>2. t \in counted /\ counted' = counted
    BY <1>0, <1>2, <2>1, Roles DEF counted, Others
  <2>3. spc[Center] \notin EarlyLabels
    <3>1. Cardinality(counted) # 0
      BY <1>0, <2>2, CountOfOthers
    <3> QED
      BY <2>1, <3>1 DEF NgCounts
  <2>4. spc'[Center] = spc[Center]
    BY <1>0, <1>2, <2>1, Roles
  <2>5. Places'
    BY <1>2, <2>1, PlacesStep, Labels
  <2>6. NgCounts'
    BY <2>1, <2>2, <2>4 DEF NgCounts
  <2>7. CenterAfterAll'
    BY <2>2, <2>4 DEF CenterAfterAll, Others, Threads, Center
  <2>8. OthersAfterCenter'
    BY <2>3, <2>4 DEF OthersAfterCenter
  <2> QED
    BY <2>5, <2>6, <2>7, <2>8
<1> QED
  BY <1>1, <1>2

\* The center's reset.
LEMMA ResetStep ==
  ASSUME SiteInvariant, NEW t \in Threads, SResetNg(t)
  PROVE  SiteInvariant'
<1> USE DEF SiteInvariant
<1>1. /\ spc \in [Threads -> Range(SOrder)] /\ spc[t] = "resetNg" /\ Sf2_Ng' = 0
      /\ spc' = [spc EXCEPT ![t] = "encrypt"]
  BY DEF SResetNg, SGoto, Places
<1>2. t = Center
  BY <1>1 DEF Places
<1>3. counted' = counted /\ counted = Others
  BY <1>1, <1>2, Roles DEF counted, CenterAfterAll
<1>4. Places'
  BY <1>1, <1>2, PlacesStep, Labels
<1>5. NgCounts'
  BY <1>1, <1>2, Roles DEF NgCounts, EarlyLabels
<1>6. CenterAfterAll' /\ OthersAfterCenter'
  BY <1>1, <1>2, <1>3, Roles
     DEF CenterAfterAll, OthersAfterCenter, EarlyLabels, Others
<1> QED
  BY <1>4, <1>5, <1>6

\* The leader receives the key.
LEMMA ReceiveStep ==
  ASSUME SiteInvariant, NEW t \in Threads, SRecvKey(t)
  PROVE  SiteInvariant'
<1> USE DEF SiteInvariant
<1>1. /\ spc \in [Threads -> Range(SOrder)] /\ spc[t] = "recvKey" /\ Sf2_Ng' = Sf2_Ng
      /\ spc' = [spc EXCEPT ![t] = "incNg"]
  BY DEF SRecvKey, SGoto, Places, serverFlags
<1>2. t # Center /\ spc'[Center] = spc[Center]
  BY <1>1, Roles DEF Places
<1>3. counted' = counted
  BY <1>1, Roles DEF counted
<1>4. Places'
  BY <1>1, <1>2, PlacesStep, Labels
<1>5. NgCounts' /\ CenterAfterAll'
  BY <1>1, <1>2, <1>3 DEF NgCounts, CenterAfterAll, Others, Threads, Center
<1>6. OthersAfterCenter'
  BY <1>1, <1>2, Roles DEF OthersAfterCenter, EarlyLabels
<1> QED
  BY <1>4, <1>5, <1>6

\* Nobody but the named thread has its socket to the server touched.
OnlySocket(t) == /\ DOMAIN up' = Threads
                 /\ \A u \in Threads \ {t} : up'[u] = up[u]

\* A client step other than CSendKey leaves the key where it is: the leader is
\* in ot_receiver, which it cannot leave, until the server's leader has the key.
LEMMA KeyClientStep ==
  ASSUME KeyUnderWay, NEW t \in Threads, NEW to \in Range(COrder),
         cpc' = [cpc EXCEPT ![t] = to], cpc[t] # "sendKey",
         cpc[t] = "oprf1" => spc[t] = "oprf1",
         UNCHANGED <<spc, ng>>, OnlySocket(t)
  PROVE  KeyUnderWay'
<1>1. cpc' \in [Threads -> Range(COrder)] /\ DOMAIN up' = Threads
  BY DEF KeyUnderWay, OnlySocket
<1>2. CASE spc[Leader] = "recvKey"
  <2>1. t # Leader
    BY <1>2 DEF KeyUnderWay
  <2>2. cpc'[Leader] = cpc[Leader] /\ up'[Leader] = up[Leader]
    BY <2>1, Roles DEF KeyUnderWay, OnlySocket
  <2> QED
    BY <1>1, <1>2, <2>2 DEF KeyUnderWay
<1>3. CASE spc[Leader] # "recvKey"
  BY <1>1, <1>3 DEF KeyUnderWay
<1> QED
  BY <1>2, <1>3

\* A server step other than SRecvKey does, too.
LEMMA KeyServerStep ==
  ASSUME KeyUnderWay, Places, NEW t \in Threads, NEW to,
         spc' = [spc EXCEPT ![t] = to], spc[t] # "recvKey", to # "recvKey",
         UNCHANGED <<cpc, ng>>, OnlySocket(t)
  PROVE  KeyUnderWay'
<1>1. cpc' \in [Threads -> Range(COrder)] /\ DOMAIN up' = Threads
  BY DEF KeyUnderWay, OnlySocket
<1>2. CASE spc[Leader] = "recvKey"
  <2>1. t # Leader
    BY <1>2
  <2>2. spc'[Leader] = spc[Leader] /\ up'[Leader] = up[Leader]
    BY <2>1, Roles DEF Places, OnlySocket
  <2> QED
    BY <1>1, <1>2, <2>2 DEF KeyUnderWay
<1>3. CASE spc[Leader] # "recvKey"
  <2>1. spc'[Leader] # "recvKey"
    BY <1>3, Roles DEF Places
  <2> QED
    BY <1>1, <1>3, <2>1 DEF KeyUnderWay
<1> QED
  BY <1>2, <1>3

\* A step of a server thread that is past the site preserves the invariant.
LEMMA LaterStep ==
  ASSUME KeyInvariant, NEW t \in Threads, NEW to \in Range(SOrder),
         spc' = [spc EXCEPT ![t] = to],
         spc[t] \notin EarlyLabels, to \notin EarlyLabels,
         UNCHANGED <<cpc, ng, Sf2_Ng>>, OnlySocket(t)
  PROVE  KeyInvariant'
<1>1. SiteInvariant'
  BY PastSite DEF KeyInvariant, SiteInvariant, SGoto
<1>2. KeyUnderWay'
  BY KeyServerStep DEF KeyInvariant, EarlyLabels
<1> QED
  BY <1>1, <1>2 DEF KeyInvariant, SiteInvariant

\* Every step of a client thread preserves the invariant.
LEMMA ClientStep ==
  ASSUME KeyInvariant, NEW t \in Threads, Client(t)
  PROVE  KeyInvariant'
<1>1. UNCHANGED <<spc, Sf2_Ng, ng>>
  BY DEF Client, CSendKey, COprf1, CInc1, CWait1, CFunc1, CReset1, COprf2,
         CInc2, CWait2, CReset2, CSend, CRecv, CSci,
         serverVars, serverFlags, serverTables
<1>2. SiteInvariant'
  BY <1>1, NoServerStep DEF KeyInvariant, SiteInvariant
<1>3. KeyUnderWay'
  <2> USE DEF CGoto
  <2>0. KeyUnderWay /\ DOMAIN up = Threads /\ Places
    BY DEF KeyInvariant, KeyUnderWay
  <2>1. CASE CSendKey(t)
    <3>1. /\ cpc[t] = "sendKey" /\ cpc' = [cpc EXCEPT ![t] = "oprf1"]
          /\ up' = [up EXCEPT ![t] = Append(@, [kind |-> "key", body |-> Key])]
      BY <2>1 DEF CSendKey
    <3>2. cpc' \in [Threads -> Range(COrder)] /\ DOMAIN up' = Threads
      BY <2>0, <3>1, Labels DEF KeyUnderWay
    <3>3. CASE spc[Leader] = "recvKey"
      <4>1. CASE t = Leader
        <5>1. up[Leader] = <<>>
          BY <2>0, <3>1, <3>3, <4>1 DEF KeyUnderWay
        <5>2. up'[Leader] = <<[kind |-> "key", body |-> Key]>>
          BY <2>0, <3>1, <4>1, <5>1
        <5> QED
          BY <1>1, <2>0, <3>1, <3>2, <3>3, <4>1, <5>2 DEF KeyUnderWay
      <4>2. CASE t # Leader
        <5>1. cpc'[Leader] = cpc[Leader] /\ up'[Leader] = up[Leader]
          BY <2>0, <3>1, <4>2, Roles DEF KeyUnderWay
        <5> QED
          BY <1>1, <2>0, <3>2, <3>3, <5>1 DEF KeyUnderWay
      <4> QED
        BY <4>1, <4>2
    <3>4. CASE spc[Leader] # "recvKey"
      BY <1>1, <2>0, <3>2, <3>4 DEF KeyUnderWay
    <3> QED
      BY <3>3, <3>4
  <2>2. CASE COprf1(t)
    BY <1>1, <2>0, <2>2, KeyClientStep, Labels DEF COprf1, OnlySocket
  <2>3. CASE CInc1(t)
    BY <1>1, <2>0, <2>3, KeyClientStep, Labels DEF CInc1, OnlySocket, netVars
  <2>4. CASE CWait1(t)
    BY <1>1, <2>0, <2>4, KeyClientStep, Labels DEF CWait1, OnlySocket, netVars
  <2>5. CASE CFunc1(t)
    BY <1>1, <2>0, <2>5, KeyClientStep, Labels DEF CFunc1, OnlySocket, netVars
  <2>6. CASE CReset1(t)
    BY <1>1, <2>0, <2>6, KeyClientStep, Labels DEF CReset1, OnlySocket, netVars
  <2>7. CASE COprf2(t)
    BY <1>1, <2>0, <2>7, KeyClientStep, Labels DEF COprf2, OnlySocket
  <2>8. CASE CInc2(t)
    BY <1>1, <2>0, <2>8, KeyClientStep, Labels DEF CInc2, OnlySocket, netVars
  <2>9. CASE CWait2(t)
    BY <1>1, <2>0, <2>9, KeyClientStep, Labels DEF CWait2, OnlySocket, netVars
  <2>10. CASE CReset2(t)
    BY <1>1, <2>0, <2>10, KeyClientStep, Labels DEF CReset2, OnlySocket, netVars
  <2>11. CASE CSend(t)
    BY <1>1, <2>0, <2>11, KeyClientStep, Labels DEF CSend, OnlySocket
  <2>12. CASE CRecv(t)
    BY <1>1, <2>0, <2>12, KeyClientStep, Labels DEF CRecv, OnlySocket
  <2>13. CASE CSci(t)
    BY <1>1, <2>0, <2>13, KeyClientStep, Labels DEF CSci, OnlySocket
  <2> QED
    BY <2>1, <2>2, <2>3, <2>4, <2>5, <2>6, <2>7, <2>8, <2>9, <2>10, <2>11,
       <2>12, <2>13 DEF Client
<1> QED
  BY <1>2, <1>3 DEF KeyInvariant, SiteInvariant

\* Every step of a server thread preserves the invariant.
LEMMA ServerStep ==
  ASSUME KeyInvariant, NEW t \in Threads, Server(t)
  PROVE  KeyInvariant'
<1> USE DEF SGoto, clientVars, serverTables, netVars, OnlySocket
<1>0. /\ SiteInvariant /\ Places /\ KeyUnderWay /\ DOMAIN up = Threads
      /\ SiteInvariant' /\ KeyUnderWay' => KeyInvariant'
  BY DEF KeyInvariant, SiteInvariant, KeyUnderWay
<1>1. CASE SRecvKey(t)
  <2>1. SiteInvariant'
    BY <1>0, <1>1, ReceiveStep
  <2>2. t = Leader /\ up[t] # <<>> /\ spc[t] = "recvKey"
    BY <1>0, <1>1 DEF SRecvKey, Places
  <2>3. up[t] = <<[kind |-> "key", body |-> Key]>>
    BY <1>0, <2>2 DEF KeyUnderWay
  <2>4. ng' = Key
    BY <1>1, <2>3 DEF SRecvKey
  <2>5. spc'[Leader] = "incNg" /\ UNCHANGED cpc /\ DOMAIN up' = Threads
    BY <1>0, <1>1, <2>2 DEF SRecvKey, Places
  <2>6. KeyUnderWay'
    BY <1>0, <2>4, <2>5 DEF KeyUnderWay
  <2> QED
    BY <1>0, <2>1, <2>6
<1>2. CASE SIncNg(t)
  <2>1. SiteInvariant'
    BY <1>0, <1>2, ArrivalStep
  <2>2. KeyUnderWay'
    BY <1>0, <1>2, KeyServerStep DEF SIncNg
  <2> QED
    BY <1>0, <2>1, <2>2
<1>3. CASE SWaitNg(t)
  <2>1. SiteInvariant'
    BY <1>0, <1>3, PollStep
  <2>2. KeyUnderWay'
    BY <1>0, <1>3, KeyServerStep DEF SWaitNg
  <2> QED
    BY <1>0, <2>1, <2>2
<1>4. CASE SResetNg(t)
  <2>1. SiteInvariant'
    BY <1>0, <1>4, ResetStep
  <2>2. KeyUnderWay'
    BY <1>0, <1>4, KeyServerStep DEF SResetNg
  <2> QED
    BY <1>0, <2>1, <2>2
<1>5. CASE SEncrypt(t)
  BY <1>0, <1>5, LaterStep, Labels DEF SEncrypt, EarlyLabels, serverFlags
<1>6. CASE SInc2(t)
  BY <1>0, <1>6, LaterStep, Labels DEF SInc2, EarlyLabels
<1>7. CASE SWait2(t)
  BY <1>0, <1>7, LaterStep, Labels DEF SWait2, EarlyLabels, serverFlags
<1>8. CASE SFunc2(t)
  BY <1>0, <1>8, LaterStep, Labels DEF SFunc2, EarlyLabels, serverFlags
<1>9. CASE SReset2(t)
  BY <1>0, <1>9, LaterStep, Labels DEF SReset2, EarlyLabels
<1>10. CASE SOprf1(t)
  BY <1>0, <1>10, LaterStep, Labels DEF SOprf1, EarlyLabels, serverFlags
<1>11. CASE SInc1(t)
  BY <1>0, <1>11, LaterStep, Labels DEF SInc1, EarlyLabels
<1>12. CASE SWait1(t)
  BY <1>0, <1>12, LaterStep, Labels DEF SWait1, EarlyLabels, serverFlags
<1>13. CASE SFunc1(t)
  BY <1>0, <1>13, LaterStep, Labels DEF SFunc1, EarlyLabels, serverFlags
<1>14. CASE SReset1(t)
  BY <1>0, <1>14, LaterStep, Labels DEF SReset1, EarlyLabels
<1>15. CASE SOprf2(t)
  BY <1>0, <1>15, LaterStep, Labels DEF SOprf2, EarlyLabels, serverFlags
<1>16. CASE SWait3(t)
  BY <1>0, <1>16, LaterStep, Labels DEF SWait3, EarlyLabels, serverFlags
<1>17. CASE SSearch(t)
  BY <1>0, <1>17, LaterStep, Labels DEF SSearch, EarlyLabels, serverFlags
<1>18. CASE SSciSend(t)
  BY <1>0, <1>18, LaterStep, Labels DEF SSciSend, EarlyLabels, serverFlags
<1>19. CASE SSciRecv(t)
  BY <1>0, <1>19, LaterStep, Labels DEF SSciRecv, EarlyLabels, serverFlags
<1> QED
  BY <1>1, <1>2, <1>3, <1>4, <1>5, <1>6, <1>7, <1>8, <1>9, <1>10, <1>11, <1>12,
     <1>13, <1>14, <1>15, <1>16, <1>17, <1>18, <1>19 DEF Server

\* The invariant is inductive.
LEMMA KeyStep == KeyInvariant /\ [Next]_vars => KeyInvariant'
<1> SUFFICES ASSUME KeyInvariant, [Next]_vars
             PROVE  KeyInvariant'
  OBVIOUS
<1>1. CASE UNCHANGED vars
  <2>1. UNCHANGED <<cpc, spc, Sf2_Ng, ng, up>>
    BY <1>1 DEF vars, clientVars, serverVars, serverFlags, serverTables, netVars
  <2>2. SiteInvariant'
    BY <2>1, NoServerStep DEF KeyInvariant, SiteInvariant
  <2>3. KeyUnderWay'
    BY <2>1 DEF KeyInvariant, KeyUnderWay
  <2> QED
    BY <2>2, <2>3 DEF KeyInvariant, SiteInvariant
<1>2. ASSUME NEW t \in Threads, Client(t) PROVE KeyInvariant'
  BY <1>2, ClientStep
<1>3. ASSUME NEW t \in Threads, Server(t) PROVE KeyInvariant'
  BY <1>3, ServerStep
<1> QED
  BY <1>1, <1>2, <1>3 DEF Next, Exit

\* An encrypting thread is past the site, so the leader has been counted at it,
\* and the leader is counted with the key in hand.
LEMMA KeySuffices == KeyInvariant => KeyBeforeEncryption
<1> SUFFICES ASSUME KeyInvariant, NEW t \in Threads, spc[t] = "encrypt"
             PROVE  ng = Key
  BY DEF KeyBeforeEncryption
<1>1. spc[Center] \notin EarlyLabels
  <2>1. CASE t = Center
    BY <2>1 DEF EarlyLabels
  <2>2. CASE t # Center
    BY <2>2 DEF KeyInvariant, OthersAfterCenter, EarlyLabels, Others
  <2> QED
    BY <2>1, <2>2
<1>2. Leader \in counted
  BY <1>1, Roles DEF KeyInvariant, CenterAfterAll, EarlyLabels
<1>3. spc[Leader] # "recvKey"
  BY <1>2 DEF counted
<1> QED
  BY <1>3 DEF KeyInvariant, KeyUnderWay

\* In every run, whatever the number of servers, the arrivals at the server's
\* first site, the roles and the key stay in step (run_smpaq, server side).
THEOREM KeyInvariance == Spec => []KeyInvariant
BY InitKey, KeyStep, PTL DEF Spec

\* No server thread encrypts its payloads before the client's key is in ng, the
\* global that the leader writes without a lock and the others read.
THEOREM KeyFirst == Spec => []KeyBeforeEncryption
BY KeyInvariance, KeySuffices, PTL
-----------------------------------------------------------------------------
(* The run as a whole.                                                     *)

\* Who goes where.
CLeaderOnly == {"sendKey", "send", "recv"}
CCenterOnly == {"func1", "reset1", "oprf2", "reset2"}
CNotCenter  == {"oprf1", "inc1", "inc2"}
SLeaderOnly == {"recvKey", "func2", "reset2", "search"}
SCenterOnly == {"resetNg", "func1", "reset1", "oprf2", "reset3"}
SNotCenter  == {"recvKey", "incNg", "oprf1", "inc1", "inc3"}

Sides ==
  /\ cpc \in [Threads -> Range(COrder)] /\ spc \in [Threads -> Range(SOrder)]
  /\ \A t \in Threads :
       /\ cpc[t] \in CLeaderOnly => t = Leader
       /\ cpc[t] \in CCenterOnly => t = Center
       /\ cpc[t] \in CNotCenter => t # Center
       /\ spc[t] \in SLeaderOnly => t = Leader
       /\ spc[t] \in SCenterOnly => t = Center
       /\ spc[t] \in SNotCenter => t # Center

\* Where the client's leader is: it has yet to send its identifiers, has sent
\* them, has the product, has ended.
AskLabels  == {"oprf1", "inc1", "wait1", "inc2", "wait2", "send"}
Asks(t)    == cpc[t] \in AskLabels
Expects(t) == cpc[t] = "recv"
Holds(t)   == cpc[t] = "sci"
Gone(t)    == cpc[t] = "done"

\* And the server's: it has the key and has not answered, has answered, has
\* sent its statistics, has ended.
Silent(t)   == spc[t] \notin {"recvKey", "sciSend", "sciRecv", "done"}
Answered(t) == spc[t] = "sciSend"
Waits(t)    == spc[t] = "sciRecv"
Left(t)     == spc[t] = "done"

\* The sockets of the leaders and of two other threads.
LeaderPair(t) ==
  \/ cpc[t] = "sendKey" /\ spc[t] = "recvKey" /\ up[t] = <<>> /\ down[t] = <<>>
  \/ cpc[t] = "oprf1" /\ spc[t] = "recvKey" /\ One(up[t], "key") /\ down[t] = <<>>
  \/ Asks(t)    /\ Silent(t)   /\ up[t] = <<>>      /\ down[t] = <<>>
  \/ Expects(t) /\ Silent(t)   /\ One(up[t], "ids") /\ down[t] = <<>>
  \/ Expects(t) /\ Answered(t) /\ up[t] = <<>>      /\ One(down[t], "cipher")
  \/ Expects(t) /\ Waits(t)    /\ up[t] = <<>>      /\ Two(down[t], "cipher", "sci")
  \/ Holds(t)   /\ Answered(t) /\ up[t] = <<>>      /\ down[t] = <<>>
  \/ Holds(t)   /\ Waits(t)    /\ up[t] = <<>>      /\ One(down[t], "sci")
  \/ Gone(t)    /\ Waits(t)    /\ One(up[t], "sci") /\ down[t] = <<>>
  \/ Gone(t)    /\ Left(t)     /\ up[t] = <<>>      /\ down[t] = <<>>
OtherPair(t) ==
  \/ ~Gone(t) /\ ~Waits(t) /\ ~Left(t) /\ up[t] = <<>> /\ down[t] = <<>>
  \/ ~Gone(t) /\ Waits(t)  /\ up[t] = <<>>      /\ One(down[t], "sci")
  \/ Gone(t)  /\ Waits(t)  /\ One(up[t], "sci") /\ down[t] = <<>>
  \/ Gone(t)  /\ Left(t)   /\ up[t] = <<>>      /\ down[t] = <<>>

Sockets(t) == IF t = Leader THEN LeaderPair(t) ELSE OtherPair(t)

PairsInStep == /\ DOMAIN up = Threads /\ DOMAIN down = Threads
               /\ \A t \in Threads : Sockets(t)

\* The call sites, each from what lies before it to its reset.
ClientSite1 == [threads |-> Threads, arrivers |-> Others, special |-> Center,
                before |-> {"sendKey", "oprf1", "inc1"},
                wait |-> {"wait1"}, func |-> {"func1"}, reset |-> {"reset1"}]
ClientSite2 == [threads |-> Threads, arrivers |-> Others, special |-> Center,
                before |-> Inside(ClientSite1) \cup {"oprf2", "inc2"},
                wait |-> {"wait2"}, func |-> {}, reset |-> {"reset2"}]

ServerSiteNg == [threads |-> Threads, arrivers |-> Others, special |-> Center,
                 before |-> {"recvKey", "incNg"},
                 wait |-> {"waitNg"}, func |-> {}, reset |-> {"resetNg"}]
ServerSite2 == [threads |-> Threads, arrivers |-> Threads, special |-> Leader,
                before |-> Inside(ServerSiteNg) \cup {"encrypt", "inc2"},
                wait |-> {"wait2"}, func |-> {"func2"}, reset |-> {"reset2"}]
ServerSite1 == [threads |-> Threads, arrivers |-> Others, special |-> Center,
                before |-> Inside(ServerSite2) \cup {"oprf1", "inc1"},
                wait |-> {"wait1"}, func |-> {"func1"}, reset |-> {"reset1"}]
ServerSite3 == [threads |-> Threads, arrivers |-> Others, special |-> Center,
                before |-> Inside(ServerSite1) \cup {"oprf2", "inc3"},
                wait |-> {"wait3"}, func |-> {}, reset |-> {"reset3"}]

\* Sf2 is the flag of the last site once the leader has left the other one.
Again(pc, flag) == IF pc[Leader] \in Inside(ServerSite2) THEN 0 ELSE flag

ClientMeets == Meets(ClientSite1, cpc, Cf1) /\ Meets(ClientSite2, cpc, Cf2)
ServerMeets ==
  /\ Meets(ServerSiteNg, spc, Sf2_Ng) /\ Meets(ServerSite2, spc, Sf2)
  /\ Meets(ServerSite1, spc, Sf1) /\ Meets(ServerSite3, spc, Again(spc, Sf2))

\* A step keeps every count, and does at every site what a rendezvous allows.
ClientKept == Kept(ClientSite1, cpc, cpc', Cf1') /\ Kept(ClientSite2, cpc, cpc', Cf2')
ServerKept ==
  /\ Kept(ServerSiteNg, spc, spc', Sf2_Ng') /\ Kept(ServerSite2, spc, spc', Sf2')
  /\ Kept(ServerSite1, spc, spc', Sf1') /\ Kept(ServerSite3, spc, spc', Again(spc', Sf2'))

RunInvariant == Sides /\ PairsInStep /\ ClientMeets /\ ServerMeets
-----------------------------------------------------------------------------
(* Who goes where, and the pairs of threads.                               *)

LEMMA ClientSides ==
  ASSUME Sides, NEW t \in Threads, NEW to \in Range(COrder),
         cpc' = [cpc EXCEPT ![t] = to], UNCHANGED spc,
         to \in CLeaderOnly => t = Leader, to \in CCenterOnly => t = Center,
         to \in CNotCenter => t # Center
  PROVE  Sides'
BY DEF Sides

LEMMA ServerSides ==
  ASSUME Sides, NEW t \in Threads, NEW to \in Range(SOrder),
         spc' = [spc EXCEPT ![t] = to], UNCHANGED cpc,
         to \in SLeaderOnly => t = Leader, to \in SCenterOnly => t = Center,
         to \in SNotCenter => t # Center
  PROVE  Sides'
BY DEF Sides

\* A step of one pair of threads leaves the other pairs alone.
OnlyPair(t) ==
  /\ DOMAIN up' = DOMAIN up /\ DOMAIN down' = DOMAIN down
  /\ \A u \in Threads \ {t} : /\ cpc'[u] = cpc[u] /\ spc'[u] = spc[u]
                              /\ up'[u] = up[u] /\ down'[u] = down[u]

LEMMA OnePair ==
  ASSUME PairsInStep, NEW t \in Threads, OnlyPair(t), Sockets(t)'
  PROVE  PairsInStep'
<1>1. ASSUME NEW u \in Threads, u # t
      PROVE  Sockets(u)'
  <2>1. Sockets(u)
    BY DEF PairsInStep
  <2>2. /\ cpc'[u] = cpc[u] /\ spc'[u] = spc[u]
        /\ up'[u] = up[u] /\ down'[u] = down[u]
    BY <1>1 DEF OnlyPair
  <2>3. LeaderPair(u) => LeaderPair(u)'
    BY <2>2 DEF LeaderPair, Asks, Expects, Holds, Gone, Silent, Answered, Waits, Left
  <2>4. OtherPair(u) => OtherPair(u)'
    BY <2>2 DEF OtherPair, Gone, Waits, Left
  <2> QED
    BY <2>1, <2>3, <2>4 DEF Sockets
<1> QED
  BY <1>1 DEF PairsInStep, OnlyPair

\* What a thread that uses its socket sees of the pair.
LEMMA PairOf ==
  ASSUME Sides, PairsInStep, NEW t \in Threads
  PROVE  /\ t = Leader => LeaderPair(t)
         /\ t # Leader => OtherPair(t)
         /\ t \in DOMAIN up /\ t \in DOMAIN down
         /\ cpc \in [Threads -> Range(COrder)] /\ spc \in [Threads -> Range(SOrder)]
BY DEF Sides, PairsInStep, Sockets

\* A client thread that uses neither socket.
LEMMA QuietClient ==
  ASSUME Sides, PairsInStep, NEW t \in Threads, NEW from, NEW to \in Range(COrder),
         CGoto(t, from, to), UNCHANGED <<spc, up, down>>,
         to # "done", from # "done",
         to \in CLeaderOnly => t = Leader, to \in CCenterOnly => t = Center,
         to \in CNotCenter => t # Center,
         t = Leader => {from, to} \subseteq AskLabels,
         from = "oprf1" => spc[t] = "oprf1"
  PROVE  Sides' /\ PairsInStep'
<1>1. /\ cpc[t] = from /\ cpc' = [cpc EXCEPT ![t] = to] /\ cpc'[t] = to
      /\ spc'[t] = spc[t] /\ up'[t] = up[t] /\ down'[t] = down[t]
  BY DEF CGoto, Sides
<1>2. Sides'
  BY <1>1, ClientSides
<1>3. OnlyPair(t)
  BY <1>1 DEF OnlyPair, Sides, PairsInStep
<1>4. CASE t = Leader
  <2>1. LeaderPair(t) /\ Asks(t) /\ Asks(t)'
    BY <1>1, <1>4, PairOf DEF Asks
  <2>2. Silent(t) /\ up[t] = <<>> /\ down[t] = <<>>
    BY <1>1, <2>1 DEF LeaderPair, Asks, Expects, Holds, Gone, AskLabels
  <2>3. LeaderPair(t)'
    BY <1>1, <2>1, <2>2 DEF LeaderPair, Silent
  <2> QED
    BY <1>2, <1>3, <1>4, <2>3, OnePair DEF Sockets
<1>5. CASE t # Leader
  <2>1. OtherPair(t) /\ ~Gone(t) /\ ~Gone(t)'
    BY <1>1, <1>5, PairOf DEF Gone
  <2>2. OtherPair(t)'
    BY <1>1, <2>1 DEF OtherPair, Waits, Left
  <2> QED
    BY <1>2, <1>3, <1>5, <2>2, OnePair DEF Sockets
<1> QED
  BY <1>4, <1>5

\* A server thread that uses neither socket.
LEMMA QuietServer ==
  ASSUME Sides, PairsInStep, NEW t \in Threads, NEW from, NEW to \in Range(SOrder),
         SGoto(t, from, to), UNCHANGED <<cpc, up, down>>,
         {from, to} \cap {"recvKey", "sciRecv", "done"} = {},
         to \in SLeaderOnly => t = Leader, to \in SCenterOnly => t = Center,
         to \in SNotCenter => t # Center \/ from \in SNotCenter,
         t = Leader => "sciSend" \notin {from, to}
  PROVE  Sides' /\ PairsInStep'
<1>1. /\ spc[t] = from /\ spc' = [spc EXCEPT ![t] = to] /\ spc'[t] = to
      /\ cpc'[t] = cpc[t] /\ up'[t] = up[t] /\ down'[t] = down[t]
  BY DEF SGoto, Sides
<1>2. Sides'
  BY <1>1, ServerSides DEF Sides
<1>3. OnlyPair(t)
  BY <1>1 DEF OnlyPair, Sides, PairsInStep
<1>4. CASE t = Leader
  <2>1. LeaderPair(t) /\ Silent(t) /\ Silent(t)'
    BY <1>1, <1>4, PairOf DEF Silent
  <2>2. /\ ~Answered(t) /\ ~Waits(t) /\ ~Left(t) /\ spc[t] # "recvKey"
        /\ Asks(t)' = Asks(t) /\ Expects(t)' = Expects(t)
    BY <1>1, <2>1 DEF Asks, Expects, Silent, Answered, Waits, Left
  <2>3. LeaderPair(t)'
    BY <1>1, <2>1, <2>2 DEF LeaderPair
  <2> QED
    BY <1>2, <1>3, <1>4, <2>3, OnePair DEF Sockets
<1>5. CASE t # Leader
  <2>1. OtherPair(t)
    BY <1>5, PairOf
  <2>2. OtherPair(t)'
    BY <1>1, <2>1 DEF OtherPair, Waits, Left, Gone
  <2> QED
    BY <1>2, <1>3, <1>5, <2>2, OnePair DEF Sockets
<1> QED
  BY <1>4, <1>5
-----------------------------------------------------------------------------
(* The steps that use a socket.                                            *)

LEMMA SendKeyStep ==
  ASSUME Sides, PairsInStep, NEW t \in Threads, CSendKey(t)
  PROVE  Sides' /\ PairsInStep'
<1>1. cpc[t] = "sendKey" /\ cpc' = [cpc EXCEPT ![t] = "oprf1"] /\ spc' = spc
  BY DEF CSendKey, CGoto, serverVars
<1>2. t = Leader
  BY <1>1 DEF Sides, CLeaderOnly
<1>3. spc[t] = "recvKey" /\ up[t] = <<>> /\ down[t] = <<>>
  BY <1>1, <1>2, PairOf DEF LeaderPair, Asks, Expects, Holds, Gone, AskLabels
<1>4. cpc'[t] = "oprf1" /\ down' = down /\ One(up'[t], "key")
  <2> DEFINE m == [kind |-> "key", body |-> Key]
  <2>1. m.kind = "key" /\ up' = [up EXCEPT ![t] = Append(@, m)] /\ down' = down
    BY DEF CSendKey
  <2> HIDE DEF m
  <2>2. One(up'[t], "key")
    BY <1>3, <2>1, PairOf, Queues
  <2> QED
    BY <1>1, <2>1, <2>2, PairOf
<1>5. OnlyPair(t)
  BY <1>1, <1>4, PairOf DEF OnlyPair, CSendKey
<1>6. Sockets(t)'
  BY <1>1, <1>2, <1>3, <1>4 DEF Sockets, LeaderPair
<1>7. Sides'
  BY <1>1, <1>2, ClientSides, Labels, Roles DEF CCenterOnly, CNotCenter
<1> QED
  BY <1>5, <1>6, <1>7, OnePair

LEMMA SendStep ==
  ASSUME Sides, PairsInStep, NEW t \in Threads, CSend(t)
  PROVE  Sides' /\ PairsInStep'
<1>1. cpc[t] = "send" /\ cpc' = [cpc EXCEPT ![t] = "recv"] /\ spc' = spc
  BY DEF CSend, CGoto, serverVars
<1>2. t = Leader
  BY <1>1 DEF Sides, CLeaderOnly
<1>3. Silent(t) /\ up[t] = <<>> /\ down[t] = <<>>
  BY <1>1, <1>2, PairOf DEF LeaderPair, Asks, Expects, Holds, Gone, AskLabels
<1>4. cpc'[t] = "recv" /\ down' = down /\ One(up'[t], "ids")
  <2> DEFINE m == ids(flatten(clientID))
  <2>1. m.kind = "ids" /\ up' = [up EXCEPT ![t] = Append(@, m)] /\ down' = down
    BY DEF ids, CSend
  <2> HIDE DEF m
  <2>2. One(up'[t], "ids")
    BY <1>3, <2>1, PairOf, Queues
  <2> QED
    BY <1>1, <2>1, <2>2, PairOf
<1>5. OnlyPair(t)
  BY <1>1, <1>4, PairOf DEF OnlyPair, CSend
<1>6. Sockets(t)'
  BY <1>1, <1>2, <1>3, <1>4 DEF Sockets, LeaderPair, Expects, Silent
<1>7. Sides'
  BY <1>1, <1>2, ClientSides, Labels, Roles DEF CCenterOnly, CNotCenter
<1> QED
  BY <1>5, <1>6, <1>7, OnePair

LEMMA RecvStep ==
  ASSUME Sides, PairsInStep, NEW t \in Threads, CRecv(t)
  PROVE  Sides' /\ PairsInStep'
<1>1. /\ cpc[t] = "recv" /\ cpc' = [cpc EXCEPT ![t] = "sci"]
      /\ down[t] # <<>> /\ down' = [down EXCEPT ![t] = Tail(@)]
      /\ up' = up /\ spc' = spc
  BY DEF CRecv, CGoto, serverVars
<1>2. t = Leader
  BY <1>1 DEF Sides, CLeaderOnly
<1>3. cpc'[t] = "sci" /\ down'[t] = Tail(down[t])
  BY <1>1, PairOf
<1>4. \/ Answered(t) /\ up[t] = <<>> /\ down'[t] = <<>>
      \/ Waits(t) /\ up[t] = <<>> /\ One(down'[t], "sci")
  BY <1>1, <1>2, <1>3, PairOf, Queues
     DEF LeaderPair, Asks, Expects, Holds, Gone, AskLabels
<1>5. OnlyPair(t)
  BY <1>1, PairOf DEF OnlyPair
<1>6. LeaderPair(t)'
  BY <1>1, <1>3, <1>4 DEF LeaderPair, Holds, Answered, Waits
<1>7. Sides'
  BY <1>1, <1>2, ClientSides, Labels, Roles DEF CLeaderOnly, CCenterOnly, CNotCenter
<1> QED
  BY <1>2, <1>5, <1>6, <1>7, OnePair DEF Sockets

LEMMA SciStep ==
  ASSUME Sides, PairsInStep, NEW t \in Threads, CSci(t)
  PROVE  Sides' /\ PairsInStep'
<1>1. /\ cpc[t] = "sci" /\ cpc' = [cpc EXCEPT ![t] = "done"]
      /\ down[t] # <<>> /\ down' = [down EXCEPT ![t] = Tail(@)]
      /\ up' = [up EXCEPT ![t] = Append(@, sci)] /\ spc' = spc
  BY DEF CSci, CGoto, serverVars
<1>2. /\ cpc'[t] = "done" /\ down'[t] = Tail(down[t])
      /\ up'[t] = Append(up[t], sci)
  BY <1>1, PairOf
<1>3. Waits(t) /\ up[t] = <<>> /\ One(down[t], "sci")
  <2>1. CASE t = Leader
    BY <1>1, <2>1, PairOf DEF LeaderPair, Asks, Expects, Holds, Gone, AskLabels
  <2>2. CASE t # Leader
    BY <1>1, <2>2, PairOf DEF OtherPair, Gone
  <2> QED
    BY <2>1, <2>2
<1>4. down'[t] = <<>> /\ One(up'[t], "sci")
  <2>1. sci.kind = "sci"
    BY DEF sci
  <2> QED
    BY <1>2, <1>3, <2>1, Queues
<1>5. OnlyPair(t)
  BY <1>1, PairOf DEF OnlyPair
<1>6. Gone(t)' /\ Waits(t)'
  BY <1>1, <1>2, <1>3 DEF Gone, Waits
<1>7. Sockets(t)'
  BY <1>4, <1>6 DEF Sockets, LeaderPair, OtherPair
<1>8. Sides'
  BY <1>1, ClientSides, Labels DEF CLeaderOnly, CCenterOnly, CNotCenter
<1> QED
  BY <1>5, <1>7, <1>8, OnePair

LEMMA RecvKeyStep ==
  ASSUME Sides, PairsInStep, NEW t \in Threads, SRecvKey(t)
  PROVE  Sides' /\ PairsInStep'
<1>1. /\ spc[t] = "recvKey" /\ spc' = [spc EXCEPT ![t] = "incNg"]
      /\ up[t] # <<>> /\ up' = [up EXCEPT ![t] = Tail(@)]
      /\ down' = down /\ cpc' = cpc
  BY DEF SRecvKey, SGoto, clientVars
<1>2. t = Leader
  BY <1>1 DEF Sides, SLeaderOnly
<1>3. spc'[t] = "incNg" /\ up'[t] = Tail(up[t])
  BY <1>1, PairOf
<1>4. cpc[t] = "oprf1" /\ One(up[t], "key") /\ down[t] = <<>>
  BY <1>1, <1>2, PairOf DEF LeaderPair, Silent, Answered, Waits, Left
<1>5. up'[t] = <<>>
  BY <1>3, <1>4, Queues
<1>6. OnlyPair(t)
  BY <1>1, PairOf DEF OnlyPair
<1>7. LeaderPair(t)'
  BY <1>1, <1>3, <1>4, <1>5 DEF LeaderPair, Asks, AskLabels, Silent
<1>8. Sides'
  BY <1>1, <1>2, Roles, ServerSides, Labels DEF SLeaderOnly, SCenterOnly, SNotCenter
<1> QED
  BY <1>2, <1>6, <1>7, <1>8, OnePair DEF Sockets

LEMMA SearchStep ==
  ASSUME Sides, PairsInStep, NEW t \in Threads, SSearch(t)
  PROVE  Sides' /\ PairsInStep'
<1> DEFINE m == [kind |-> "cipher",
                 body |-> Product(Head(up[t]).body, serverID, dataOfPsm2)]
<1>1. /\ spc[t] = "search" /\ spc' = [spc EXCEPT ![t] = "sciSend"]
      /\ up[t] # <<>> /\ up' = [up EXCEPT ![t] = Tail(@)]
      /\ down' = [down EXCEPT ![t] = Append(@, m)]
      /\ cpc' = cpc /\ m.kind = "cipher"
  BY DEF SSearch, SGoto, clientVars
<1> HIDE DEF m
<1>2. t = Leader
  BY <1>1 DEF Sides, SLeaderOnly
<1>3. /\ spc'[t] = "sciSend" /\ up'[t] = Tail(up[t])
      /\ down'[t] = Append(down[t], m)
  BY <1>1, PairOf
<1>4. Expects(t) /\ One(up[t], "ids") /\ down[t] = <<>>
  BY <1>1, <1>2, PairOf DEF LeaderPair, Silent, Answered, Waits, Left
<1>5. up'[t] = <<>> /\ One(down'[t], "cipher")
  <2>1. up'[t] = <<>>
    BY <1>3, <1>4, Queues
  <2>2. m.kind = "cipher"
    BY <1>1
  <2>3. One(down'[t], "cipher")
    BY <1>3, <1>4, <2>2, Queues
  <2> QED
    BY <2>1, <2>3
<1>6. OnlyPair(t)
  BY <1>1, PairOf DEF OnlyPair
<1>7. LeaderPair(t)'
  BY <1>1, <1>3, <1>4, <1>5 DEF LeaderPair, Expects, Answered
<1>8. Sides'
  BY <1>1, ServerSides, Labels DEF SLeaderOnly, SCenterOnly, SNotCenter
<1> QED
  BY <1>2, <1>6, <1>7, <1>8, OnePair DEF Sockets

LEMMA SciSendStep ==
  ASSUME Sides, PairsInStep, NEW t \in Threads, SSciSend(t)
  PROVE  Sides' /\ PairsInStep'
<1>1. /\ spc[t] = "sciSend" /\ spc' = [spc EXCEPT ![t] = "sciRecv"]
      /\ down' = [down EXCEPT ![t] = Append(@, sci)]
      /\ up' = up /\ cpc' = cpc /\ sci.kind = "sci"
  BY DEF SSciSend, SGoto, clientVars, sci
<1>2. spc'[t] = "sciRecv" /\ down'[t] = Append(down[t], sci)
  BY <1>1, PairOf
<1>3. OnlyPair(t) /\ Waits(t)'
  BY <1>1, <1>2, PairOf DEF OnlyPair, Waits
<1>4. Sides'
  BY <1>1, ServerSides, Labels DEF SLeaderOnly, SCenterOnly, SNotCenter
<1>5. CASE t = Leader
  <2>1. \/ Expects(t) /\ up[t] = <<>> /\ One(down[t], "cipher")
        \/ Holds(t) /\ up[t] = <<>> /\ down[t] = <<>>
    BY <1>1, <1>5, PairOf DEF LeaderPair, Silent, Answered, Waits, Left
  <2>2. \/ Expects(t)' /\ up'[t] = <<>> /\ Two(down'[t], "cipher", "sci")
        \/ Holds(t)' /\ up'[t] = <<>> /\ One(down'[t], "sci")
    <3>1. CASE Expects(t) /\ up[t] = <<>> /\ One(down[t], "cipher")
      BY <1>1, <1>2, <3>1, Queues DEF Expects
    <3>2. CASE Holds(t) /\ up[t] = <<>> /\ down[t] = <<>>
      BY <1>1, <1>2, <3>2, Queues DEF Holds
    <3> QED
      BY <2>1, <3>1, <3>2
  <2> QED
    BY <1>3, <1>4, <1>5, <2>2, OnePair DEF Sockets, LeaderPair
<1>6. CASE t # Leader
  <2>1. ~Gone(t) /\ up[t] = <<>> /\ down[t] = <<>>
    BY <1>1, <1>6, PairOf DEF OtherPair, Waits, Left
  <2>2. ~Gone(t)' /\ up'[t] = <<>> /\ One(down'[t], "sci")
    BY <1>1, <1>2, <2>1, Queues DEF Gone
  <2> QED
    BY <1>3, <1>4, <1>6, <2>2, OnePair DEF Sockets, OtherPair
<1> QED
  BY <1>5, <1>6

LEMMA SciRecvStep ==
  ASSUME Sides, PairsInStep, NEW t \in Threads, SSciRecv(t)
  PROVE  Sides' /\ PairsInStep'
<1>1. /\ spc[t] = "sciRecv" /\ spc' = [spc EXCEPT ![t] = "done"]
      /\ up[t] # <<>> /\ up' = [up EXCEPT ![t] = Tail(@)]
      /\ down' = down /\ cpc' = cpc
  BY DEF SSciRecv, SGoto, clientVars
<1>2. spc'[t] = "done" /\ up'[t] = Tail(up[t])
  BY <1>1, PairOf
<1>3. Gone(t) /\ One(up[t], "sci") /\ down[t] = <<>>
  <2>1. CASE t = Leader
    BY <1>1, <2>1, PairOf DEF LeaderPair, Silent, Answered, Waits, Left
  <2>2. CASE t # Leader
    BY <1>1, <2>2, PairOf DEF OtherPair, Waits, Left
  <2> QED
    BY <2>1, <2>2
<1>4. up'[t] = <<>> /\ Gone(t)' /\ Left(t)' /\ down'[t] = <<>>
  BY <1>1, <1>2, <1>3, Queues DEF Gone, Left
<1>5. OnlyPair(t)
  BY <1>1, PairOf DEF OnlyPair
<1>6. Sockets(t)'
  BY <1>4 DEF Sockets, LeaderPair, OtherPair
<1>7. Sides'
  BY <1>1, ServerSides, Labels DEF SLeaderOnly, SCenterOnly, SNotCenter
<1> QED
  BY <1>5, <1>6, <1>7, OnePair
-----------------------------------------------------------------------------
(* Every step keeps the sides and the pairs.                               *)

LEMMA ClientPairs ==
  ASSUME Sides, PairsInStep, NEW t \in Threads, Client(t)
  PROVE  Sides' /\ PairsInStep'
<1> USE DEF netVars, serverVars, CLeaderOnly, CCenterOnly, CNotCenter, AskLabels
<1>1. CASE CSendKey(t) \/ CSend(t) \/ CRecv(t) \/ CSci(t)
  BY <1>1, SendKeyStep, SendStep, RecvStep, SciStep
<1>2. CASE COprf1(t)
  <2>1. t # Center
    BY <1>2 DEF COprf1, CGoto, Sides
  <2> QED
    BY <1>2, <2>1, QuietClient, Labels DEF COprf1
<1>3. CASE CInc1(t)
  BY <1>3, QuietClient, Labels DEF CInc1
<1>4. CASE CWait1(t)
  <2>1. CASE t = Center
    BY <1>4, <2>1, QuietClient, Labels, Roles DEF CWait1
  <2>2. CASE t # Center
    BY <1>4, <2>2, QuietClient, Labels DEF CWait1
  <2> QED
    BY <2>1, <2>2
<1>5. CASE CFunc1(t)
  <2>1. t = Center
    BY <1>5 DEF CFunc1, CGoto, Sides
  <2> QED
    BY <1>5, <2>1, QuietClient, Labels, Roles DEF CFunc1
<1>6. CASE CReset1(t)
  <2>1. t = Center
    BY <1>6 DEF CReset1, CGoto, Sides
  <2> QED
    BY <1>6, <2>1, QuietClient, Labels, Roles DEF CReset1
<1>7. CASE COprf2(t)
  <2>1. t = Center
    BY <1>7 DEF COprf2, CGoto, Sides
  <2> QED
    BY <1>7, <2>1, QuietClient, Labels, Roles DEF COprf2
<1>8. CASE CInc2(t)
  BY <1>8, QuietClient, Labels DEF CInc2
<1>9. CASE CWait2(t)
  <2>1. CASE t = Center
    BY <1>9, <2>1, QuietClient, Labels, Roles DEF CWait2
  <2>2. CASE t = Leader
    BY <1>9, <2>2, QuietClient, Labels, Roles DEF CWait2
  <2>3. CASE t # Center /\ t # Leader
    BY <1>9, <2>3, QuietClient, Labels DEF CWait2
  <2> QED
    BY <2>1, <2>2, <2>3
<1>10. CASE CReset2(t)
  <2>1. t = Center
    BY <1>10 DEF CReset2, CGoto, Sides
  <2> QED
    BY <1>10, <2>1, QuietClient, Labels, Roles DEF CReset2
<1> QED
  BY <1>1, <1>2, <1>3, <1>4, <1>5, <1>6, <1>7, <1>8, <1>9, <1>10 DEF Client

LEMMA ServerPairs ==
  ASSUME Sides, PairsInStep, NEW t \in Threads, Server(t)
  PROVE  Sides' /\ PairsInStep'
<1> USE DEF netVars, clientVars, SLeaderOnly, SCenterOnly, SNotCenter
<1>1. CASE SRecvKey(t) \/ SSearch(t) \/ SSciSend(t) \/ SSciRecv(t)
  BY <1>1, RecvKeyStep, SearchStep, SciSendStep, SciRecvStep
<1>2. CASE SIncNg(t)
  BY <1>2, QuietServer, Labels DEF SIncNg
<1>3. CASE SWaitNg(t)
  <2>1. CASE t = Center
    BY <1>3, <2>1, QuietServer, Labels DEF SWaitNg
  <2>2. CASE t # Center
    BY <1>3, <2>2, QuietServer, Labels DEF SWaitNg
  <2> QED
    BY <2>1, <2>2
<1>4. CASE SResetNg(t)
  BY <1>4, QuietServer, Labels DEF SResetNg
<1>5. CASE SEncrypt(t)
  BY <1>5, QuietServer, Labels DEF SEncrypt
<1>6. CASE SInc2(t)
  <2>1. CASE SGoto(t, "inc2", "wait2")
    BY <1>6, <2>1, QuietServer, Labels DEF SInc2
  <2>2. CASE SGoto(t, "inc3", "wait3")
    BY <1>6, <2>2, QuietServer, Labels DEF SInc2
  <2> QED
    BY <1>6, <2>1, <2>2 DEF SInc2
<1>7. CASE SWait2(t)
  <2>1. CASE t = Leader
    BY <1>7, <2>1, QuietServer, Labels DEF SWait2
  <2>2. CASE t = Center
    BY <1>7, <2>2, QuietServer, Labels, Roles DEF SWait2
  <2>3. CASE t # Leader /\ t # Center
    BY <1>7, <2>3, QuietServer, Labels DEF SWait2
  <2> QED
    BY <2>1, <2>2, <2>3
<1>8. CASE SFunc2(t)
  <2>1. t = Leader
    BY <1>8 DEF SFunc2, SGoto, Sides
  <2> QED
    BY <1>8, <2>1, QuietServer, Labels DEF SFunc2
<1>9. CASE SReset2(t)
  <2>1. CASE SGoto(t, "reset2", "oprf1")
    <3>1. t # Center
      BY <2>1, Roles DEF SGoto, Sides
    <3> QED
      BY <1>9, <2>1, <3>1, QuietServer, Labels DEF SReset2
  <2>2. CASE SGoto(t, "reset3", "sciSend")
    <3>1. t = Center
      BY <2>2 DEF SGoto, Sides
    <3> QED
      BY <1>9, <2>2, <3>1, QuietServer, Labels, Roles DEF SReset2
  <2> QED
    BY <1>9, <2>1, <2>2 DEF SReset2
<1>10. CASE SOprf1(t)
  BY <1>10, QuietServer, Labels DEF SOprf1
<1>11. CASE SInc1(t)
  BY <1>11, QuietServer, Labels DEF SInc1
<1>12. CASE SWait1(t)
  <2>1. CASE t = Center
    BY <1>12, <2>1, QuietServer, Labels DEF SWait1
  <2>2. CASE t # Center
    BY <1>12, <2>2, QuietServer, Labels DEF SWait1
  <2> QED
    BY <2>1, <2>2
<1>13. CASE SFunc1(t)
  <2>1. t = Center
    BY <1>13 DEF SFunc1, SGoto, Sides
  <2> QED
    BY <1>13, <2>1, QuietServer, Labels DEF SFunc1
<1>14. CASE SReset1(t)
  <2>1. t = Center
    BY <1>14 DEF SReset1, SGoto, Sides
  <2> QED
    BY <1>14, <2>1, QuietServer, Labels DEF SReset1
<1>15. CASE SOprf2(t)
  BY <1>15, QuietServer, Labels DEF SOprf2
<1>16. CASE SWait3(t)
  <2>1. CASE t = Center
    BY <1>16, <2>1, QuietServer, Labels DEF SWait3
  <2>2. CASE t = Leader
    BY <1>16, <2>2, QuietServer, Labels, Roles DEF SWait3
  <2>3. CASE t # Center /\ t # Leader
    BY <1>16, <2>3, QuietServer, Labels DEF SWait3
  <2> QED
    BY <2>1, <2>2, <2>3
<1> QED
  BY <1>1, <1>2, <1>3, <1>4, <1>5, <1>6, <1>7, <1>8, <1>9, <1>10, <1>11, <1>12,
     <1>13, <1>14, <1>15, <1>16 DEF Server
-----------------------------------------------------------------------------
(* The sites.                                                              *)

\* What is where at every site.
LEMMA ClientSites ==
  /\ ClientSite1.threads = Threads /\ ClientSite1.arrivers = Others
  /\ ClientSite1.special = Center
  /\ ClientSite1.before = {"sendKey", "oprf1", "inc1"}
  /\ ClientSite1.wait = {"wait1"} /\ ClientSite1.func = {"func1"}
  /\ ClientSite1.reset = {"reset1"}
  /\ Inside(ClientSite1) = {"sendKey", "oprf1", "inc1", "wait1", "func1", "reset1"}
  /\ ClientSite2.threads = Threads /\ ClientSite2.arrivers = Others
  /\ ClientSite2.special = Center
  /\ ClientSite2.before = {"sendKey", "oprf1", "inc1", "wait1", "func1", "reset1",
                           "oprf2", "inc2"}
  /\ ClientSite2.wait = {"wait2"} /\ ClientSite2.func = {}
  /\ ClientSite2.reset = {"reset2"}
  /\ Inside(ClientSite2) = {"sendKey", "oprf1", "inc1", "wait1", "func1", "reset1",
                            "oprf2", "inc2", "wait2", "reset2"}
BY DEF ClientSite1, ClientSite2, Inside

\* The server's first two sites, and its last two.
LEMMA ServerSites ==
  /\ ServerSiteNg.threads = Threads /\ ServerSiteNg.arrivers = Others
  /\ ServerSiteNg.special = Center
  /\ ServerSiteNg.before = {"recvKey", "incNg"}
  /\ ServerSiteNg.wait = {"waitNg"} /\ ServerSiteNg.func = {}
  /\ ServerSiteNg.reset = {"resetNg"}
  /\ Inside(ServerSiteNg) = {"recvKey", "incNg", "waitNg", "resetNg"}
  /\ ServerSite2.threads = Threads /\ ServerSite2.arrivers = Threads
  /\ ServerSite2.special = Leader
  /\ ServerSite2.before = {"recvKey", "incNg", "waitNg", "resetNg", "encrypt", "inc2"}
  /\ ServerSite2.wait = {"wait2"} /\ ServerSite2.func = {"func2"}
  /\ ServerSite2.reset = {"reset2"}
  /\ Inside(ServerSite2) = {"recvKey", "incNg", "waitNg", "resetNg", "encrypt", "inc2",
                            "wait2", "func2", "reset2"}
BY DEF ServerSiteNg, ServerSite2, Inside

LEMMA LaterServerSites ==
  /\ ServerSite1.threads = Threads /\ ServerSite1.arrivers = Others
  /\ ServerSite1.special = Center
  /\ ServerSite1.before = {"recvKey", "incNg", "waitNg", "resetNg", "encrypt", "inc2",
                           "wait2", "func2", "reset2", "oprf1", "inc1"}
  /\ ServerSite1.wait = {"wait1"} /\ ServerSite1.func = {"func1"}
  /\ ServerSite1.reset = {"reset1"}
  /\ Inside(ServerSite1) = {"recvKey", "incNg", "waitNg", "resetNg", "encrypt", "inc2",
                            "wait2", "func2", "reset2", "oprf1", "inc1", "wait1",
                            "func1", "reset1"}
  /\ ServerSite3.threads = Threads /\ ServerSite3.arrivers = Others
  /\ ServerSite3.special = Center
  /\ ServerSite3.before = {"recvKey", "incNg", "waitNg", "resetNg", "encrypt", "inc2",
                           "wait2", "func2", "reset2", "oprf1", "inc1", "wait1",
                           "func1", "reset1", "oprf2", "inc3"}
  /\ ServerSite3.wait = {"wait3"} /\ ServerSite3.func = {} /\ ServerSite3.reset = {"reset3"}
  /\ Inside(ServerSite3) = {"recvKey", "incNg", "waitNg", "resetNg", "encrypt", "inc2",
                            "wait2", "func2", "reset2", "oprf1", "inc1", "wait1",
                            "func1", "reset1", "oprf2", "inc3", "wait3", "reset3"}
<1>1. /\ ServerSite1.before = Inside(ServerSite2) \cup {"oprf1", "inc1"}
      /\ ServerSite1.wait = {"wait1"} /\ ServerSite1.func = {"func1"}
      /\ ServerSite1.reset = {"reset1"}
  BY DEF ServerSite1
<1>2. /\ ServerSite3.before = Inside(ServerSite1) \cup {"oprf2", "inc3"}
      /\ ServerSite3.wait = {"wait3"} /\ ServerSite3.func = {}
      /\ ServerSite3.reset = {"reset3"}
  BY DEF ServerSite3
<1>3. Inside(ServerSite1) = {"recvKey", "incNg", "waitNg", "resetNg", "encrypt", "inc2",
                             "wait2", "func2", "reset2", "oprf1", "inc1", "wait1",
                             "func1", "reset1"}
  <2>1. Inside(ServerSite1) = ServerSite1.before \cup {"wait1"} \cup {"func1"} \cup {"reset1"}
    BY <1>1 DEF Inside
  <2> QED
    BY <1>1, <2>1, ServerSites
<1>4. Inside(ServerSite3) = {"recvKey", "incNg", "waitNg", "resetNg", "encrypt", "inc2",
                             "wait2", "func2", "reset2", "oprf1", "inc1", "wait1",
                             "func1", "reset1", "oprf2", "inc3", "wait3", "reset3"}
  <2>1. Inside(ServerSite3) = ServerSite3.before \cup {"wait3"} \cup {} \cup {"reset3"}
    BY <1>2 DEF Inside
  <2> QED
    BY <1>2, <1>3, <2>1
<1>5. /\ ServerSite1.threads = Threads /\ ServerSite1.arrivers = Others
      /\ ServerSite1.special = Center
      /\ ServerSite3.threads = Threads /\ ServerSite3.arrivers = Others
      /\ ServerSite3.special = Center
  BY DEF ServerSite1, ServerSite3
<1>6. ServerSite1.before = {"recvKey", "incNg", "waitNg", "resetNg", "encrypt", "inc2",
                            "wait2", "func2", "reset2", "oprf1", "inc1"}
  BY <1>1, ServerSites
<1>7. ServerSite3.before = {"recvKey", "incNg", "waitNg", "resetNg", "encrypt", "inc2",
                            "wait2", "func2", "reset2", "oprf1", "inc1", "wait1",
                            "func1", "reset1", "oprf2", "inc3"}
  BY <1>2, <1>3
<1> QED
  BY <1>1, <1>2, <1>3, <1>4, <1>5, <1>6, <1>7

\* They are sites in the sense of RunProofs.
LEMMA AreSites ==
  /\ IsSite(ClientSite1) /\ IsSite(ClientSite2)
  /\ IsSite(ServerSiteNg) /\ IsSite(ServerSite2)
  /\ IsSite(ServerSite1) /\ IsSite(ServerSite3)
<1>1. IsFiniteSet(Others) /\ IsFiniteSet(Threads)
  <2>1. IsFiniteSet(Threads)
    BY FS_Interval, ProtocolAssumption DEF Threads
  <2> QED
    BY <2>1, FS_Subset, Roles
<1>2. IsSite(ClientSite1) /\ IsSite(ClientSite2)
  BY <1>1, Roles, ClientSites DEF IsSite
<1>3. IsSite(ServerSiteNg) /\ IsSite(ServerSite2)
  BY <1>1, Roles, ServerSites DEF IsSite
<1>4. IsSite(ServerSite1) /\ IsSite(ServerSite3)
  BY <1>1, Roles, LaterServerSites DEF IsSite
<1> QED
  BY <1>2, <1>3, <1>4

\* n-1 threads are counted at every site but the one at which the leader is
\* special.
LEMMA Counts == Cardinality(Others) = N-1 /\ Cardinality(Threads) = N
<1>1. Cardinality(Others) = N-1
  BY CountOfOthers
<1>2. Cardinality(Threads) = N
  BY FS_Interval, ProtocolAssumption DEF Threads
<1> QED
  BY <1>1, <1>2

\* The step of a thread, seen from every site of its process.
LEMMA ClientGoes ==
  ASSUME Sides, NEW t \in Threads, NEW from, NEW to, CGoto(t, from, to)
  PROVE  /\ Goes(ClientSite1, cpc, cpc', t, from, to)
         /\ Goes(ClientSite2, cpc, cpc', t, from, to)
         /\ cpc[t] = from
<1>1. /\ DOMAIN cpc = Threads /\ cpc = [u \in Threads |-> cpc[u]]
      /\ cpc[t] = from /\ cpc' = [cpc EXCEPT ![t] = to]
  BY DEF Sides, CGoto
<1> QED
  BY <1>1, ClientSites DEF Goes

\* The same for the server.
LEMMA ServerGoes ==
  ASSUME Sides, NEW t \in Threads, NEW from, NEW to, SGoto(t, from, to)
  PROVE  /\ Goes(ServerSiteNg, spc, spc', t, from, to)
         /\ Goes(ServerSite2, spc, spc', t, from, to)
         /\ Goes(ServerSite1, spc, spc', t, from, to)
         /\ Goes(ServerSite3, spc, spc', t, from, to)
         /\ spc[t] = from
<1>1. /\ DOMAIN spc = Threads /\ spc = [u \in Threads |-> spc[u]]
      /\ spc[t] = from /\ spc' = [spc EXCEPT ![t] = to]
  BY DEF Sides, SGoto
<1> QED
  BY <1>1, ServerSites, LaterServerSites DEF Goes

\* What is kept is what the invariant says of the next state.
LEMMA KeptNext ==
  /\ ClientKept => ClientMeets'
  /\ ServerKept => ServerMeets'
<1>1. ASSUME ClientKept
      PROVE  ClientMeets'
  <2>1. Meets(ClientSite1, cpc', Cf1') /\ Meets(ClientSite2, cpc', Cf2')
    BY <1>1 DEF ClientKept, Kept
  <2> QED
    BY <2>1 DEF ClientMeets
<1>2. ASSUME ServerKept
      PROVE  ServerMeets'
  <2>1. /\ Meets(ServerSiteNg, spc', Sf2_Ng') /\ Meets(ServerSite2, spc', Sf2')
        /\ Meets(ServerSite1, spc', Sf1') /\ Meets(ServerSite3, spc', Again(spc', Sf2'))
    BY <1>2 DEF ServerKept, Kept
  <2> QED
    BY <2>1 DEF ServerMeets
<1> QED
  BY <1>1, <1>2
-----------------------------------------------------------------------------
(* The client's steps at the client's sites.                               *)

\* Nobody moves.
LEMMA ClientRests ==
  ASSUME ClientMeets, UNCHANGED <<cpc, Cf1, Cf2>>
  PROVE  ClientKept
BY Rests DEF ClientMeets, ClientKept

\* A step that neither site notices.
LEMMA ClientPasses ==
  ASSUME Sides, ClientMeets, NEW t \in Threads, NEW from, NEW to,
         CGoto(t, from, to), UNCHANGED clientFlags,
         Quiet(ClientSite1, t, from, to), Quiet(ClientSite2, t, from, to)
  PROVE  ClientKept
<1>1. Cf1' = Cf1 /\ Cf2' = Cf2
  BY DEF clientFlags
<1>2. Kept(ClientSite1, cpc, cpc', Cf1')
  BY <1>1, ClientGoes, AreSites, Passes DEF ClientMeets
<1>3. Kept(ClientSite2, cpc, cpc', Cf2')
  BY <1>1, ClientGoes, AreSites, Passes DEF ClientMeets
<1> QED
  BY <1>2, <1>3 DEF ClientKept

\* The first site, on Cf1.
LEMMA ClientAtSite1 ==
  ASSUME Sides, ClientMeets, NEW t \in Threads,
         CInc1(t) \/ CWait1(t) \/ CFunc1(t) \/ CReset1(t)
  PROVE  ClientKept
<1> USE AreSites DEF ClientMeets
<1>0. ASSUME NEW from, NEW to, CGoto(t, from, to), Cf2' = Cf2,
             Quiet(ClientSite2, t, from, to)
      PROVE  Kept(ClientSite2, cpc, cpc', Cf2')
  BY <1>0, ClientGoes, Passes
<1>1. CASE CInc1(t)
  <2>1. /\ CGoto(t, "inc1", "wait1") /\ Cf1' = Cf1 + 1 /\ Cf2' = Cf2
        /\ t \in Others
    BY <1>1 DEF CInc1, CGoto, Sides, CNotCenter, Others
  <2>2. Kept(ClientSite1, cpc, cpc', Cf1')
    BY <2>1, ClientGoes, Arrives, ClientSites
  <2>3. Kept(ClientSite2, cpc, cpc', Cf2')
    BY <1>0, <2>1, ClientSites DEF Quiet
  <2> QED
    BY <2>2, <2>3 DEF ClientKept
<1>2. CASE CWait1(t) /\ t = Center
  <2>1. CGoto(t, "wait1", "func1") /\ Cf1 = N-1 /\ Cf1' = Cf1 /\ Cf2' = Cf2
    BY <1>2 DEF CWait1, Quits, clientFlags
  <2>2. Kept(ClientSite1, cpc, cpc', Cf1')
    BY <1>2, <2>1, ClientGoes, SeesAll, ClientSites, Counts
  <2>3. Kept(ClientSite2, cpc, cpc', Cf2')
    BY <1>0, <2>1, ClientSites DEF Quiet
  <2> QED
    BY <2>2, <2>3 DEF ClientKept
<1>3. CASE CWait1(t) /\ t # Center
  <2>1. CGoto(t, "wait1", "inc2") /\ Cf1 = 0 /\ Cf1' = Cf1 /\ Cf2' = Cf2
    BY <1>3 DEF CWait1, Quits, clientFlags
  <2>2. Kept(ClientSite1, cpc, cpc', Cf1')
    BY <1>3, <2>1, ClientGoes, SeesZero, ClientSites DEF Others
  <2>3. Kept(ClientSite2, cpc, cpc', Cf2')
    BY <1>0, <2>1, ClientSites DEF Quiet
  <2> QED
    BY <2>2, <2>3 DEF ClientKept
<1>4. CASE CFunc1(t)
  <2>1. CGoto(t, "func1", "reset1") /\ Cf1' = Cf1 /\ Cf2' = Cf2 /\ t = Center
    BY <1>4 DEF CFunc1, CGoto, Sides, CCenterOnly, clientFlags
  <2>2. Kept(ClientSite1, cpc, cpc', Cf1')
    BY <2>1, ClientGoes, RunsFunction, ClientSites
  <2>3. Kept(ClientSite2, cpc, cpc', Cf2')
    BY <1>0, <2>1, ClientSites DEF Quiet
  <2> QED
    BY <2>2, <2>3 DEF ClientKept
<1>5. CASE CReset1(t)
  <2>1. CGoto(t, "reset1", "oprf2") /\ Cf2' = Cf2 /\ t = Center
    BY <1>5 DEF CReset1, CGoto, Sides, CCenterOnly
  <2>2. Kept(ClientSite1, cpc, cpc', Cf1')
    <3>1. /\ "oprf2" \notin Inside(ClientSite1) /\ "reset1" \in ClientSite1.reset
          /\ t = ClientSite1.special
      BY <2>1, ClientSites
    <3>2. Goes(ClientSite1, cpc, cpc', t, "reset1", "oprf2")
      BY <2>1, ClientGoes
    <3> QED
      BY <3>1, <3>2, Resets
  <2>3. Kept(ClientSite2, cpc, cpc', Cf2')
    BY <1>0, <2>1, ClientSites DEF Quiet
  <2> QED
    BY <2>2, <2>3 DEF ClientKept
<1> QED
  BY <1>1, <1>2, <1>3, <1>4, <1>5

\* The second site, on Cf2.
LEMMA ClientAtSite2 ==
  ASSUME Sides, ClientMeets, NEW t \in Threads, CInc2(t) \/ CWait2(t) \/ CReset2(t)
  PROVE  ClientKept
<1> USE AreSites DEF ClientMeets
<1>0. ASSUME NEW from, NEW to, CGoto(t, from, to), Cf1' = Cf1,
             {from, to} \cap Inside(ClientSite1) = {}
      PROVE  Kept(ClientSite1, cpc, cpc', Cf1')
  <2>1. Quiet(ClientSite1, t, from, to)
    BY <1>0, ClientSites DEF Quiet, Others
  <2> QED
    BY <1>0, <2>1, ClientGoes, Passes
<1>1. CASE CInc2(t)
  <2>1. /\ CGoto(t, "inc2", "wait2") /\ Cf2' = Cf2 + 1 /\ Cf1' = Cf1
        /\ t \in Others
    BY <1>1 DEF CInc2, CGoto, Sides, CNotCenter, Others
  <2>2. Kept(ClientSite2, cpc, cpc', Cf2')
    BY <2>1, ClientGoes, Arrives, ClientSites
  <2>3. Kept(ClientSite1, cpc, cpc', Cf1')
    BY <1>0, <2>1, ClientSites
  <2> QED
    BY <2>2, <2>3 DEF ClientKept
<1>2. CASE CWait2(t) /\ t = Center
  <2>1. CGoto(t, "wait2", "reset2") /\ Cf2 = N-1 /\ Cf1' = Cf1 /\ Cf2' = Cf2
    BY <1>2 DEF CWait2, Quits, clientFlags
  <2>2. Kept(ClientSite2, cpc, cpc', Cf2')
    BY <1>2, <2>1, ClientGoes, SeesAll, ClientSites, Counts
  <2>3. Kept(ClientSite1, cpc, cpc', Cf1')
    BY <1>0, <2>1, ClientSites
  <2> QED
    BY <2>2, <2>3 DEF ClientKept
<1>3. CASE CWait2(t) /\ t # Center
  <2>1. PICK to : /\ CGoto(t, "wait2", to) /\ to \in {"send", "sci"}
                  /\ Cf2 = 0 /\ Cf1' = Cf1 /\ Cf2' = Cf2
    BY <1>3 DEF CWait2, Quits, clientFlags
  <2>2. Kept(ClientSite2, cpc, cpc', Cf2')
    BY <1>3, <2>1, ClientGoes, SeesZero, ClientSites DEF Others
  <2>3. Kept(ClientSite1, cpc, cpc', Cf1')
    BY <1>0, <2>1, ClientSites
  <2> QED
    BY <2>2, <2>3 DEF ClientKept
<1>4. CASE CReset2(t)
  <2>1. CGoto(t, "reset2", "sci") /\ Cf1' = Cf1 /\ t = Center
    BY <1>4 DEF CReset2, CGoto, Sides, CCenterOnly
  <2>2. Kept(ClientSite2, cpc, cpc', Cf2')
    BY <2>1, ClientGoes, Resets, ClientSites
  <2>3. Kept(ClientSite1, cpc, cpc', Cf1')
    BY <1>0, <2>1, ClientSites
  <2> QED
    BY <2>2, <2>3 DEF ClientKept
<1> QED
  BY <1>1, <1>2, <1>3, <1>4

\* Every step of a client thread.
LEMMA ClientKeeps ==
  ASSUME Sides, ClientMeets, NEW t \in Threads, Client(t)
  PROVE  ClientKept
<1>0. t \in Others \cup {Center}
  BY DEF Others
<1>1. CASE CInc1(t) \/ CWait1(t) \/ CFunc1(t) \/ CReset1(t)
  BY <1>1, ClientAtSite1
<1>2. CASE CInc2(t) \/ CWait2(t) \/ CReset2(t)
  BY <1>2, ClientAtSite2
<1>3. CASE CSendKey(t)
  <2>1. CGoto(t, "sendKey", "oprf1") /\ UNCHANGED clientFlags
    BY <1>3 DEF CSendKey
  <2>2. Quiet(ClientSite1, t, "sendKey", "oprf1") /\ Quiet(ClientSite2, t, "sendKey", "oprf1")
    BY <1>0, ClientSites DEF Quiet
  <2> QED
    BY <2>1, <2>2, ClientPasses
<1>4. CASE COprf1(t)
  <2>1. CGoto(t, "oprf1", "inc1") /\ UNCHANGED clientFlags
    BY <1>4 DEF COprf1
  <2>2. Quiet(ClientSite1, t, "oprf1", "inc1") /\ Quiet(ClientSite2, t, "oprf1", "inc1")
    BY <1>0, ClientSites DEF Quiet
  <2> QED
    BY <2>1, <2>2, ClientPasses
<1>5. CASE COprf2(t)
  <2>1. CGoto(t, "oprf2", "wait2") /\ UNCHANGED clientFlags /\ t = Center
    BY <1>5 DEF COprf2, CGoto, Sides, CCenterOnly
  <2>2. Quiet(ClientSite1, t, "oprf2", "wait2") /\ Quiet(ClientSite2, t, "oprf2", "wait2")
    BY <1>0, <2>1, Roles, ClientSites DEF Quiet
  <2> QED
    BY <2>1, <2>2, ClientPasses
<1>6. CASE CSend(t)
  <2>1. CGoto(t, "send", "recv") /\ UNCHANGED clientFlags
    BY <1>6 DEF CSend
  <2>2. Quiet(ClientSite1, t, "send", "recv") /\ Quiet(ClientSite2, t, "send", "recv")
    BY <1>0, ClientSites DEF Quiet
  <2> QED
    BY <2>1, <2>2, ClientPasses
<1>7. CASE CRecv(t)
  <2>1. CGoto(t, "recv", "sci") /\ UNCHANGED clientFlags
    BY <1>7 DEF CRecv
  <2>2. Quiet(ClientSite1, t, "recv", "sci") /\ Quiet(ClientSite2, t, "recv", "sci")
    BY <1>0, ClientSites DEF Quiet
  <2> QED
    BY <2>1, <2>2, ClientPasses
<1>8. CASE CSci(t)
  <2>1. CGoto(t, "sci", "done") /\ UNCHANGED clientFlags
    BY <1>8 DEF CSci
  <2>2. Quiet(ClientSite1, t, "sci", "done") /\ Quiet(ClientSite2, t, "sci", "done")
    BY <1>0, ClientSites DEF Quiet
  <2> QED
    BY <2>1, <2>2, ClientPasses
<1> QED
  BY <1>1, <1>2, <1>3, <1>4, <1>5, <1>6, <1>7, <1>8 DEF Client
-----------------------------------------------------------------------------
(* The server's steps at the server's sites.                               *)

\* Nobody moves.
LEMMA ServerRests ==
  ASSUME ServerMeets, UNCHANGED <<spc, Sf1, Sf2, Sf2_Ng>>
  PROVE  ServerKept
<1>1. Again(spc', Sf2') = Again(spc, Sf2) /\ spc' = spc
  OBVIOUS
<1> QED
  BY <1>1, Rests DEF ServerMeets, ServerKept

\* Steps that one of the sites does not notice.
LEMMA AwayFromNg ==
  ASSUME Sides, ServerMeets, NEW t \in Threads, NEW from, NEW to,
         SGoto(t, from, to), Sf2_Ng' = Sf2_Ng, Quiet(ServerSiteNg, t, from, to)
  PROVE  Kept(ServerSiteNg, spc, spc', Sf2_Ng')
BY ServerGoes, AreSites, Passes DEF ServerMeets

LEMMA AwayFrom2 ==
  ASSUME Sides, ServerMeets, NEW t \in Threads, NEW from, NEW to,
         SGoto(t, from, to), Quiet(ServerSite2, t, from, to),
         Sf2' = Sf2 \/ from \notin Inside(ServerSite2)
  PROVE  Kept(ServerSite2, spc, spc', Sf2')
BY ServerGoes, AreSites, Passes DEF ServerMeets

LEMMA AwayFrom1 ==
  ASSUME Sides, ServerMeets, NEW t \in Threads, NEW from, NEW to,
         SGoto(t, from, to), Sf1' = Sf1, Quiet(ServerSite1, t, from, to)
  PROVE  Kept(ServerSite1, spc, spc', Sf1')
BY ServerGoes, AreSites, Passes DEF ServerMeets

LEMMA AwayFrom3 ==
  ASSUME Sides, ServerMeets, NEW t \in Threads, NEW from, NEW to,
         SGoto(t, from, to), Quiet(ServerSite3, t, from, to),
         Again(spc', Sf2') = Again(spc, Sf2)
  PROVE  Kept(ServerSite3, spc, spc', Again(spc', Sf2'))
<1>1. Meets(ServerSite3, spc, Again(spc, Sf2))
  BY DEF ServerMeets
<1>2. Goes(ServerSite3, spc, spc', t, from, to) /\ IsSite(ServerSite3)
  BY ServerGoes, AreSites
<1> QED
  BY <1>1, <1>2, Passes

\* The last site's count is the same as long as nobody touches the flag and
\* the leader does not leave the other site on it.
LEMMA SameAgain ==
  ASSUME Sides, NEW t \in Threads, NEW from, NEW to, SGoto(t, from, to), Sf2' = Sf2,
         t = Leader => (from \in Inside(ServerSite2) <=> to \in Inside(ServerSite2))
  PROVE  Again(spc', Sf2') = Again(spc, Sf2)
<1>1. spc[t] = from /\ spc' = [spc EXCEPT ![t] = to] /\ spc \in [Threads -> Range(SOrder)]
  BY DEF SGoto, Sides
<1>2. spc'[Leader] \in Inside(ServerSite2) <=> spc[Leader] \in Inside(ServerSite2)
  BY <1>1, Roles
<1> QED
  BY <1>2 DEF Again

\* A thread that is past the first site on Sf2 knows that the leader is.
LEMMA LeaderIsPast ==
  ASSUME Sides, ServerMeets, NEW t \in Threads, spc[t] \notin Inside(ServerSite2)
  PROVE  spc[Leader] \notin Inside(ServerSite2)
BY ServerSites, AllMet DEF ServerMeets

\* A step that no site notices.
LEMMA ServerPasses ==
  ASSUME Sides, ServerMeets, NEW t \in Threads, NEW from, NEW to,
         SGoto(t, from, to), UNCHANGED serverFlags,
         Quiet(ServerSiteNg, t, from, to), Quiet(ServerSite2, t, from, to),
         Quiet(ServerSite1, t, from, to), Quiet(ServerSite3, t, from, to)
  PROVE  ServerKept
<1>1. Sf1' = Sf1 /\ Sf2' = Sf2 /\ Sf2_Ng' = Sf2_Ng
  BY DEF serverFlags
<1>2. from \in Inside(ServerSite2) <=> to \in Inside(ServerSite2)
  BY DEF Quiet, Inside
<1>3. Again(spc', Sf2') = Again(spc, Sf2)
  BY <1>1, <1>2, SameAgain
<1> QED
  BY <1>1, <1>3, AwayFromNg, AwayFrom2, AwayFrom1, AwayFrom3 DEF ServerKept

\* The first site, on Sf2_Ng.
LEMMA ServerAtSiteNg ==
  ASSUME Sides, ServerMeets, NEW t \in Threads, SIncNg(t) \/ SWaitNg(t) \/ SResetNg(t)
  PROVE  ServerKept
<1>0. ASSUME NEW from, NEW to, SGoto(t, from, to), Sf1' = Sf1, Sf2' = Sf2,
             {from, to} \subseteq ServerSite2.before
      PROVE  /\ Kept(ServerSite2, spc, spc', Sf2') /\ Kept(ServerSite1, spc, spc', Sf1')
             /\ Kept(ServerSite3, spc, spc', Again(spc', Sf2'))
  <2>1. /\ from \in Inside(ServerSite2) /\ to \in Inside(ServerSite2)
        /\ from \in ServerSite1.before /\ to \in ServerSite1.before
        /\ from \in ServerSite3.before /\ to \in ServerSite3.before
    BY <1>0 DEF ServerSite1, ServerSite3, Inside
  <2>2. /\ Quiet(ServerSite2, t, from, to) /\ Quiet(ServerSite1, t, from, to)
        /\ Quiet(ServerSite3, t, from, to)
    BY <1>0, <2>1 DEF Quiet
  <2>3. Again(spc', Sf2') = Again(spc, Sf2)
    BY <1>0, <2>1, SameAgain
  <2> QED
    BY <1>0, <2>2, <2>3, AwayFrom2, AwayFrom1, AwayFrom3
<1>1. CASE SIncNg(t)
  <2>1. /\ SGoto(t, "incNg", "waitNg") /\ Sf2_Ng' = Sf2_Ng + 1
        /\ Sf1' = Sf1 /\ Sf2' = Sf2 /\ t \in Others
    BY <1>1 DEF SIncNg, SGoto, Sides, SNotCenter, Others
  <2>2. Kept(ServerSiteNg, spc, spc', Sf2_Ng')
    BY <2>1, ServerGoes, Arrives, AreSites, ServerSites DEF ServerMeets
  <2> QED
    BY <1>0, <2>1, <2>2, ServerSites DEF ServerKept
<1>2. CASE SWaitNg(t) /\ t = Center
  <2>1. /\ SGoto(t, "waitNg", "resetNg") /\ Sf2_Ng = N-1 /\ Sf2_Ng' = Sf2_Ng
        /\ Sf1' = Sf1 /\ Sf2' = Sf2
    BY <1>2 DEF SWaitNg, Quits, serverFlags
  <2>2. Kept(ServerSiteNg, spc, spc', Sf2_Ng')
    BY <1>2, <2>1, ServerGoes, SeesAll, AreSites, ServerSites, Counts DEF ServerMeets
  <2> QED
    BY <1>0, <2>1, <2>2, ServerSites DEF ServerKept
<1>3. CASE SWaitNg(t) /\ t # Center
  <2>1. /\ SGoto(t, "waitNg", "encrypt") /\ Sf2_Ng = 0 /\ Sf2_Ng' = Sf2_Ng
        /\ Sf1' = Sf1 /\ Sf2' = Sf2
    BY <1>3 DEF SWaitNg, Quits, serverFlags
  <2>2. Kept(ServerSiteNg, spc, spc', Sf2_Ng')
    <3>1. /\ "encrypt" \notin Inside(ServerSiteNg) /\ "waitNg" \in ServerSiteNg.wait
          /\ t \in ServerSiteNg.arrivers /\ t # ServerSiteNg.special
      BY <1>3, ServerSites DEF Others
    <3> QED
      BY <2>1, <3>1, ServerGoes, SeesZero, AreSites DEF ServerMeets
  <2> QED
    BY <1>0, <2>1, <2>2, ServerSites DEF ServerKept
<1>4. CASE SResetNg(t)
  <2>1. /\ SGoto(t, "resetNg", "encrypt") /\ Sf1' = Sf1 /\ Sf2' = Sf2 /\ t = Center
    BY <1>4 DEF SResetNg, SGoto, Sides, SCenterOnly
  <2>2. Kept(ServerSiteNg, spc, spc', Sf2_Ng')
    <3>1. /\ "encrypt" \notin Inside(ServerSiteNg) /\ "resetNg" \in ServerSiteNg.reset
          /\ t = ServerSiteNg.special
      BY <2>1, ServerSites
    <3> QED
      BY <2>1, <3>1, ServerGoes, Resets, AreSites DEF ServerMeets
  <2> QED
    BY <1>0, <2>1, <2>2, ServerSites DEF ServerKept
<1> QED
  BY <1>1, <1>2, <1>3, <1>4

\* The second site, on Sf2.
LEMMA ServerAtSite2 ==
  ASSUME Sides, ServerMeets, NEW t \in Threads,
         \/ SInc2(t) /\ SGoto(t, "inc2", "wait2")
         \/ SWait2(t) \/ SFunc2(t)
         \/ SReset2(t) /\ SGoto(t, "reset2", "oprf1")
  PROVE  ServerKept
<1>0. ASSUME NEW from, NEW to, SGoto(t, from, to), Sf1' = Sf1, Sf2_Ng' = Sf2_Ng,
             {from, to} \cap Inside(ServerSiteNg) = {},
             \/ {from, to} \subseteq ServerSite1.before
             \/ from \in ServerSite1.before /\ to = "wait1" /\ t = Center,
             Again(spc', Sf2') = Again(spc, Sf2)
      PROVE  /\ Kept(ServerSiteNg, spc, spc', Sf2_Ng') /\ Kept(ServerSite1, spc, spc', Sf1')
             /\ Kept(ServerSite3, spc, spc', Again(spc', Sf2'))
  <2>1. from \in ServerSite3.before /\ to \in ServerSite3.before
    BY <1>0 DEF ServerSite1, ServerSite3, Inside
  <2>2. Quiet(ServerSiteNg, t, from, to)
    BY <1>0, ServerSites DEF Quiet, Others
  <2>3. Quiet(ServerSite1, t, from, to)
    BY <1>0, LaterServerSites DEF Quiet, Others
  <2>4. Quiet(ServerSite3, t, from, to)
    BY <2>1 DEF Quiet
  <2> QED
    BY <1>0, <2>2, <2>3, <2>4, AwayFromNg, AwayFrom1, AwayFrom3
<1>1. CASE SInc2(t) /\ SGoto(t, "inc2", "wait2")
  <2>1. Sf2' = Sf2 + 1 /\ Sf1' = Sf1 /\ Sf2_Ng' = Sf2_Ng
    BY <1>1 DEF SInc2
  <2>2. Kept(ServerSite2, spc, spc', Sf2')
    BY <1>1, <2>1, ServerGoes, Arrives, AreSites, ServerSites DEF ServerMeets
  <2>3. Again(spc', Sf2') = Again(spc, Sf2)
    <3>1. spc[t] = "inc2" /\ spc' = [spc EXCEPT ![t] = "wait2"]
          /\ spc \in [Threads -> Range(SOrder)]
      BY <1>1 DEF SGoto, Sides
    <3>2. t \notin Arrived(ServerSite2, spc) /\ t \in ServerSite2.arrivers
      BY <3>1, ServerSites DEF Arrived
    <3>3. spc[Leader] \in ServerSite2.before \cup ServerSite2.wait
      BY <3>2, ServerSites DEF ServerMeets, Meets
    <3>4. spc'[Leader] \in ServerSite2.before \cup ServerSite2.wait
      BY <3>1, <3>3, Roles, ServerSites
    <3> QED
      BY <3>3, <3>4 DEF Again, Inside
  <2> QED
    BY <1>0, <1>1, <2>1, <2>2, <2>3, ServerSites, LaterServerSites DEF ServerKept
<1>2. CASE SWait2(t) /\ t = Leader
  <2>1. /\ SGoto(t, "wait2", "func2") /\ Sf2 = N /\ Sf2' = Sf2
        /\ Sf1' = Sf1 /\ Sf2_Ng' = Sf2_Ng
    BY <1>2 DEF SWait2, Quits, serverFlags
  <2>2. Kept(ServerSite2, spc, spc', Sf2')
    BY <1>2, <2>1, ServerGoes, SeesAll, AreSites, ServerSites, Counts DEF ServerMeets
  <2>3. Again(spc', Sf2') = Again(spc, Sf2)
    BY <2>1, SameAgain, ServerSites
  <2> QED
    BY <1>0, <2>1, <2>2, <2>3, ServerSites, LaterServerSites DEF ServerKept
<1>3. CASE SWait2(t) /\ t # Leader
  <2>1. PICK to : /\ SGoto(t, "wait2", to) /\ Sf2 = 0 /\ Sf2' = Sf2
                  /\ Sf1' = Sf1 /\ Sf2_Ng' = Sf2_Ng
                  /\ to = "oprf1" \/ (to = "wait1" /\ t = Center)
    BY <1>3 DEF SWait2, Quits, serverFlags
  <2>2. Kept(ServerSite2, spc, spc', Sf2')
    <3>1. /\ to \notin Inside(ServerSite2) /\ "wait2" \in ServerSite2.wait
          /\ t \in ServerSite2.arrivers /\ t # ServerSite2.special
      BY <1>3, <2>1, ServerSites
    <3> QED
      BY <2>1, <3>1, ServerGoes, SeesZero, AreSites DEF ServerMeets
  <2>3. Again(spc', Sf2') = Again(spc, Sf2)
    BY <1>3, <2>1, SameAgain
  <2>4. /\ {"wait2", to} \cap Inside(ServerSiteNg) = {}
        /\ \/ {"wait2", to} \subseteq ServerSite1.before
           \/ "wait2" \in ServerSite1.before /\ to = "wait1" /\ t = Center
    BY <2>1, ServerSites, LaterServerSites
  <2> QED
    BY <1>0, <2>1, <2>2, <2>3, <2>4 DEF ServerKept
<1>4. CASE SFunc2(t)
  <2>1. /\ SGoto(t, "func2", "reset2") /\ Sf2' = Sf2 /\ t = Leader
        /\ Sf1' = Sf1 /\ Sf2_Ng' = Sf2_Ng
    BY <1>4 DEF SFunc2, SGoto, Sides, SLeaderOnly, serverFlags
  <2>2. Kept(ServerSite2, spc, spc', Sf2')
    BY <2>1, ServerGoes, RunsFunction, AreSites, ServerSites DEF ServerMeets
  <2>3. Again(spc', Sf2') = Again(spc, Sf2)
    BY <2>1, SameAgain, ServerSites
  <2> QED
    BY <1>0, <2>1, <2>2, <2>3, ServerSites, LaterServerSites DEF ServerKept
<1>5. CASE SReset2(t) /\ SGoto(t, "reset2", "oprf1")
  <2>1. Sf2' = 0 /\ t = Leader /\ Sf1' = Sf1 /\ Sf2_Ng' = Sf2_Ng
    BY <1>5 DEF SReset2, SGoto, Sides, SLeaderOnly
  <2>2. Kept(ServerSite2, spc, spc', Sf2')
    <3>1. /\ "oprf1" \notin Inside(ServerSite2) /\ "reset2" \in ServerSite2.reset
          /\ t = ServerSite2.special
      BY <2>1, ServerSites
    <3> QED
      BY <1>5, <3>1, ServerGoes, Resets, AreSites DEF ServerMeets
  <2>3. Again(spc', Sf2') = Again(spc, Sf2)
    <3>1. spc[Leader] = "reset2"
      BY <1>5, <2>1 DEF SGoto
    <3>2. Again(spc, Sf2) = 0
      BY <3>1, ServerSites DEF Again
    <3>3. Again(spc', Sf2') = 0
      BY <2>1 DEF Again
    <3> QED
      BY <3>2, <3>3
  <2> QED
    BY <1>0, <1>5, <2>1, <2>2, <2>3, ServerSites, LaterServerSites DEF ServerKept
<1> QED
  BY <1>1, <1>2, <1>3, <1>4, <1>5

\* The third site, on Sf1.
LEMMA ServerAtSite1 ==
  ASSUME Sides, ServerMeets, NEW t \in Threads,
         SInc1(t) \/ SWait1(t) \/ SFunc1(t) \/ SReset1(t)
  PROVE  ServerKept
<1>0. ASSUME NEW from, NEW to, SGoto(t, from, to), Sf2' = Sf2, Sf2_Ng' = Sf2_Ng,
             {from, to} \cap Inside(ServerSite2) = {},
             {from, to} \subseteq ServerSite3.before
      PROVE  /\ Kept(ServerSiteNg, spc, spc', Sf2_Ng') /\ Kept(ServerSite2, spc, spc', Sf2')
             /\ Kept(ServerSite3, spc, spc', Again(spc', Sf2'))
  <2>1. {from, to} \cap Inside(ServerSiteNg) = {}
    BY <1>0, ServerSites
  <2>2. Quiet(ServerSiteNg, t, from, to) /\ Quiet(ServerSite2, t, from, to)
    BY <1>0, <2>1, ServerSites DEF Quiet, Others
  <2>3. Quiet(ServerSite3, t, from, to)
    BY <1>0 DEF Quiet
  <2>4. Again(spc', Sf2') = Again(spc, Sf2)
    BY <1>0, SameAgain
  <2> QED
    BY <1>0, <2>2, <2>3, <2>4, AwayFromNg, AwayFrom2, AwayFrom3
<1>1. CASE SInc1(t)
  <2>1. /\ SGoto(t, "inc1", "wait1") /\ Sf1' = Sf1 + 1
        /\ Sf2' = Sf2 /\ Sf2_Ng' = Sf2_Ng /\ t \in Others
    BY <1>1 DEF SInc1, SGoto, Sides, SNotCenter, Others
  <2>2. Kept(ServerSite1, spc, spc', Sf1')
    BY <2>1, ServerGoes, Arrives, AreSites, LaterServerSites DEF ServerMeets
  <2> QED
    BY <1>0, <2>1, <2>2, ServerSites, LaterServerSites DEF ServerKept
<1>2. CASE SWait1(t) /\ t = Center
  <2>1. /\ SGoto(t, "wait1", "func1") /\ Sf1 = N-1 /\ Sf1' = Sf1
        /\ Sf2' = Sf2 /\ Sf2_Ng' = Sf2_Ng
    BY <1>2 DEF SWait1, Quits, serverFlags
  <2>2. Kept(ServerSite1, spc, spc', Sf1')
    BY <1>2, <2>1, ServerGoes, SeesAll, AreSites, LaterServerSites, Counts
       DEF ServerMeets
  <2> QED
    BY <1>0, <2>1, <2>2, ServerSites, LaterServerSites DEF ServerKept
<1>3. CASE SWait1(t) /\ t # Center
  <2>1. /\ SGoto(t, "wait1", "inc3") /\ Sf1 = 0 /\ Sf1' = Sf1
        /\ Sf2' = Sf2 /\ Sf2_Ng' = Sf2_Ng
    BY <1>3 DEF SWait1, Quits, serverFlags
  <2>2. Kept(ServerSite1, spc, spc', Sf1')
    <3>1. /\ "inc3" \notin Inside(ServerSite1) /\ "wait1" \in ServerSite1.wait
          /\ t \in ServerSite1.arrivers /\ t # ServerSite1.special
      BY <1>3, LaterServerSites DEF Others
    <3> QED
      BY <2>1, <3>1, ServerGoes, SeesZero, AreSites DEF ServerMeets
  <2> QED
    BY <1>0, <2>1, <2>2, ServerSites, LaterServerSites DEF ServerKept
<1>4. CASE SFunc1(t)
  <2>1. /\ SGoto(t, "func1", "reset1") /\ Sf1' = Sf1 /\ t = Center
        /\ Sf2' = Sf2 /\ Sf2_Ng' = Sf2_Ng
    BY <1>4 DEF SFunc1, SGoto, Sides, SCenterOnly, serverFlags
  <2>2. Kept(ServerSite1, spc, spc', Sf1')
    BY <2>1, ServerGoes, RunsFunction, AreSites, LaterServerSites DEF ServerMeets
  <2> QED
    BY <1>0, <2>1, <2>2, ServerSites, LaterServerSites DEF ServerKept
<1>5. CASE SReset1(t)
  <2>1. /\ SGoto(t, "reset1", "oprf2") /\ t = Center
        /\ Sf2' = Sf2 /\ Sf2_Ng' = Sf2_Ng
    BY <1>5 DEF SReset1, SGoto, Sides, SCenterOnly
  <2>2. Kept(ServerSite1, spc, spc', Sf1')
    <3>1. /\ "oprf2" \notin Inside(ServerSite1) /\ "reset1" \in ServerSite1.reset
          /\ t = ServerSite1.special
      BY <2>1, LaterServerSites
    <3> QED
      BY <2>1, <3>1, ServerGoes, Resets, AreSites DEF ServerMeets
  <2> QED
    BY <1>0, <2>1, <2>2, ServerSites, LaterServerSites DEF ServerKept
<1> QED
  BY <1>1, <1>2, <1>3, <1>4, <1>5

\* The last site, on Sf2 again.
LEMMA ServerAtSite3 ==
  ASSUME Sides, ServerMeets, NEW t \in Threads,
         \/ SInc2(t) /\ SGoto(t, "inc3", "wait3")
         \/ SWait3(t)
         \/ SReset2(t) /\ SGoto(t, "reset3", "sciSend")
  PROVE  ServerKept
<1>0. ASSUME NEW from, NEW to, SGoto(t, from, to), Sf1' = Sf1, Sf2_Ng' = Sf2_Ng,
             {from, to} \cap Inside(ServerSite1) = {}
      PROVE  /\ Kept(ServerSiteNg, spc, spc', Sf2_Ng') /\ Kept(ServerSite2, spc, spc', Sf2')
             /\ Kept(ServerSite1, spc, spc', Sf1')
  <2>1. /\ {from, to} \cap Inside(ServerSiteNg) = {}
        /\ {from, to} \cap Inside(ServerSite2) = {}
    BY <1>0, ServerSites, LaterServerSites
  <2>2. Quiet(ServerSiteNg, t, from, to) /\ Quiet(ServerSite2, t, from, to)
    BY <2>1, ServerSites DEF Quiet, Others
  <2>3. Quiet(ServerSite1, t, from, to)
    BY <1>0, LaterServerSites DEF Quiet, Others
  <2>4. from \notin Inside(ServerSite2)
    BY <2>1
  <2> QED
    BY <1>0, <2>2, <2>3, <2>4, AwayFromNg, AwayFrom2, AwayFrom1
\* Here the flag counts for the last site, before the step and after it.
<1>a. ASSUME NEW from, NEW to, SGoto(t, from, to),
             {from, to} \cap Inside(ServerSite1) = {}
      PROVE  Again(spc, Sf2) = Sf2 /\ Again(spc', Sf2') = Sf2'
  <2>1. /\ from \notin Inside(ServerSite2) /\ to \notin Inside(ServerSite2)
        /\ spc[t] = from /\ spc' = [spc EXCEPT ![t] = to]
        /\ spc \in [Threads -> Range(SOrder)]
    BY <1>a, ServerSites, LaterServerSites DEF SGoto, Sides
  <2>2. spc[Leader] \notin Inside(ServerSite2)
    BY <2>1, LeaderIsPast
  <2>3. spc'[Leader] \notin Inside(ServerSite2)
    BY <2>1, <2>2, Roles
  <2> QED
    BY <2>2, <2>3 DEF Again
<1>1. CASE SInc2(t) /\ SGoto(t, "inc3", "wait3")
  <2>1. Sf2' = Sf2 + 1 /\ Sf1' = Sf1 /\ Sf2_Ng' = Sf2_Ng /\ t \in Others
    BY <1>1 DEF SInc2, SGoto, Sides, SNotCenter, Others
  <2>2. /\ {"inc3", "wait3"} \cap Inside(ServerSite1) = {}
        /\ t \in ServerSite3.arrivers /\ "inc3" \in ServerSite3.before
        /\ "wait3" \in ServerSite3.wait
    BY <2>1, LaterServerSites
  <2>3. Again(spc, Sf2) = Sf2 /\ Again(spc', Sf2') = Sf2'
    BY <1>a, <1>1, <2>2
  <2>4. Kept(ServerSite3, spc, spc', Again(spc', Sf2'))
    BY <1>1, <2>1, <2>2, <2>3, ServerGoes, Arrives, AreSites DEF ServerMeets
  <2> QED
    BY <1>0, <1>1, <2>1, <2>2, <2>4 DEF ServerKept
<1>2. CASE SWait3(t) /\ t = Center
  <2>1. /\ SGoto(t, "wait3", "reset3") /\ Sf2 = N-1 /\ Sf2' = Sf2
        /\ Sf1' = Sf1 /\ Sf2_Ng' = Sf2_Ng
    BY <1>2 DEF SWait3, Quits, serverFlags
  <2>2. /\ {"wait3", "reset3"} \cap Inside(ServerSite1) = {}
        /\ t = ServerSite3.special /\ "wait3" \in ServerSite3.wait
        /\ "reset3" \in ServerSite3.func \cup ServerSite3.reset
        /\ Sf2 = Cardinality(ServerSite3.arrivers)
    BY <1>2, <2>1, LaterServerSites, Counts
  <2>3. Again(spc, Sf2) = Sf2 /\ Again(spc', Sf2') = Sf2
    BY <1>a, <2>1, <2>2
  <2>4. Kept(ServerSite3, spc, spc', Again(spc', Sf2'))
    BY <2>1, <2>2, <2>3, ServerGoes, SeesAll, AreSites DEF ServerMeets
  <2> QED
    BY <1>0, <2>1, <2>2, <2>4 DEF ServerKept
<1>3. CASE SWait3(t) /\ t # Center
  <2>1. PICK to : /\ SGoto(t, "wait3", to) /\ to \in {"search", "sciSend"}
                  /\ Sf2 = 0 /\ Sf2' = Sf2 /\ Sf1' = Sf1 /\ Sf2_Ng' = Sf2_Ng
    BY <1>3 DEF SWait3, Quits, serverFlags
  <2>2. /\ {"wait3", to} \cap Inside(ServerSite1) = {}
        /\ t \in ServerSite3.arrivers /\ t # ServerSite3.special
        /\ "wait3" \in ServerSite3.wait /\ to \notin Inside(ServerSite3)
    BY <1>3, <2>1, LaterServerSites DEF Others
  <2>3. Again(spc, Sf2) = 0 /\ Again(spc', Sf2') = 0
    BY <1>a, <2>1, <2>2
  <2>4. Kept(ServerSite3, spc, spc', Again(spc', Sf2'))
    BY <2>1, <2>2, <2>3, ServerGoes, SeesZero, AreSites DEF ServerMeets
  <2> QED
    BY <1>0, <2>1, <2>2, <2>4 DEF ServerKept
<1>4. CASE SReset2(t) /\ SGoto(t, "reset3", "sciSend")
  <2>1. Sf1' = Sf1 /\ Sf2_Ng' = Sf2_Ng /\ t = Center
    BY <1>4 DEF SReset2, SGoto, Sides, SCenterOnly
  <2>2. /\ {"reset3", "sciSend"} \cap Inside(ServerSite1) = {}
        /\ t = ServerSite3.special /\ "reset3" \in ServerSite3.reset
        /\ "sciSend" \notin Inside(ServerSite3)
    BY <2>1, LaterServerSites
  <2>3. Kept(ServerSite3, spc, spc', Again(spc', Sf2'))
    BY <1>4, <2>2, ServerGoes, Resets, AreSites DEF ServerMeets
  <2> QED
    BY <1>0, <1>4, <2>1, <2>2, <2>3 DEF ServerKept
<1> QED
  BY <1>1, <1>2, <1>3, <1>4

\* Every step of a server thread.
LEMMA ServerKeeps ==
  ASSUME Sides, ServerMeets, NEW t \in Threads, Server(t)
  PROVE  ServerKept
<1>0. t \in Others \cup {Center} /\ t \in Threads \cup {Leader}
  BY DEF Others
<1>1. CASE SIncNg(t) \/ SWaitNg(t) \/ SResetNg(t)
  BY <1>1, ServerAtSiteNg
<1>2. CASE SWait2(t) \/ SFunc2(t)
  BY <1>2, ServerAtSite2
<1>3. CASE SInc1(t) \/ SWait1(t) \/ SFunc1(t) \/ SReset1(t)
  BY <1>3, ServerAtSite1
<1>4. CASE SWait3(t)
  BY <1>4, ServerAtSite3
<1>5. CASE SInc2(t)
  <2>1. SGoto(t, "inc2", "wait2") \/ SGoto(t, "inc3", "wait3")
    BY <1>5 DEF SInc2
  <2> QED
    BY <1>5, <2>1, ServerAtSite2, ServerAtSite3
<1>6. CASE SReset2(t)
  <2>1. SGoto(t, "reset2", "oprf1") \/ SGoto(t, "reset3", "sciSend")
    BY <1>6 DEF SReset2
  <2> QED
    BY <1>6, <2>1, ServerAtSite2, ServerAtSite3
<1>7. CASE SRecvKey(t)
  <2>1. SGoto(t, "recvKey", "incNg") /\ UNCHANGED serverFlags
    BY <1>7 DEF SRecvKey
  <2>2. Quiet(ServerSiteNg, t, "recvKey", "incNg") /\ Quiet(ServerSite2, t, "recvKey", "incNg")
    BY <1>0, ServerSites DEF Quiet
  <2>3. Quiet(ServerSite1, t, "recvKey", "incNg") /\ Quiet(ServerSite3, t, "recvKey", "incNg")
    BY <1>0, LaterServerSites DEF Quiet
  <2> QED
    BY <2>1, <2>2, <2>3, ServerPasses
<1>8. CASE SEncrypt(t)
  <2>1. SGoto(t, "encrypt", "inc2") /\ UNCHANGED serverFlags
    BY <1>8 DEF SEncrypt
  <2>2. Quiet(ServerSiteNg, t, "encrypt", "inc2") /\ Quiet(ServerSite2, t, "encrypt", "inc2")
    BY <1>0, ServerSites DEF Quiet
  <2>3. Quiet(ServerSite1, t, "encrypt", "inc2") /\ Quiet(ServerSite3, t, "encrypt", "inc2")
    BY <1>0, LaterServerSites DEF Quiet
  <2> QED
    BY <2>1, <2>2, <2>3, ServerPasses
<1>9. CASE SOprf1(t)
  <2>1. SGoto(t, "oprf1", "inc1") /\ UNCHANGED serverFlags
    BY <1>9 DEF SOprf1
  <2>2. Quiet(ServerSiteNg, t, "oprf1", "inc1") /\ Quiet(ServerSite2, t, "oprf1", "inc1")
    BY <1>0, ServerSites DEF Quiet
  <2>3. Quiet(ServerSite1, t, "oprf1", "inc1") /\ Quiet(ServerSite3, t, "oprf1", "inc1")
    BY <1>0, LaterServerSites DEF Quiet
  <2> QED
    BY <2>1, <2>2, <2>3, ServerPasses
<1>10. CASE SOprf2(t)
  <2>1. SGoto(t, "oprf2", "wait3") /\ UNCHANGED serverFlags /\ t = Center
    BY <1>10 DEF SOprf2, SGoto, Sides, SCenterOnly
  <2>2. Quiet(ServerSiteNg, t, "oprf2", "wait3") /\ Quiet(ServerSite2, t, "oprf2", "wait3")
    BY <1>0, ServerSites DEF Quiet
  <2>3. Quiet(ServerSite1, t, "oprf2", "wait3") /\ Quiet(ServerSite3, t, "oprf2", "wait3")
    BY <1>0, <2>1, Roles, LaterServerSites DEF Quiet
  <2> QED
    BY <2>1, <2>2, <2>3, ServerPasses
<1>11. CASE SSearch(t)
  <2>1. SGoto(t, "search", "sciSend") /\ UNCHANGED serverFlags
    BY <1>11 DEF SSearch
  <2>2. Quiet(ServerSiteNg, t, "search", "sciSend") /\ Quiet(ServerSite2, t, "search", "sciSend")
    BY <1>0, ServerSites DEF Quiet
  <2>3. Quiet(ServerSite1, t, "search", "sciSend") /\ Quiet(ServerSite3, t, "search", "sciSend")
    BY <1>0, LaterServerSites DEF Quiet
  <2> QED
    BY <2>1, <2>2, <2>3, ServerPasses
<1>12. CASE SSciSend(t)
  <2>1. SGoto(t, "sciSend", "sciRecv") /\ UNCHANGED serverFlags
    BY <1>12 DEF SSciSend
  <2>2. Quiet(ServerSiteNg, t, "sciSend", "sciRecv") /\ Quiet(ServerSite2, t, "sciSend", "sciRecv")
    BY <1>0, ServerSites DEF Quiet
  <2>3. Quiet(ServerSite1, t, "sciSend", "sciRecv") /\ Quiet(ServerSite3, t, "sciSend", "sciRecv")
    BY <1>0, LaterServerSites DEF Quiet
  <2> QED
    BY <2>1, <2>2, <2>3, ServerPasses
<1>13. CASE SSciRecv(t)
  <2>1. SGoto(t, "sciRecv", "done") /\ UNCHANGED serverFlags
    BY <1>13 DEF SSciRecv
  <2>2. Quiet(ServerSiteNg, t, "sciRecv", "done") /\ Quiet(ServerSite2, t, "sciRecv", "done")
    BY <1>0, ServerSites DEF Quiet
  <2>3. Quiet(ServerSite1, t, "sciRecv", "done") /\ Quiet(ServerSite3, t, "sciRecv", "done")
    BY <1>0, LaterServerSites DEF Quiet
  <2> QED
    BY <2>1, <2>2, <2>3, ServerPasses
<1> QED
  BY <1>1, <1>2, <1>3, <1>4, <1>5, <1>6, <1>7, <1>8, <1>9, <1>10, <1>11, <1>12, <1>13
     DEF Server
-----------------------------------------------------------------------------
(* The sites of the two processes are the rendezvous of Smpaq1.            *)

\* The places of the labels in program order.
LEMMA ClientPlaces ==
  ASSUME NEW l \in Range(COrder)
  PROVE  /\ Place(COrder, l) > Place(COrder, "inc1") <=> l \notin ClientSite1.before
         /\ Place(COrder, l) > Place(COrder, "func1") <=>
              l \notin ClientSite1.before \cup ClientSite1.wait \cup ClientSite1.func
         /\ Place(COrder, l) > Place(COrder, "reset1") <=> l \notin Inside(ClientSite1)
         /\ Place(COrder, l) > Place(COrder, "inc2") <=> l \notin ClientSite2.before
         /\ Place(COrder, l) > Place(COrder, "wait2") <=>
              l \notin ClientSite2.before \cup ClientSite2.wait \cup ClientSite2.func
         /\ Place(COrder, l) > Place(COrder, "reset2") <=> l \notin Inside(ClientSite2)
         /\ Place(COrder, l) > Place(COrder, "wait1") <=>
              l \notin {"sendKey", "oprf1", "inc1", "wait1"}
<1>1. /\ Place(COrder, "sendKey") = 1 /\ Place(COrder, "oprf1") = 2
      /\ Place(COrder, "inc1") = 3 /\ Place(COrder, "wait1") = 4
      /\ Place(COrder, "func1") = 5 /\ Place(COrder, "reset1") = 6
      /\ Place(COrder, "oprf2") = 7 /\ Place(COrder, "inc2") = 8
      /\ Place(COrder, "wait2") = 9 /\ Place(COrder, "reset2") = 10
      /\ Place(COrder, "send") = 11 /\ Place(COrder, "recv") = 12
      /\ Place(COrder, "sci") = 13 /\ Place(COrder, "done") = 14
  BY DEF Place, COrder
<1>2. l \in {"sendKey", "oprf1", "inc1", "wait1", "func1", "reset1", "oprf2", "inc2",
             "wait2", "reset2", "send", "recv", "sci", "done"}
  BY DEF Range, COrder
<1> QED
  BY <1>1, <1>2, ClientSites

LEMMA ServerPlaces ==
  ASSUME NEW l \in Range(SOrder)
  PROVE  /\ Place(SOrder, l) > Place(SOrder, "incNg") <=> l \notin ServerSiteNg.before
         /\ Place(SOrder, l) > Place(SOrder, "waitNg") <=>
              l \notin ServerSiteNg.before \cup ServerSiteNg.wait \cup ServerSiteNg.func
         /\ Place(SOrder, l) > Place(SOrder, "resetNg") <=> l \notin Inside(ServerSiteNg)
         /\ Place(SOrder, l) > Place(SOrder, "inc2") <=> l \notin ServerSite2.before
         /\ Place(SOrder, l) > Place(SOrder, "func2") <=>
              l \notin ServerSite2.before \cup ServerSite2.wait \cup ServerSite2.func
         /\ Place(SOrder, l) > Place(SOrder, "reset2") <=> l \notin Inside(ServerSite2)
         /\ Place(SOrder, l) > Place(SOrder, "inc1") <=> l \notin ServerSite1.before
         /\ Place(SOrder, l) > Place(SOrder, "func1") <=>
              l \notin ServerSite1.before \cup ServerSite1.wait \cup ServerSite1.func
         /\ Place(SOrder, l) > Place(SOrder, "reset1") <=> l \notin Inside(ServerSite1)
         /\ Place(SOrder, l) > Place(SOrder, "inc3") <=> l \notin ServerSite3.before
         /\ Place(SOrder, l) > Place(SOrder, "wait3") <=>
              l \notin ServerSite3.before \cup ServerSite3.wait \cup ServerSite3.func
         /\ Place(SOrder, l) > Place(SOrder, "reset3") <=> l \notin Inside(ServerSite3)
<1>1. /\ Place(SOrder, "recvKey") = 1 /\ Place(SOrder, "incNg") = 2
      /\ Place(SOrder, "waitNg") = 3 /\ Place(SOrder, "resetNg") = 4
      /\ Place(SOrder, "encrypt") = 5 /\ Place(SOrder, "inc2") = 6
      /\ Place(SOrder, "wait2") = 7 /\ Place(SOrder, "func2") = 8
      /\ Place(SOrder, "reset2") = 9 /\ Place(SOrder, "oprf1") = 10
      /\ Place(SOrder, "inc1") = 11 /\ Place(SOrder, "wait1") = 12
      /\ Place(SOrder, "func1") = 13 /\ Place(SOrder, "reset1") = 14
      /\ Place(SOrder, "oprf2") = 15 /\ Place(SOrder, "inc3") = 16
      /\ Place(SOrder, "wait3") = 17 /\ Place(SOrder, "reset3") = 18
      /\ Place(SOrder, "search") = 19 /\ Place(SOrder, "sciSend") = 20
      /\ Place(SOrder, "sciRecv") = 21 /\ Place(SOrder, "done") = 22
  BY DEF Place, SOrder
<1>2. l \in {"recvKey", "incNg", "waitNg", "resetNg", "encrypt", "inc2", "wait2", "func2",
             "reset2", "oprf1", "inc1", "wait1", "func1", "reset1", "oprf2", "inc3",
             "wait3", "reset3", "search", "sciSend", "sciRecv", "done"}
  BY DEF Range, SOrder
<1>3. /\ Place(SOrder, l) > 2 <=> l \notin ServerSiteNg.before
      /\ Place(SOrder, l) > 3 <=>
           l \notin ServerSiteNg.before \cup ServerSiteNg.wait \cup ServerSiteNg.func
      /\ Place(SOrder, l) > 4 <=> l \notin Inside(ServerSiteNg)
  BY <1>1, <1>2, ServerSites
<1>4. /\ Place(SOrder, l) > 6 <=> l \notin ServerSite2.before
      /\ Place(SOrder, l) > 8 <=>
           l \notin ServerSite2.before \cup ServerSite2.wait \cup ServerSite2.func
      /\ Place(SOrder, l) > 9 <=> l \notin Inside(ServerSite2)
  BY <1>1, <1>2, ServerSites
<1>5. /\ Place(SOrder, l) > 11 <=> l \notin ServerSite1.before
      /\ Place(SOrder, l) > 13 <=>
           l \notin ServerSite1.before \cup ServerSite1.wait \cup ServerSite1.func
      /\ Place(SOrder, l) > 14 <=> l \notin Inside(ServerSite1)
  BY <1>1, <1>2, LaterServerSites
<1>6. /\ Place(SOrder, l) > 16 <=> l \notin ServerSite3.before
      /\ Place(SOrder, l) > 17 <=>
           l \notin ServerSite3.before \cup ServerSite3.wait \cup ServerSite3.func
      /\ Place(SOrder, l) > 18 <=> l \notin Inside(ServerSite3)
  BY <1>1, <1>2, LaterServerSites
<1> QED
  BY <1>1, <1>3, <1>4, <1>5, <1>6

\* At each site, a step that keeps the site is a step of the rendezvous or none.
\* The client's first site.
LEMMA CSite1Step ==
  ASSUME Sides, Sides', Kept(ClientSite1, cpc, cpc', Cf1')
  PROVE  [CSite1!Next]_(CSite1!vars)
<1> DEFINE arrived == {t \in Others : CPast(t, "inc1")}
           ran     == CPast(Center, "func1")
           left    == {t \in Threads : CPast(t, "reset1")}
<1>0. cpc \in [Threads -> Range(COrder)] /\ cpc' \in [Threads -> Range(COrder)]
  BY DEF Sides
<1>1. /\ arrived = Arrived(ClientSite1, cpc) /\ arrived' = Arrived(ClientSite1, cpc')
      /\ left = HaveLeft(ClientSite1, cpc) /\ left' = HaveLeft(ClientSite1, cpc')
  BY <1>0, ClientPlaces, ClientSites DEF CPast, Arrived, HaveLeft, Others
<1>2. /\ (ran <=> HasRun(ClientSite1, cpc)) /\ (ran' <=> HasRun(ClientSite1, cpc'))
      /\ ran \in BOOLEAN /\ ran' \in BOOLEAN
  BY <1>0, Roles, ClientPlaces, ClientSites DEF CPast, HasRun
<1> HIDE DEF arrived, ran, left
<1>3. Acts(ClientSite1, arrived, arrived', ran, ran', left, left')
  BY <1>1, <1>2, KeptActs
<1> QED
  BY <1>3, ClientSites
     DEF Acts, CSite1!Next, CSite1!Run, CSite1!Arrive, CSite1!Leave, CSite1!vars,
         arrived, ran, left

\* The client's second site.
LEMMA CSite2Step ==
  ASSUME Sides, Sides', Kept(ClientSite2, cpc, cpc', Cf2')
  PROVE  [CSite2!Next]_(CSite2!vars)
<1> DEFINE arrived == {t \in Others : CPast(t, "inc2")}
           ran     == CPast(Center, "wait2")
           left    == {t \in Threads : CPast(t, "reset2")}
<1>0. cpc \in [Threads -> Range(COrder)] /\ cpc' \in [Threads -> Range(COrder)]
  BY DEF Sides
<1>1. /\ arrived = Arrived(ClientSite2, cpc) /\ arrived' = Arrived(ClientSite2, cpc')
      /\ left = HaveLeft(ClientSite2, cpc) /\ left' = HaveLeft(ClientSite2, cpc')
  BY <1>0, ClientPlaces, ClientSites DEF CPast, Arrived, HaveLeft, Others
<1>2. /\ (ran <=> HasRun(ClientSite2, cpc)) /\ (ran' <=> HasRun(ClientSite2, cpc'))
      /\ ran \in BOOLEAN /\ ran' \in BOOLEAN
  BY <1>0, Roles, ClientPlaces, ClientSites DEF CPast, HasRun
<1> HIDE DEF arrived, ran, left
<1>3. Acts(ClientSite2, arrived, arrived', ran, ran', left, left')
  BY <1>1, <1>2, KeptActs
<1> QED
  BY <1>3, ClientSites
     DEF Acts, CSite2!Next, CSite2!Run, CSite2!Arrive, CSite2!Leave, CSite2!vars,
         arrived, ran, left

\* The server's site on Sf2_Ng.
LEMMA SSiteNgStep ==
  ASSUME Sides, Sides', Kept(ServerSiteNg, spc, spc', Sf2_Ng')
  PROVE  [SSiteNg!Next]_(SSiteNg!vars)
<1> DEFINE arrived == {t \in Others : SPast(t, "incNg")}
           ran     == SPast(Center, "waitNg")
           left    == {t \in Threads : SPast(t, "resetNg")}
<1>0. spc \in [Threads -> Range(SOrder)] /\ spc' \in [Threads -> Range(SOrder)]
  BY DEF Sides
<1>1. /\ arrived = Arrived(ServerSiteNg, spc) /\ arrived' = Arrived(ServerSiteNg, spc')
      /\ left = HaveLeft(ServerSiteNg, spc) /\ left' = HaveLeft(ServerSiteNg, spc')
  BY <1>0, ServerPlaces, ServerSites DEF SPast, Arrived, HaveLeft, Others
<1>2. /\ (ran <=> HasRun(ServerSiteNg, spc)) /\ (ran' <=> HasRun(ServerSiteNg, spc'))
      /\ ran \in BOOLEAN /\ ran' \in BOOLEAN
  BY <1>0, Roles, ServerPlaces, ServerSites DEF SPast, HasRun
<1> HIDE DEF arrived, ran, left
<1>3. Acts(ServerSiteNg, arrived, arrived', ran, ran', left, left')
  BY <1>1, <1>2, KeptActs
<1> QED
  BY <1>3, ServerSites
     DEF Acts, SSiteNg!Next, SSiteNg!Run, SSiteNg!Arrive, SSiteNg!Leave, SSiteNg!vars,
         arrived, ran, left

\* The first of the server's two sites on Sf2.
LEMMA SSite2Step ==
  ASSUME Sides, Sides', Kept(ServerSite2, spc, spc', Sf2')
  PROVE  [SSite2!Next]_(SSite2!vars)
<1> DEFINE arrived == {t \in Threads : SPast(t, "inc2")}
           ran     == SPast(Leader, "func2")
           left    == {t \in Threads : SPast(t, "reset2")}
<1>0. spc \in [Threads -> Range(SOrder)] /\ spc' \in [Threads -> Range(SOrder)]
  BY DEF Sides
<1>1. /\ arrived = Arrived(ServerSite2, spc) /\ arrived' = Arrived(ServerSite2, spc')
      /\ left = HaveLeft(ServerSite2, spc) /\ left' = HaveLeft(ServerSite2, spc')
  BY <1>0, ServerPlaces, ServerSites DEF SPast, Arrived, HaveLeft, Others
<1>2. /\ (ran <=> HasRun(ServerSite2, spc)) /\ (ran' <=> HasRun(ServerSite2, spc'))
      /\ ran \in BOOLEAN /\ ran' \in BOOLEAN
  BY <1>0, Roles, ServerPlaces, ServerSites DEF SPast, HasRun
<1> HIDE DEF arrived, ran, left
<1>3. Acts(ServerSite2, arrived, arrived', ran, ran', left, left')
  BY <1>1, <1>2, KeptActs
<1> QED
  BY <1>3, ServerSites
     DEF Acts, SSite2!Next, SSite2!Run, SSite2!Arrive, SSite2!Leave, SSite2!vars,
         arrived, ran, left

\* The server's site on Sf1.
LEMMA SSite1Step ==
  ASSUME Sides, Sides', Kept(ServerSite1, spc, spc', Sf1')
  PROVE  [SSite1!Next]_(SSite1!vars)
<1> DEFINE arrived == {t \in Others : SPast(t, "inc1")}
           ran     == SPast(Center, "func1")
           left    == {t \in Threads : SPast(t, "reset1")}
<1>0. spc \in [Threads -> Range(SOrder)] /\ spc' \in [Threads -> Range(SOrder)]
  BY DEF Sides
<1>1. /\ arrived = Arrived(ServerSite1, spc) /\ arrived' = Arrived(ServerSite1, spc')
      /\ left = HaveLeft(ServerSite1, spc) /\ left' = HaveLeft(ServerSite1, spc')
  BY <1>0, ServerPlaces, LaterServerSites DEF SPast, Arrived, HaveLeft, Others
<1>2. /\ (ran <=> HasRun(ServerSite1, spc)) /\ (ran' <=> HasRun(ServerSite1, spc'))
      /\ ran \in BOOLEAN /\ ran' \in BOOLEAN
  BY <1>0, Roles, ServerPlaces, LaterServerSites DEF SPast, HasRun
<1> HIDE DEF arrived, ran, left
<1>3. Acts(ServerSite1, arrived, arrived', ran, ran', left, left')
  BY <1>1, <1>2, KeptActs
<1> QED
  BY <1>3, LaterServerSites
     DEF Acts, SSite1!Next, SSite1!Run, SSite1!Arrive, SSite1!Leave, SSite1!vars,
         arrived, ran, left

\* The second of the server's two sites on Sf2.
LEMMA SSite3Step ==
  ASSUME Sides, Sides', Kept(ServerSite3, spc, spc', Again(spc', Sf2'))
  PROVE  [SSite3!Next]_(SSite3!vars)
<1> DEFINE arrived == {t \in Others : SPast(t, "inc3")}
           ran     == SPast(Center, "wait3")
           left    == {t \in Threads : SPast(t, "reset3")}
<1>0. spc \in [Threads -> Range(SOrder)] /\ spc' \in [Threads -> Range(SOrder)]
  BY DEF Sides
<1>1. /\ arrived = Arrived(ServerSite3, spc) /\ arrived' = Arrived(ServerSite3, spc')
      /\ left = HaveLeft(ServerSite3, spc) /\ left' = HaveLeft(ServerSite3, spc')
  BY <1>0, ServerPlaces, LaterServerSites DEF SPast, Arrived, HaveLeft, Others
<1>2. /\ (ran <=> HasRun(ServerSite3, spc)) /\ (ran' <=> HasRun(ServerSite3, spc'))
      /\ ran \in BOOLEAN /\ ran' \in BOOLEAN
  BY <1>0, Roles, ServerPlaces, LaterServerSites DEF SPast, HasRun
<1> HIDE DEF arrived, ran, left
<1>3. Acts(ServerSite3, arrived, arrived', ran, ran', left, left')
  BY <1>1, <1>2, KeptActs
<1> QED
  BY <1>3, LaterServerSites
     DEF Acts, SSite3!Next, SSite3!Run, SSite3!Arrive, SSite3!Leave, SSite3!vars,
         arrived, ran, left

-----------------------------------------------------------------------------
(* The theorems.                                                           *)

\* At the start nobody has been counted anywhere.
LEMMA InitSites ==
  ASSUME Init
  PROVE  /\ ClientMeets /\ ServerMeets
         /\ CSite1!Init /\ CSite2!Init
         /\ SSiteNg!Init /\ SSite2!Init /\ SSite1!Init /\ SSite3!Init
<1>1. /\ spc = [t \in Threads |-> IF t = Leader THEN "recvKey"
                                  ELSE IF t = Center THEN "waitNg" ELSE "incNg"]
      /\ cpc = [t \in Threads |-> IF t = Leader THEN "sendKey"
                                  ELSE IF t = Center THEN "wait1" ELSE "oprf1"]
      /\ Cf1 = 0 /\ Cf2 = 0 /\ Sf1 = 0 /\ Sf2 = 0 /\ Sf2_Ng = 0
  BY DEF Init
<1>2. cpc \in [Threads -> Range(COrder)] /\ spc \in [Threads -> Range(SOrder)]
  BY <1>1, Labels
<1>3. /\ \A t \in Threads : cpc[t] \in {"sendKey", "oprf1", "wait1"}
      /\ \A t \in Threads : spc[t] \in {"recvKey", "incNg", "waitNg"}
      /\ \A t \in Others : cpc[t] \in {"sendKey", "oprf1"}
      /\ \A t \in Others : spc[t] \in {"recvKey", "incNg"}
  BY <1>1 DEF Others
<1>4. Again(spc, Sf2) = 0
  BY <1>1 DEF Again
<1>5. /\ Meets(ClientSite1, cpc, Cf1) /\ Arrived(ClientSite1, cpc) = {}
      /\ ~HasRun(ClientSite1, cpc) /\ HaveLeft(ClientSite1, cpc) = {}
  <2>1. /\ IsSite(ClientSite1) /\ Cf1 = 0
        /\ \A t \in ClientSite1.threads : cpc[t] \in ClientSite1.before \cup ClientSite1.wait
        /\ \A t \in ClientSite1.arrivers : cpc[t] \in ClientSite1.before
    BY <1>1, <1>3, <1>4, AreSites, ClientSites
  <2> QED
    BY <2>1, Starts
<1>6. /\ Meets(ClientSite2, cpc, Cf2) /\ Arrived(ClientSite2, cpc) = {}
      /\ ~HasRun(ClientSite2, cpc) /\ HaveLeft(ClientSite2, cpc) = {}
  <2>1. /\ IsSite(ClientSite2) /\ Cf2 = 0
        /\ \A t \in ClientSite2.threads : cpc[t] \in ClientSite2.before \cup ClientSite2.wait
        /\ \A t \in ClientSite2.arrivers : cpc[t] \in ClientSite2.before
    BY <1>1, <1>3, <1>4, AreSites, ClientSites
  <2> QED
    BY <2>1, Starts
<1>7. /\ Meets(ServerSiteNg, spc, Sf2_Ng) /\ Arrived(ServerSiteNg, spc) = {}
      /\ ~HasRun(ServerSiteNg, spc) /\ HaveLeft(ServerSiteNg, spc) = {}
  <2>1. /\ IsSite(ServerSiteNg) /\ Sf2_Ng = 0
        /\ \A t \in ServerSiteNg.threads : spc[t] \in ServerSiteNg.before \cup ServerSiteNg.wait
        /\ \A t \in ServerSiteNg.arrivers : spc[t] \in ServerSiteNg.before
    BY <1>1, <1>3, <1>4, AreSites, ServerSites
  <2> QED
    BY <2>1, Starts
<1>8. /\ Meets(ServerSite2, spc, Sf2) /\ Arrived(ServerSite2, spc) = {}
      /\ ~HasRun(ServerSite2, spc) /\ HaveLeft(ServerSite2, spc) = {}
  <2>1. /\ IsSite(ServerSite2) /\ Sf2 = 0
        /\ \A t \in ServerSite2.threads : spc[t] \in ServerSite2.before \cup ServerSite2.wait
        /\ \A t \in ServerSite2.arrivers : spc[t] \in ServerSite2.before
    BY <1>1, <1>3, <1>4, AreSites, ServerSites
  <2> QED
    BY <2>1, Starts
<1>9. /\ Meets(ServerSite1, spc, Sf1) /\ Arrived(ServerSite1, spc) = {}
      /\ ~HasRun(ServerSite1, spc) /\ HaveLeft(ServerSite1, spc) = {}
  <2>1. /\ IsSite(ServerSite1) /\ Sf1 = 0
        /\ \A t \in ServerSite1.threads : spc[t] \in ServerSite1.before \cup ServerSite1.wait
        /\ \A t \in ServerSite1.arrivers : spc[t] \in ServerSite1.before
    BY <1>1, <1>3, <1>4, AreSites, LaterServerSites
  <2> QED
    BY <2>1, Starts
<1>10. /\ Meets(ServerSite3, spc, Again(spc, Sf2)) /\ Arrived(ServerSite3, spc) = {}
      /\ ~HasRun(ServerSite3, spc) /\ HaveLeft(ServerSite3, spc) = {}
  <2>1. /\ IsSite(ServerSite3) /\ Again(spc, Sf2) = 0
        /\ \A t \in ServerSite3.threads : spc[t] \in ServerSite3.before \cup ServerSite3.wait
        /\ \A t \in ServerSite3.arrivers : spc[t] \in ServerSite3.before
    BY <1>1, <1>3, <1>4, AreSites, LaterServerSites
  <2> QED
    BY <2>1, Starts
<1>11. CSite1!Init
  BY <1>2, <1>5, Roles, ClientPlaces, ClientSites
     DEF CSite1!Init, CPast, Arrived, HasRun, HaveLeft
<1>12. CSite2!Init
  BY <1>2, <1>6, Roles, ClientPlaces, ClientSites
     DEF CSite2!Init, CPast, Arrived, HasRun, HaveLeft
<1>13. SSiteNg!Init
  BY <1>2, <1>7, Roles, ServerPlaces, ServerSites
     DEF SSiteNg!Init, SPast, Arrived, HasRun, HaveLeft
<1>14. SSite2!Init
  BY <1>2, <1>8, Roles, ServerPlaces, ServerSites
     DEF SSite2!Init, SPast, Arrived, HasRun, HaveLeft
<1>15. SSite1!Init
  BY <1>2, <1>9, Roles, ServerPlaces, LaterServerSites
     DEF SSite1!Init, SPast, Arrived, HasRun, HaveLeft
<1>16. SSite3!Init
  BY <1>2, <1>10, Roles, ServerPlaces, LaterServerSites
     DEF SSite3!Init, SPast, Arrived, HasRun, HaveLeft
<1> QED
  BY <1>5, <1>6, <1>7, <1>8, <1>9, <1>10, <1>11, <1>12, <1>13, <1>14, <1>15, <1>16
     DEF ClientMeets, ServerMeets

\* The invariant holds at the start.
LEMMA InitRun == Init => RunInvariant
<1> SUFFICES ASSUME Init
             PROVE  RunInvariant
  OBVIOUS
<1>1. /\ spc = [t \in Threads |-> IF t = Leader THEN "recvKey"
                                  ELSE IF t = Center THEN "waitNg" ELSE "incNg"]
      /\ cpc = [t \in Threads |-> IF t = Leader THEN "sendKey"
                                  ELSE IF t = Center THEN "wait1" ELSE "oprf1"]
      /\ up = [t \in Threads |-> <<>>] /\ down = [t \in Threads |-> <<>>]
  BY DEF Init
<1>2. Sides
  <2>1. cpc \in [Threads -> Range(COrder)] /\ spc \in [Threads -> Range(SOrder)]
    BY <1>1, Labels
  <2>2. ASSUME NEW t \in Threads
        PROVE  /\ cpc[t] = "sendKey" => t = Leader
               /\ cpc[t] \in {"sendKey", "wait1", "oprf1"}
               /\ cpc[t] = "oprf1" => t # Center
               /\ spc[t] = "recvKey" => t = Leader
               /\ spc[t] \in {"recvKey", "waitNg", "incNg"}
               /\ spc[t] \in {"recvKey", "incNg"} => t # Center
    BY <1>1, Roles
  <2> QED
    BY <2>1, <2>2 DEF Sides, CLeaderOnly, CCenterOnly, CNotCenter, SLeaderOnly,
                      SCenterOnly, SNotCenter
<1>3. PairsInStep
  <2>1. ASSUME NEW t \in Threads
        PROVE  Sockets(t)
    BY <1>1, Roles DEF Sockets, LeaderPair, OtherPair, Gone, Waits, Left
  <2> QED
    BY <1>1, <2>1 DEF PairsInStep
<1> QED
  BY <1>2, <1>3, InitSites DEF RunInvariant

\* The invariant is inductive, and every step keeps the sites.
LEMMA NextRun == RunInvariant /\ [Next]_vars => RunInvariant' /\ ClientKept /\ ServerKept
<1> SUFFICES ASSUME RunInvariant, [Next]_vars
             PROVE  RunInvariant' /\ ClientKept /\ ServerKept
  OBVIOUS
<1> USE DEF RunInvariant
<1>1. CASE UNCHANGED vars
  <2> USE <1>1 DEF vars, clientVars, clientFlags, serverVars, serverFlags, netVars
  <2>1. Sides'
    BY DEF Sides
  <2>2. PairsInStep'
    <3>1. ASSUME NEW t \in Threads
          PROVE  Sockets(t)'
      <4>1. Sockets(t)' = Sockets(t)
        BY DEF Sockets, LeaderPair, OtherPair, Asks, Expects, Holds,
               Gone, Silent, Answered, Waits, Left
      <4> QED
        BY <4>1 DEF PairsInStep
    <3> QED
      BY <3>1 DEF PairsInStep
  <2>3. ClientKept /\ ServerKept
    BY ClientRests, ServerRests
  <2> QED
    BY <2>1, <2>2, <2>3, KeptNext
<1>2. ASSUME NEW t \in Threads, Client(t)
      PROVE  RunInvariant' /\ ClientKept /\ ServerKept
  <2>1. Sides' /\ PairsInStep' /\ ClientKept
    BY <1>2, ClientPairs, ClientKeeps
  <2>2. UNCHANGED <<spc, Sf1, Sf2, Sf2_Ng>>
    BY <1>2 DEF Client, CSendKey, COprf1, CInc1, CWait1, CFunc1, CReset1, COprf2,
                CInc2, CWait2, CReset2, CSend, CRecv, CSci, serverVars, serverFlags
  <2>3. ServerKept
    BY <2>2, ServerRests
  <2> QED
    BY <2>1, <2>3, KeptNext
<1>3. ASSUME NEW t \in Threads, Server(t)
      PROVE  RunInvariant' /\ ClientKept /\ ServerKept
  <2>1. Sides' /\ PairsInStep' /\ ServerKept
    BY <1>3, ServerPairs, ServerKeeps
  <2>2. UNCHANGED <<cpc, Cf1, Cf2>>
    BY <1>3 DEF Server, SRecvKey, SIncNg, SWaitNg, SResetNg, SEncrypt, SInc2,
                SWait2, SFunc2, SReset2, SOprf1, SInc1, SWait1, SFunc1, SReset1,
                SOprf2, SWait3, SSearch, SSciSend, SSciRecv, clientVars, clientFlags
  <2>3. ClientKept
    BY <2>2, ClientRests
  <2> QED
    BY <2>1, <2>3, KeptNext
<1>4. CASE Exit
  BY <1>1, <1>4 DEF Exit
<1> QED
  BY <1>1, <1>2, <1>3, <1>4 DEF Next

\* And so it holds always.
LEMMA RunInvariance == Spec => []RunInvariant
BY InitRun, NextRun, PTL DEF Spec

\* Every message on the unframed sockets of run_smpaq is taken by the receive
\* that it was sent for, for any number of threads: the key, the identifiers,
\* the product and the statistics of either side.
THEOREM InStep == Spec => []SocketsInStep
<1>1. ASSUME RunInvariant, NEW t \in Threads
      PROVE  /\ down[t] # <<>> /\ cpc[t] = "recv" => Head(down[t]).kind = "cipher"
             /\ down[t] # <<>> /\ cpc[t] = "sci" => Head(down[t]).kind = "sci"
             /\ up[t] # <<>> /\ spc[t] = "recvKey" => Head(up[t]).kind = "key"
             /\ up[t] # <<>> /\ spc[t] = "search" => Head(up[t]).kind = "ids"
             /\ up[t] # <<>> /\ spc[t] = "sciRecv" => Head(up[t]).kind = "sci"
  <2>1. CASE t = Leader
    BY <1>1, <2>1, PairOf, Queues
       DEF RunInvariant, LeaderPair, Asks, Expects, Holds, Gone, Silent, Answered,
           Waits, Left, AskLabels
  <2>2. CASE t # Leader
    BY <1>1, <2>2, PairOf, Queues
       DEF RunInvariant, Sides, CLeaderOnly, SLeaderOnly, OtherPair, Gone, Waits, Left
  <2> QED
    BY <2>1, <2>2
<1>2. RunInvariant => SocketsInStep
  BY <1>1 DEF SocketsInStep
<1> QED
  BY <1>2, RunInvariance, PTL

\* A thread comes out of run_smpaq only after every thread of both processes
\* is past its first site: its socket holds it until its peer is at the end of
\* its own process's sites, and there all the threads of that process have met.
THEOREM BeginFirst == Spec => []EndsAfterAllBegan
<1>1. ASSUME RunInvariant, NEW t \in Threads, cpc[t] = "done" \/ spc[t] = "done",
             NEW u \in Threads
      PROVE  CPast(u, "wait1") /\ SPast(u, "waitNg")
  <2>1. cpc[t] = "done" /\ spc[t] \in {"sciRecv", "done"}
    BY <1>1, PairOf
       DEF RunInvariant, LeaderPair, OtherPair, Asks, Expects, Holds, Gone, Waits,
           Left, Silent, Answered, AskLabels
  <2>2. /\ cpc[u] \in Range(COrder) /\ spc[u] \in Range(SOrder)
        /\ (t = Center \/ t \in Others) /\ (u = Center \/ u \in Others)
    BY <1>1 DEF RunInvariant, Sides, Others
  <2>3. cpc[u] \notin ClientSite2.before
    <3>1. /\ Meets(ClientSite2, cpc, Cf2) /\ cpc[t] \notin Inside(ClientSite2)
          /\ t \in ClientSite2.arrivers \cup {ClientSite2.special}
      BY <1>1, <2>1, <2>2, ClientSites DEF RunInvariant, ClientMeets
    <3>2. /\ cpc[Center] \notin Inside(ClientSite2)
          /\ \A v \in Others : cpc[v] \notin ClientSite2.before
      BY <3>1, AllMet, ClientSites
    <3>3. cpc[Center] \notin ClientSite2.before
      BY <3>2 DEF Inside
    <3> QED
      BY <2>2, <3>2, <3>3
  <2>4. spc[u] \notin ServerSite2.before
    <3>1. /\ Meets(ServerSite2, spc, Sf2) /\ spc[t] \notin Inside(ServerSite2)
          /\ t \in ServerSite2.arrivers \cup {ServerSite2.special}
      BY <1>1, <2>1, ServerSites DEF RunInvariant, ServerMeets
    <3> QED
      BY <1>1, <3>1, AllMet, ServerSites
  <2>5. cpc[u] \notin {"sendKey", "oprf1", "inc1", "wait1"}
    BY <2>3, ClientSites
  <2>6. spc[u] \notin ServerSiteNg.before \cup ServerSiteNg.wait \cup ServerSiteNg.func
    BY <2>4, ServerSites
  <2> QED
    BY <2>2, <2>5, <2>6, ClientPlaces, ServerPlaces DEF CPast, SPast
<1>2. RunInvariant => EndsAfterAllBegan
  BY <1>1 DEF EndsAfterAllBegan
<1> QED
  BY <1>2, RunInvariance, PTL

\* Each of the six call sites of waitFor in run_smpaq implements Rendezvous, as
\* a single site does (WaitForProofs): also the two that share Sf2, and whatever
\* the threads of the process do between the sites.
THEOREM Sites == Spec => SitesAreRendezvous
<1>1. RunInvariant /\ RunInvariant' /\ ClientKept /\ ServerKept =>
        /\ [CSite1!Next]_(CSite1!vars) /\ [CSite2!Next]_(CSite2!vars)
        /\ [SSiteNg!Next]_(SSiteNg!vars) /\ [SSite2!Next]_(SSite2!vars)
        /\ [SSite1!Next]_(SSite1!vars) /\ [SSite3!Next]_(SSite3!vars)
  BY CSite1Step, CSite2Step, SSiteNgStep, SSite2Step, SSite1Step, SSite3Step
     DEF RunInvariant, ClientKept, ServerKept
<1>2. RunInvariant /\ [Next]_vars =>
        /\ [CSite1!Next]_(CSite1!vars) /\ [CSite2!Next]_(CSite2!vars)
        /\ [SSiteNg!Next]_(SSiteNg!vars) /\ [SSite2!Next]_(SSite2!vars)
        /\ [SSite1!Next]_(SSite1!vars) /\ [SSite3!Next]_(SSite3!vars)
  BY <1>1, NextRun
<1>3. Init => /\ CSite1!Init /\ CSite2!Init
              /\ SSiteNg!Init /\ SSite2!Init /\ SSite1!Init /\ SSite3!Init
  BY InitSites
<1> QED
  BY <1>2, <1>3, RunInvariance, PTL
     DEF Spec, SitesAreRendezvous, CSite1!Spec, CSite2!Spec, SSiteNg!Spec,
         SSite2!Spec, SSite1!Spec, SSite3!Spec

-----------------------------------------------------------------------------
(* What the tables, the files, the messages and the print-outs hold.       *)
(*                                                                         *)
(* DataInvariant gives the contents of every table, file and message as a  *)
(* function of where the threads are: a row is missing exactly while its   *)
(* thread is before the step that fills it in, and the center rewrites all *)
(* of them at once.  That nobody reads a missing row is what RunInvariant  *)
(* says of the sites.  From it follow the completeness of what is read,    *)
(* the value that is printed, the refinement of the aggregate query and    *)
(* the types.                                                              *)


\* The rows after the first PRF, of the client and of the servers: the center
\* puts its own in as they are.
asked == [t \in Threads |-> IF t = Center THEN <<QueryItem>>
                            ELSE Oprf(t, 1, <<QueryItem>>)]
held  == [t \in Threads |-> [k \in 1..SNELES |-> IF t = Center THEN <<k>>
                                                 ELSE Oprf(t, 1, <<k>>)]]

\* Labels at which a thread's row is still missing, and the center's labels up
\* to and including the second PRF.
CMissing(t) == IF t = Center THEN {"wait1", "func1"} ELSE {"sendKey", "oprf1"}
CFirst      == {"wait1", "func1", "reset1", "oprf2"}
SMissing(t) == IF t = Center
               THEN {"waitNg", "resetNg", "encrypt", "inc2", "wait2", "wait1", "func1"}
               ELSE {"recvKey", "incNg", "waitNg", "encrypt", "inc2", "wait2",
                     "func2", "reset2", "oprf1"}
SFirst      == {"waitNg", "resetNg", "encrypt", "inc2", "wait2", "wait1", "func1",
                "reset1", "oprf2"}

\* The identifiers, and the rows they are looked up in.
Encoded(t)    == Oprf(Center, t + 1, asked[t])
EncodedRow(t) == LookedUp(Center, held, t)
Queries       == Identifiers(Center, asked)

\* What a thread's slot holds, by where the threads are.
CRow(pc, t) == IF pc[Center] \notin CFirst THEN <<Encoded(t)>>
               ELSE IF pc[t] \in CMissing(t) THEN <<>> ELSE <<asked[t]>>
SRow(pc, t) == IF pc[Center] \notin SFirst /\ t < SNELES THEN EncodedRow(t)
               ELSE IF pc[t] \in SMissing(t) THEN <<>> ELSE held[t]

ClientRows == clientID = [t \in Threads |-> CRow(cpc, t)]
ServerRows == serverID = [t \in Threads |-> SRow(spc, t)]

\* Whatever is in the files was encrypted under the one key.
Unencrypted == {"recvKey", "incNg", "waitNg", "resetNg", "encrypt"}
Uncopied    == {"recvKey", "incNg", "waitNg", "encrypt", "inc2", "wait2", "func2"}
Cipher1(pc, t) == IF pc[t] \in Unencrypted THEN <<>> ELSE encrypt(Key, t)
Copied(pc, t)  == IF pc[Leader] \in Uncopied THEN <<>> ELSE encrypt(Key, t)
Files   == csv = [t \in Threads |-> csv[t]] /\ \A t \in Threads : csv[t] \in {<<>>, encrypt(Key, t)}
Ciphers == /\ serverData = [t \in Threads |-> Cipher1(spc, t)]
           /\ dataOfPsm2 = [t \in Threads |-> Copied(spc, t)]

\* The product, which adds up what the servers in Found hold.
Total   == SumFunctionOnSet([t \in Threads |-> Payload[t][QueryItem]], Found)
Answer1 == [keys |-> {Key}, plain |-> Total]

\* The leaders' socket, and the report.
Replied  == {"sciSend", "sciRecv", "done"}
Exchange ==
  cpc[Leader] = "recv" =>
    IF spc[Leader] \in Replied THEN Head(down[Leader]).body = Answer1
    ELSE Head(up[Leader]).body = Queries
Reported ==
  reports = IF cpc[Leader] \in {"sci", "done"} THEN <<Total % PaillierN>> ELSE <<>>

DataInvariant == /\ ClientRows /\ ServerRows /\ Files /\ Ciphers
                 /\ Exchange /\ Reported
-----------------------------------------------------------------------------
(* What the sites give: who is complete when.                              *)

\* Past the center's wait no client row is missing; when the leader sends, the
\* second PRF is done.
LEMMA ClientComplete ==
  ASSUME RunInvariant
  PROVE  /\ cpc[Center] \in {"func1", "reset1", "oprf2"} =>
              \A u \in Others : cpc[u] \notin {"sendKey", "oprf1", "inc1"}
         /\ cpc[Leader] \in {"send", "recv", "sci", "done"} => cpc[Center] \notin CFirst
<1>1. Meets(ClientSite1, cpc, Cf1) /\ Meets(ClientSite2, cpc, Cf2)
  BY DEF RunInvariant, ClientMeets
<1>2. ASSUME cpc[Center] \in {"func1", "reset1", "oprf2"}
      PROVE  \A u \in Others : cpc[u] \notin {"sendKey", "oprf1", "inc1"}
  BY <1>1, <1>2, ClientSites DEF Meets, Arrived
<1>3. ASSUME cpc[Leader] \in {"send", "recv", "sci", "done"}
      PROVE  cpc[Center] \notin CFirst
  BY <1>1, <1>3, ClientSites, Roles, AllMet DEF CFirst
<1> QED
  BY <1>2, <1>3

\* Past site 2 all ciphers are there, past site 1 all rows, and the leader
\* searches after the second PRF.
LEMMA ServerComplete ==
  ASSUME RunInvariant
  PROVE  /\ spc[Leader] \notin {"recvKey", "incNg", "waitNg", "encrypt", "inc2", "wait2"} =>
              \A u \in Threads : spc[u] \notin Unencrypted
         /\ spc[Center] \in {"func1", "reset1", "oprf2"} =>
              \A u \in Others : spc[u] \notin SMissing(u)
         /\ spc[Leader] \in {"search", "sciSend", "sciRecv", "done"} =>
              spc[Center] \notin SFirst
<1>1. /\ Meets(ServerSite2, spc, Sf2) /\ Meets(ServerSite1, spc, Sf1)
      /\ Meets(ServerSite3, spc, Again(spc, Sf2))
  BY DEF RunInvariant, ServerMeets
<1>2. ASSUME spc[Leader] \notin {"recvKey", "incNg", "waitNg", "encrypt", "inc2", "wait2"}
      PROVE  \A u \in Threads : spc[u] \notin Unencrypted
  <2>1. spc[Leader] # "resetNg"
    BY Roles DEF RunInvariant, Sides, SCenterOnly
  <2> QED
    BY <1>1, <1>2, <2>1, ServerSites DEF Meets, Arrived, Unencrypted
<1>3. ASSUME spc[Center] \in {"func1", "reset1", "oprf2"}
      PROVE  \A u \in Others : spc[u] \notin SMissing(u)
  <2>1. \A u \in Others : u # Center
    BY DEF Others
  <2> QED
    BY <1>1, <1>3, <2>1, LaterServerSites DEF Meets, Arrived, SMissing
<1>4. ASSUME spc[Leader] \in {"search", "sciSend", "sciRecv", "done"}
      PROVE  spc[Center] \notin SFirst
  BY <1>1, <1>4, LaterServerSites, Roles, AllMet DEF SFirst
<1> QED
  BY <1>2, <1>3, <1>4
-----------------------------------------------------------------------------
(* Steps that leave the data alone.                                        *)

\* A step between labels that say the same of the client's rows.
LEMMA SameRows ==
  ASSUME Sides, ClientRows, clientID' = clientID, NEW t \in Threads,
         NEW from, NEW to, CGoto(t, from, to),
         from \in CMissing(t) <=> to \in CMissing(t),
         t = Center => (from \in CFirst <=> to \in CFirst)
  PROVE  ClientRows'
<1>1. cpc \in [Threads -> Range(COrder)] /\ cpc[t] = from /\ cpc' = [cpc EXCEPT ![t] = to]
  BY DEF Sides, CGoto
<1>2. ASSUME NEW u \in Threads
      PROVE  CRow(cpc', u) = CRow(cpc, u)
  BY <1>1, Roles DEF CRow
<1> QED
  BY <1>2 DEF ClientRows

\* A step between labels that say the same of the servers' rows.
LEMMA SameServerRows ==
  ASSUME Sides, ServerRows, serverID' = serverID, NEW t \in Threads,
         NEW from, NEW to, SGoto(t, from, to),
         from \in SMissing(t) <=> to \in SMissing(t),
         t = Center => (from \in SFirst <=> to \in SFirst)
  PROVE  ServerRows'
<1>1. spc \in [Threads -> Range(SOrder)] /\ spc[t] = from /\ spc' = [spc EXCEPT ![t] = to]
  BY DEF Sides, SGoto
<1>2. ASSUME NEW u \in Threads
      PROVE  SRow(spc', u) = SRow(spc, u)
  BY <1>1, Roles DEF SRow
<1> QED
  BY <1>2 DEF ServerRows

\* A step between labels that say the same of the ciphers.
LEMMA SameCiphers ==
  ASSUME Sides, Ciphers, serverData' = serverData, dataOfPsm2' = dataOfPsm2,
         NEW t \in Threads, NEW from, NEW to, SGoto(t, from, to),
         from \in Unencrypted <=> to \in Unencrypted,
         t = Leader => (from \in Uncopied <=> to \in Uncopied)
  PROVE  Ciphers'
<1>1. spc \in [Threads -> Range(SOrder)] /\ spc[t] = from /\ spc' = [spc EXCEPT ![t] = to]
  BY DEF Sides, SGoto
<1>2. ASSUME NEW u \in Threads
      PROVE  Cipher1(spc', u) = Cipher1(spc, u) /\ Copied(spc', u) = Copied(spc, u)
  BY <1>1, Roles DEF Cipher1, Copied
<1> QED
  BY <1>2 DEF Ciphers

\* A step that leaves the leaders' socket as it is.
LEMMA SameExchange ==
  ASSUME Exchange,
         cpc'[Leader] = "recv" =>
           /\ cpc[Leader] = "recv"
           /\ spc[Leader] \in Replied <=> spc'[Leader] \in Replied
           /\ up'[Leader] = up[Leader] /\ down'[Leader] = down[Leader]
  PROVE  Exchange'
BY DEF Exchange

\* A client step leaves the server's data alone, and the other way round.
LEMMA ServerSideRests ==
  ASSUME ServerRows, Files, Ciphers, UNCHANGED serverVars
  PROVE  ServerRows' /\ Files' /\ Ciphers'
BY DEF ServerRows, Files, Ciphers, SRow, Cipher1, Copied, serverVars, serverTables

\* A server step leaves the client's data alone.
LEMMA ClientSideRests ==
  ASSUME ClientRows, Reported, UNCHANGED clientVars
  PROVE  ClientRows' /\ Reported'
BY DEF ClientRows, Reported, CRow, clientVars
-----------------------------------------------------------------------------
(* The client's steps.                                                     *)

\* A client step that touches no table and no socket of the leaders.
LEMMA QuietRows ==
  ASSUME Sides, DataInvariant, NEW t \in Threads, NEW from, NEW to, CGoto(t, from, to),
         UNCHANGED <<clientID, reports, up, down, spc>>,
         from \in CMissing(t) <=> to \in CMissing(t),
         t = Center => (from \in CFirst <=> to \in CFirst),
         \/ {from, to} \cap {"recv", "sci", "done"} = {}
         \/ t # Leader /\ {from, to} \cap {"recv", "done"} = {}
  PROVE  ClientRows' /\ Reported' /\ Exchange'
<1>1. cpc \in [Threads -> Range(COrder)] /\ cpc[t] = from /\ cpc' = [cpc EXCEPT ![t] = to]
  BY DEF Sides, CGoto
<1>2. ClientRows'
  BY SameRows DEF DataInvariant
<1>3. /\ cpc'[Leader] = "recv" <=> cpc[Leader] = "recv"
      /\ cpc'[Leader] \in {"sci", "done"} <=> cpc[Leader] \in {"sci", "done"}
  BY <1>1, Roles
<1>4. Reported'
  BY <1>3 DEF DataInvariant, Reported
<1>5. Exchange'
  BY <1>3, SameExchange DEF DataInvariant
<1> QED
  BY <1>2, <1>4, <1>5

\* While a row is still missing, the client's center is held at its wait.
LEMMA CenterWaits ==
  ASSUME RunInvariant, NEW t \in Others, cpc[t] \in {"sendKey", "oprf1", "inc1"}
  PROVE  cpc[Center] = "wait1"
<1>1. Meets(ClientSite1, cpc, Cf1) /\ cpc \in [Threads -> Range(COrder)]
  BY DEF RunInvariant, ClientMeets, Sides
<1>2. cpc[Center] \in {"sendKey", "oprf1", "inc1", "wait1"}
  BY <1>1, ClientSites DEF Meets, Arrived
<1>3. cpc[Center] \notin {"sendKey", "oprf1", "inc1"}
  BY Roles DEF RunInvariant, Sides, CLeaderOnly, CNotCenter
<1> QED
  BY <1>2, <1>3

\* A step that fills in the thread's own row.
LEMMA FilledRow ==
  ASSUME Sides, ClientRows, NEW t \in Threads, NEW from, NEW to, CGoto(t, from, to),
         clientID' = [clientID EXCEPT ![t] = CRow(cpc', t)],
         t = Center => {from, to} \subseteq CFirst
  PROVE  ClientRows'
<1>1. cpc \in [Threads -> Range(COrder)] /\ cpc[t] = from /\ cpc' = [cpc EXCEPT ![t] = to]
  BY DEF Sides, CGoto
<1>2. ASSUME NEW u \in Threads, u # t
      PROVE  CRow(cpc', u) = CRow(cpc, u)
  BY <1>1, <1>2, Roles DEF CRow
<1>3. clientID' = [u \in Threads |-> CRow(cpc', u)]
  BY <1>2 DEF ClientRows
<1> QED
  BY <1>3 DEF ClientRows

\* The first PRF gives a thread other than the center its row.
LEMMA COprf1Data ==
  ASSUME RunInvariant, DataInvariant, NEW t \in Threads, COprf1(t)
  PROVE  ClientRows' /\ Reported' /\ Exchange'
<1>1. /\ cpc \in [Threads -> Range(COrder)] /\ cpc[t] = "oprf1" /\ CGoto(t, "oprf1", "inc1")
      /\ cpc' = [cpc EXCEPT ![t] = "inc1"] /\ t # Center
      /\ UNCHANGED <<reports, up, down, spc>> /\ Sides
  BY DEF RunInvariant, Sides, COprf1, CGoto, CNotCenter, serverVars
<1>2. clientID' = [clientID EXCEPT ![t] = <<asked[t]>>]
  BY <1>1, FirstRows DEF COprf1, asked
<1>3. cpc[Center] = "wait1" /\ cpc'[Center] = "wait1"
  BY <1>1, CenterWaits, Roles DEF Others
<1>4. CRow(cpc', t) = <<asked[t]>>
  BY <1>1, <1>3 DEF CRow, CFirst, CMissing
<1>5. ClientRows'
  BY <1>1, <1>2, <1>4, FilledRow DEF DataInvariant
<1>6. Reported'
  BY <1>1, Roles DEF DataInvariant, Reported
<1>7. Exchange'
  BY <1>1, SameExchange, Roles DEF DataInvariant
<1> QED
  BY <1>5, <1>6, <1>7

\* The center puts its own item in as it is.
LEMMA CFunc1Data ==
  ASSUME RunInvariant, DataInvariant, NEW t \in Threads, CFunc1(t)
  PROVE  ClientRows' /\ Reported' /\ Exchange'
<1>1. /\ cpc \in [Threads -> Range(COrder)] /\ cpc[t] = "func1" /\ CGoto(t, "func1", "reset1")
      /\ cpc' = [cpc EXCEPT ![t] = "reset1"] /\ t = Center
      /\ UNCHANGED <<reports, up, down, spc>> /\ Sides
  BY DEF RunInvariant, Sides, CFunc1, CGoto, CCenterOnly, serverVars, netVars
<1>2. clientID' = [clientID EXCEPT ![t] = <<asked[t]>>]
  BY <1>1, Roles DEF CFunc1, asked, queryRow
<1>4. CRow(cpc', t) = <<asked[t]>>
  BY <1>1 DEF CRow, CFirst, CMissing
<1>5. ClientRows'
  BY <1>1, <1>2, <1>4, FilledRow DEF DataInvariant, CFirst
<1>6. Reported'
  BY <1>1, Roles DEF DataInvariant, Reported
<1>7. Exchange'
  BY <1>1, SameExchange, Roles DEF DataInvariant
<1> QED
  BY <1>5, <1>6, <1>7

\* At the second PRF every row is there, so row t is read as input t + 1.
LEMMA COprf2Data ==
  ASSUME RunInvariant, DataInvariant, NEW t \in Threads, COprf2(t)
  PROVE  ClientRows' /\ Reported' /\ Exchange'
<1>1. /\ cpc \in [Threads -> Range(COrder)] /\ cpc[t] = "oprf2"
      /\ cpc' = [cpc EXCEPT ![t] = "wait2"] /\ t = Center
      /\ UNCHANGED <<reports, up, down, spc>>
  BY DEF RunInvariant, Sides, COprf2, CGoto, CCenterOnly, serverVars
<1>2. ASSUME NEW u \in Threads
      PROVE  CRow(cpc, u) = <<asked[u]>>
  BY <1>1, ClientComplete, Roles DEF CRow, CFirst, CMissing, Others
<1>3. clientID = [u \in Threads |-> <<asked[u]>>]
  BY <1>2 DEF DataInvariant, ClientRows
<1>4. /\ clientID' = [u \in Threads |-> clientID'[u]]
      /\ \A u \in Threads : clientID'[u] = <<Encoded(u)>>
  <2>1. clientID' = AddRows(clientID, AsRows(ot_receiver(Center, flatten(clientID))))
    BY <1>1 DEF COprf2
  <2>2. \A u \in Threads : clientID[u] = <<clientID[u][1]>> /\ clientID[u][1] = asked[u]
    BY <1>3
  <2>3. \A u \in Threads : clientID'[u] = <<Oprf(Center, u + 1, asked[u])>>
    BY <1>3, <2>1, <2>2, Received
  <2> QED
    BY <2>1, <2>3 DEF Encoded, AddRows
<1>5. ASSUME NEW u \in Threads
      PROVE  CRow(cpc', u) = <<Encoded(u)>>
  BY <1>1, Roles DEF CRow, CFirst
<1>6. ClientRows'
  BY <1>4, <1>5 DEF ClientRows
<1>7. Reported'
  BY <1>1, Roles DEF DataInvariant, Reported
<1>8. Exchange'
  BY <1>1, SameExchange, Roles DEF DataInvariant
<1> QED
  BY <1>6, <1>7, <1>8

\* Sending the key touches no table, and the leaders are not yet exchanging.
LEMMA CSendKeyData ==
  ASSUME RunInvariant, DataInvariant, NEW t \in Threads, CSendKey(t)
  PROVE  ClientRows' /\ Reported' /\ Exchange'
<1>1. /\ cpc \in [Threads -> Range(COrder)] /\ cpc[t] = "sendKey"
      /\ CGoto(t, "sendKey", "oprf1")
      /\ cpc' = [cpc EXCEPT ![t] = "oprf1"] /\ t = Leader
      /\ UNCHANGED <<reports, clientID, down, spc>> /\ Sides
  BY DEF RunInvariant, Sides, CSendKey, CGoto, CLeaderOnly, serverVars
<1>2. ClientRows'
  BY <1>1, SameRows, Roles DEF DataInvariant, CMissing
<1>3. Reported'
  BY <1>1, Roles DEF DataInvariant, Reported
<1>4. Exchange'
  BY <1>1, SameExchange, Roles DEF DataInvariant
<1> QED
  BY <1>2, <1>3, <1>4

\* The leader sends the entries of all rows as one list.
LEMMA CSendData ==
  ASSUME RunInvariant, DataInvariant, NEW t \in Threads, CSend(t)
  PROVE  ClientRows' /\ Reported' /\ Exchange'
<1>1. /\ cpc \in [Threads -> Range(COrder)] /\ cpc[t] = "send" /\ CGoto(t, "send", "recv")
      /\ cpc' = [cpc EXCEPT ![t] = "recv"] /\ t = Leader
      /\ UNCHANGED <<reports, clientID, down, spc>> /\ Sides
  BY DEF RunInvariant, Sides, CSend, CGoto, CLeaderOnly, serverVars
<1>2. ClientRows'
  BY <1>1, SameRows, Roles DEF DataInvariant, CMissing
<1>3. Reported'
  BY <1>1, Roles DEF DataInvariant, Reported
<1>4. cpc[Center] \notin CFirst
  BY <1>1, ClientComplete
<1>5. clientID = [u \in Threads |-> <<Encoded(u)>>]
  BY <1>4 DEF DataInvariant, ClientRows, CRow
<1>6. flatten(clientID) = Queries
  <2> DEFINE b == [u \in Threads |-> Encoded(u)]
             S == {Encoded(u) : u \in Threads}
  <2>1. b \in [Threads -> S]
    OBVIOUS
  <2>2. clientID = [u \in Threads |-> <<b[u]>>]
    BY <1>5
  <2>3. flatten(clientID) = [k \in 1..N |-> b[k-1]]
    <3> HIDE DEF b, S
    <3> QED
      BY <2>1, <2>2, FlattenTable
  <2>4. \A k \in 1..N : k-1 \in Threads /\ b[k-1] = Oprf(Center, k, asked[k-1])
    BY ProtocolAssumption DEF Threads, Encoded
  <2> QED
    BY <2>3, <2>4 DEF Queries, Identifiers
<1>7. LeaderPair(Leader) /\ up' = [up EXCEPT ![Leader] = Append(@, ids(flatten(clientID)))]
      /\ Leader \in DOMAIN up
  BY <1>1, PairOf, Roles DEF CSend, RunInvariant
<1>8. up[Leader] = <<>> /\ spc[Leader] \notin Replied
  BY <1>1, <1>7 DEF LeaderPair, Asks, Expects, Holds, Gone, Silent, Replied
<1>9. Head(up'[Leader]).body = Queries /\ spc' = spc
  BY <1>1, <1>6, <1>7, <1>8 DEF ids
<1>10. Exchange'
  BY <1>8, <1>9 DEF Exchange
<1> QED
  BY <1>2, <1>3, <1>10

\* The answer was encrypted under the leader's key, so it decrypts to the total.
LEMMA CRecvData ==
  ASSUME RunInvariant, DataInvariant, NEW t \in Threads, CRecv(t)
  PROVE  /\ ClientRows' /\ Reported' /\ Exchange'
         /\ reports = <<>> /\ reports' = <<Total % PaillierN>>
<1>1. /\ cpc \in [Threads -> Range(COrder)] /\ cpc[t] = "recv" /\ CGoto(t, "recv", "sci")
      /\ cpc' = [cpc EXCEPT ![t] = "sci"] /\ t = Leader
      /\ UNCHANGED <<clientID, up, spc>> /\ Sides
  BY DEF RunInvariant, Sides, CRecv, CGoto, CLeaderOnly, serverVars
<1>2. ClientRows'
  BY <1>1, SameRows, Roles DEF DataInvariant, CMissing
<1>3. LeaderPair(Leader) /\ down[Leader] # <<>>
  BY <1>1, PairOf, Roles DEF CRecv, RunInvariant
<1>4. spc[Leader] \in Replied
  BY <1>1, <1>3 DEF LeaderPair, Asks, AskLabels, Expects, Holds, Gone, Silent, Answered,
                    Waits, Left, Replied
<1>5. Head(down[Leader]).body = Answer1
  BY <1>1, <1>4 DEF DataInvariant, Exchange
<1>6. Decrypted(Answer1) = {Total % PaillierN}
  BY DEF Decrypted, Answer1
<1>7. reports = <<>>
  BY <1>1 DEF DataInvariant, Reported
<1>8. reports' = Append(reports, Total % PaillierN)
  BY <1>1, <1>5, <1>6 DEF CRecv
<1>9. reports' = <<Total % PaillierN>>
  BY <1>7, <1>8
<1>10. Reported' /\ Exchange'
  BY <1>1, <1>9, Roles DEF Reported, Exchange
<1> QED
  BY <1>2, <1>7, <1>9, <1>10

\* The last call of the client comes after the report.
LEMMA CSciData ==
  ASSUME RunInvariant, DataInvariant, NEW t \in Threads, CSci(t)
  PROVE  ClientRows' /\ Reported' /\ Exchange'
<1>1. /\ cpc \in [Threads -> Range(COrder)] /\ cpc[t] = "sci" /\ CGoto(t, "sci", "done")
      /\ cpc' = [cpc EXCEPT ![t] = "done"]
      /\ UNCHANGED <<reports, clientID, spc>> /\ Sides
  BY DEF RunInvariant, Sides, CSci, CGoto, serverVars
<1>2. ClientRows'
  BY <1>1, SameRows, Roles DEF DataInvariant, CMissing, CFirst
<1>3. Reported'
  BY <1>1, Roles DEF DataInvariant, Reported
<1>4. cpc'[Leader] = "recv" => cpc[Leader] = "recv" /\ t # Leader
  BY <1>1, Roles
<1>5. t # Leader => up'[Leader] = up[Leader] /\ down'[Leader] = down[Leader]
  BY PairOf, Roles DEF CSci, RunInvariant, PairsInStep
<1>6. Exchange'
  BY <1>1, <1>4, <1>5, SameExchange DEF DataInvariant
<1> QED
  BY <1>2, <1>3, <1>6

\* Increments, polls and resets leave the tables and the sockets alone.
LEMMA CQuietData ==
  ASSUME RunInvariant, DataInvariant, NEW t \in Threads,
         CInc1(t) \/ CInc2(t) \/ CWait1(t) \/ CWait2(t) \/ CReset1(t) \/ CReset2(t)
  PROVE  ClientRows' /\ Reported' /\ Exchange'
<1>1. UNCHANGED <<clientID, reports, up, down, spc>> /\ Sides
  BY DEF RunInvariant, CInc1, CInc2, CWait1, CWait2, CReset1, CReset2, serverVars, netVars
<1>2. CASE CInc1(t)
  <2>1. CGoto(t, "inc1", "wait1") /\ t # Center
    BY <1>1, <1>2 DEF CInc1, CGoto, Sides, CNotCenter
  <2> QED
    BY <1>1, <2>1, QuietRows DEF CMissing, CFirst
<1>3. CASE CInc2(t)
  <2>1. CGoto(t, "inc2", "wait2") /\ t # Center
    BY <1>1, <1>3 DEF CInc2, CGoto, Sides, CNotCenter
  <2> QED
    BY <1>1, <2>1, QuietRows DEF CMissing, CFirst
<1>4. CASE CWait1(t)
  <2>1. CGoto(t, "wait1", IF t = Center THEN "func1" ELSE "inc2")
    BY <1>4 DEF CWait1
  <2>2. CASE t = Center
    BY <1>1, <2>1, <2>2, QuietRows DEF CMissing, CFirst
  <2>3. CASE t # Center
    BY <1>1, <2>1, <2>3, QuietRows DEF CMissing, CFirst
  <2> QED
    BY <2>2, <2>3
<1>5. CASE CWait2(t)
  <2>1. CGoto(t, "wait2", IF t = Center THEN "reset2"
                          ELSE IF t = Leader THEN "send" ELSE "sci")
    BY <1>5 DEF CWait2
  <2>2. CASE t = Center
    BY <1>1, <2>1, <2>2, QuietRows DEF CMissing, CFirst
  <2>3. CASE t = Leader
    BY <1>1, <2>1, <2>3, QuietRows, Roles DEF CMissing, CFirst
  <2>4. CASE t # Center /\ t # Leader
    BY <1>1, <2>1, <2>4, QuietRows DEF CMissing, CFirst
  <2> QED
    BY <2>2, <2>3, <2>4
<1>6. CASE CReset1(t)
  <2>1. CGoto(t, "reset1", "oprf2")
    BY <1>6 DEF CReset1
  <2> QED
    BY <1>1, <2>1, QuietRows DEF CMissing, CFirst
<1>7. CASE CReset2(t)
  <2>1. CGoto(t, "reset2", "sci") /\ t = Center
    BY <1>1, <1>7 DEF CReset2, CGoto, Sides, CCenterOnly
  <2> QED
    BY <1>1, <2>1, QuietRows, Roles DEF CMissing, CFirst
<1> QED
  BY <1>2, <1>3, <1>4, <1>5, <1>6, <1>7

\* Every step of the client keeps the data.
LEMMA ClientData ==
  ASSUME RunInvariant, DataInvariant, NEW t \in Threads, Client(t)
  PROVE  DataInvariant'
<1>1. UNCHANGED serverVars
  BY DEF Client, CSendKey, COprf1, CInc1, CWait1, CFunc1, CReset1, COprf2, CInc2,
         CWait2, CReset2, CSend, CRecv, CSci
<1>2. ServerRows' /\ Files' /\ Ciphers'
  BY <1>1, ServerSideRests DEF DataInvariant
<1>3. ClientRows' /\ Reported' /\ Exchange'
  BY CSendKeyData, COprf1Data, CFunc1Data, COprf2Data, CSendData, CRecvData, CSciData,
     CQuietData DEF Client
<1> QED
  BY <1>2, <1>3 DEF DataInvariant
-----------------------------------------------------------------------------
(* The server's steps.                                                     *)

\* A server step that touches no table and no socket of the leaders.
LEMMA QuietTables ==
  ASSUME Sides, DataInvariant, NEW t \in Threads, NEW from, NEW to, SGoto(t, from, to),
         UNCHANGED <<cpc, csv, serverData, dataOfPsm2, serverID, up, down>>,
         from \in SMissing(t) <=> to \in SMissing(t),
         t = Center => (from \in SFirst <=> to \in SFirst),
         from \in Unencrypted <=> to \in Unencrypted,
         t = Leader => /\ from \in Uncopied <=> to \in Uncopied
                       /\ from \in Replied <=> to \in Replied
  PROVE  ServerRows' /\ Files' /\ Ciphers' /\ Exchange'
<1>1. spc \in [Threads -> Range(SOrder)] /\ spc[t] = from /\ spc' = [spc EXCEPT ![t] = to]
  BY DEF Sides, SGoto
<1>2. ServerRows'
  BY SameServerRows DEF DataInvariant
<1>3. Ciphers'
  BY SameCiphers DEF DataInvariant
<1>4. Files'
  BY DEF DataInvariant, Files
<1>5. spc[Leader] \in Replied <=> spc'[Leader] \in Replied
  BY <1>1, Roles
<1>6. Exchange'
  BY <1>5, SameExchange DEF DataInvariant
<1> QED
  BY <1>2, <1>3, <1>4, <1>6

\* While a row is still missing, the servers' center is held before it reads.
LEMMA ServerCenterWaits ==
  ASSUME RunInvariant, NEW t \in Others, spc[t] \in SMissing(t)
  PROVE  spc[Center] \in SMissing(Center) \cap SFirst
<1>1. Meets(ServerSite1, spc, Sf1) /\ spc \in [Threads -> Range(SOrder)]
  BY DEF RunInvariant, ServerMeets, Sides
<1>2. t \in Threads /\ t # Center
  BY DEF Others
<1>3. spc[Center] \in ServerSite1.before \cup ServerSite1.wait
  BY <1>1, <1>2, LaterServerSites DEF Meets, Arrived, SMissing
<1>4. spc[Center] \notin SLeaderOnly \cup SNotCenter
  BY Roles DEF RunInvariant, Sides
<1> QED
  BY <1>3, <1>4, LaterServerSites DEF SMissing, SFirst, SLeaderOnly, SNotCenter

\* A step that fills in the server's own row.
LEMMA FilledServerRow ==
  ASSUME Sides, ServerRows, NEW t \in Threads, NEW from, NEW to, SGoto(t, from, to),
         serverID' = [serverID EXCEPT ![t] = SRow(spc', t)],
         t = Center => {from, to} \subseteq SFirst
  PROVE  ServerRows'
<1>1. spc \in [Threads -> Range(SOrder)] /\ spc[t] = from /\ spc' = [spc EXCEPT ![t] = to]
  BY DEF Sides, SGoto
<1>2. ASSUME NEW u \in Threads, u # t
      PROVE  SRow(spc', u) = SRow(spc, u)
  BY <1>1, <1>2, Roles DEF SRow
<1>3. serverID' = [u \in Threads |-> SRow(spc', u)]
  BY <1>2 DEF ServerRows
<1> QED
  BY <1>3 DEF ServerRows

\* The key comes in before anything is encrypted and before the exchange.
LEMMA SRecvKeyData ==
  ASSUME RunInvariant, DataInvariant, NEW t \in Threads, SRecvKey(t)
  PROVE  ServerRows' /\ Files' /\ Ciphers' /\ Exchange'
<1>1. /\ spc \in [Threads -> Range(SOrder)] /\ spc[t] = "recvKey"
      /\ SGoto(t, "recvKey", "incNg") /\ t = Leader
      /\ UNCHANGED <<cpc, csv, serverData, dataOfPsm2, serverID, down>> /\ Sides
  BY DEF RunInvariant, Sides, SRecvKey, SGoto, SLeaderOnly, clientVars
<1>2. ServerRows'
  BY <1>1, SameServerRows, Roles DEF DataInvariant, SMissing
<1>3. Ciphers'
  BY <1>1, SameCiphers DEF DataInvariant, Unencrypted, Uncopied
<1>4. Files'
  BY <1>1 DEF DataInvariant, Files
<1>5. cpc[Leader] # "recv"
  BY <1>1, PairOf DEF RunInvariant, LeaderPair, Silent, Answered, Waits, Left
<1>6. Exchange'
  BY <1>1, <1>5 DEF Exchange
<1> QED
  BY <1>2, <1>3, <1>4, <1>6

\* The key has arrived; what an earlier run saved was encrypted under it too.
LEMMA SEncryptData ==
  ASSUME RunInvariant, KeyInvariant, DataInvariant, NEW t \in Threads, SEncrypt(t)
  PROVE  ServerRows' /\ Files' /\ Ciphers' /\ Exchange'
<1>1. /\ spc \in [Threads -> Range(SOrder)] /\ spc[t] = "encrypt"
      /\ SGoto(t, "encrypt", "inc2") /\ spc' = [spc EXCEPT ![t] = "inc2"]
      /\ UNCHANGED <<cpc, dataOfPsm2, serverID, up, down>> /\ Sides
  BY DEF RunInvariant, Sides, SEncrypt, SGoto, clientVars, netVars
<1>2. ServerRows'
  BY <1>1, SameServerRows, Roles DEF DataInvariant, SMissing, SFirst
<1>3. ng = Key
  BY <1>1, KeySuffices DEF KeyBeforeEncryption
<1>4. csv = [u \in Threads |-> csv[u]] /\ csv[t] \in {<<>>, encrypt(Key, t)}
  BY DEF DataInvariant, Files
<1>5. csv' = [csv EXCEPT ![t] = encrypt(Key, t)]
  BY <1>3, <1>4 DEF SEncrypt
<1>6. Files'
  BY <1>5 DEF DataInvariant, Files
<1>7. serverData' = [serverData EXCEPT ![t] = encrypt(Key, t)]
  BY <1>4, <1>5 DEF SEncrypt
<1>8. ASSUME NEW u \in Threads
      PROVE  /\ u # t => Cipher1(spc', u) = Cipher1(spc, u)
             /\ Cipher1(spc', t) = encrypt(Key, t)
             /\ Copied(spc', u) = Copied(spc, u)
  BY <1>1, Roles DEF Cipher1, Copied, Unencrypted, Uncopied
<1>9. Ciphers'
  BY <1>1, <1>7, <1>8 DEF DataInvariant, Ciphers
<1>10. Exchange'
  BY <1>1, SameExchange, Roles DEF DataInvariant, Replied
<1> QED
  BY <1>2, <1>6, <1>9, <1>10

\* The leader copies after all have encrypted.
LEMMA SFunc2Data ==
  ASSUME RunInvariant, DataInvariant, NEW t \in Threads, SFunc2(t)
  PROVE  ServerRows' /\ Files' /\ Ciphers' /\ Exchange'
<1>1. /\ spc \in [Threads -> Range(SOrder)] /\ spc[t] = "func2" /\ t = Leader
      /\ SGoto(t, "func2", "reset2") /\ spc' = [spc EXCEPT ![t] = "reset2"]
      /\ UNCHANGED <<cpc, csv, serverData, serverID, up, down>> /\ Sides
  BY DEF RunInvariant, Sides, SFunc2, SGoto, SLeaderOnly, clientVars, netVars
<1>2. ServerRows'
  BY <1>1, SameServerRows, Roles DEF DataInvariant, SMissing, SFirst
<1>3. Files'
  BY <1>1 DEF DataInvariant, Files
<1>4. \A u \in Threads : spc[u] \notin Unencrypted
  BY <1>1, ServerComplete
<1>5. ASSUME NEW u \in Threads
      PROVE  /\ Cipher1(spc', u) = Cipher1(spc, u)
             /\ Cipher1(spc, u) = encrypt(Key, u) /\ Copied(spc', u) = encrypt(Key, u)
  BY <1>1, <1>4, Roles DEF Cipher1, Copied, Unencrypted, Uncopied
<1>6. dataOfPsm2' = serverData
  BY DEF SFunc2
<1>7. Ciphers'
  BY <1>1, <1>5, <1>6 DEF DataInvariant, Ciphers
<1>8. Exchange'
  BY <1>1, SameExchange, Roles DEF DataInvariant, Replied
<1> QED
  BY <1>2, <1>3, <1>7, <1>8

\* The first PRF gives a server other than the center its row.
LEMMA SOprf1Data ==
  ASSUME RunInvariant, DataInvariant, NEW t \in Threads, SOprf1(t)
  PROVE  ServerRows' /\ Files' /\ Ciphers' /\ Exchange'
<1>1. /\ spc \in [Threads -> Range(SOrder)] /\ spc[t] = "oprf1" /\ t # Center
      /\ SGoto(t, "oprf1", "inc1") /\ spc' = [spc EXCEPT ![t] = "inc1"]
      /\ UNCHANGED <<cpc, csv, serverData, dataOfPsm2, up, down>> /\ Sides
  BY DEF RunInvariant, Sides, SOprf1, SGoto, SNotCenter, clientVars
<1>2. spc[Center] \in SFirst /\ spc'[Center] \in SFirst
  BY <1>1, ServerCenterWaits, Roles DEF Others, SMissing
<1>3. serverID' = [serverID EXCEPT ![t] = held[t]]
  BY <1>1, FirstRows DEF SOprf1, held
<1>4. SRow(spc', t) = held[t]
  BY <1>1, <1>2 DEF SRow, SMissing
<1>5. ServerRows'
  BY <1>1, <1>3, <1>4, FilledServerRow DEF DataInvariant
<1>6. Files' /\ Ciphers'
  BY <1>1, SameCiphers DEF DataInvariant, Unencrypted, Uncopied, Files
<1>7. Exchange'
  BY <1>1, SameExchange, Roles DEF DataInvariant, Replied
<1> QED
  BY <1>5, <1>6, <1>7

\* The center puts its own elements in as they are.
LEMMA SFunc1Data ==
  ASSUME RunInvariant, DataInvariant, NEW t \in Threads, SFunc1(t)
  PROVE  ServerRows' /\ Files' /\ Ciphers' /\ Exchange'
<1>1. /\ spc \in [Threads -> Range(SOrder)] /\ spc[t] = "func1" /\ t = Center
      /\ SGoto(t, "func1", "reset1") /\ spc' = [spc EXCEPT ![t] = "reset1"]
      /\ UNCHANGED <<cpc, csv, serverData, dataOfPsm2, up, down>> /\ Sides
  BY DEF RunInvariant, Sides, SFunc1, SGoto, SCenterOnly, clientVars, netVars
<1>3. serverID' = [serverID EXCEPT ![t] = held[t]]
  BY <1>1, Roles DEF SFunc1, held, elementsRow
<1>4. SRow(spc', t) = held[t]
  BY <1>1 DEF SRow, SMissing, SFirst
<1>5. ServerRows'
  BY <1>1, <1>3, <1>4, FilledServerRow DEF DataInvariant, SFirst
<1>6. Files' /\ Ciphers'
  BY <1>1, SameCiphers DEF DataInvariant, Unencrypted, Uncopied, Files
<1>7. Exchange'
  BY <1>1, SameExchange, Roles DEF DataInvariant, Replied
<1> QED
  BY <1>5, <1>6, <1>7

\* At the second PRF every row is there; as many are replaced as a server has
\* elements.
LEMMA SOprf2Data ==
  ASSUME RunInvariant, DataInvariant, NEW t \in Threads, SOprf2(t)
  PROVE  ServerRows' /\ Files' /\ Ciphers' /\ Exchange'
<1>1. /\ spc \in [Threads -> Range(SOrder)] /\ spc[t] = "oprf2" /\ t = Center
      /\ SGoto(t, "oprf2", "wait3") /\ spc' = [spc EXCEPT ![t] = "wait3"]
      /\ UNCHANGED <<cpc, csv, serverData, dataOfPsm2, up, down>> /\ Sides
  BY DEF RunInvariant, Sides, SOprf2, SGoto, SCenterOnly, clientVars
<1>2. ASSUME NEW u \in Threads
      PROVE  SRow(spc, u) = held[u] /\ spc[u] \notin SMissing(u)
  BY <1>1, ServerComplete, Roles DEF SRow, SFirst, SMissing, Others
<1>3. serverID = [u \in Threads |-> held[u]]
  BY <1>2 DEF DataInvariant, ServerRows
<1>4. serverID' = [u \in Threads |->
                     IF u >= SNELES THEN serverID[u]
                     ELSE [m \in 1..Len(serverID[u]) |-> Oprf(Center, u + 1, serverID[u][m])]]
  BY <1>1, Sent DEF SOprf2
<1>5. \A u \in Threads : /\ u >= SNELES <=> ~(u < SNELES)
                         /\ serverID[u] = held[u] /\ Len(held[u]) = SNELES
  BY <1>3, ProtocolAssumption DEF held, Threads
<1>6. ASSUME NEW u \in Threads
      PROVE  SRow(spc', u) = IF u >= SNELES THEN held[u] ELSE EncodedRow(u)
  BY <1>1, <1>2, <1>5, Roles DEF SRow, SFirst, SMissing
<1>7. ServerRows'
  BY <1>4, <1>5, <1>6 DEF ServerRows, EncodedRow, LookedUp
<1>8. Files' /\ Ciphers'
  BY <1>1, SameCiphers DEF DataInvariant, Unencrypted, Uncopied, Files
<1>9. Exchange'
  BY <1>1, SameExchange, Roles DEF DataInvariant, Replied
<1> QED
  BY <1>7, <1>8, <1>9

\* What follows the answer touches neither tables nor the answer.
LEMMA SSciData ==
  ASSUME RunInvariant, DataInvariant, NEW t \in Threads, SSciSend(t) \/ SSciRecv(t)
  PROVE  ServerRows' /\ Files' /\ Ciphers' /\ Exchange'
<1>1. /\ UNCHANGED <<cpc, csv, serverData, dataOfPsm2, serverID>> /\ Sides
      /\ DOMAIN up = Threads /\ DOMAIN down = Threads
  BY DEF RunInvariant, PairsInStep, SSciSend, SSciRecv, clientVars, serverTables
<1>2. SGoto(t, "sciSend", "sciRecv") \/ SGoto(t, "sciRecv", "done")
  BY DEF SSciSend, SSciRecv
<1>3. spc[t] \in Replied /\ \A u \in Threads : spc'[u] \in Replied <=> spc[u] \in Replied
  BY <1>1, <1>2 DEF SGoto, Sides, Replied
<1>4. ServerRows' /\ Ciphers' /\ Files'
  <2>1. CASE SGoto(t, "sciSend", "sciRecv")
    BY <1>1, <2>1, SameServerRows, SameCiphers
       DEF DataInvariant, Files, SMissing, SFirst, Unencrypted, Uncopied
  <2>2. CASE SGoto(t, "sciRecv", "done")
    BY <1>1, <2>2, SameServerRows, SameCiphers
       DEF DataInvariant, Files, SMissing, SFirst, Unencrypted, Uncopied
  <2> QED
    BY <1>2, <2>1, <2>2
<1>5. CASE t # Leader
  <2>1. up'[Leader] = up[Leader] /\ down'[Leader] = down[Leader]
    BY <1>1, <1>5, Roles DEF SSciSend, SSciRecv
  <2>2. Exchange'
    BY <1>1, <1>3, <2>1, SameExchange, Roles DEF DataInvariant
  <2> QED
    BY <1>4, <2>2
<1>6. CASE t = Leader /\ cpc[Leader] = "recv"
  <2>1. Head(down'[Leader]) = Head(down[Leader])
    <3>1. CASE SSciRecv(t)
      BY <3>1 DEF SSciRecv
    <3>2. CASE SSciSend(t)
      <4>1. spc[Leader] = "sciSend"
        BY <1>6, <3>2 DEF SSciSend, SGoto
      <4>2. One(down[Leader], "cipher")
        BY <1>6, <4>1, PairOf DEF RunInvariant, LeaderPair, Asks, AskLabels, Expects, Holds,
           Gone, Silent, Answered, Waits, Left
      <4>3. down'[Leader] = Append(down[Leader], sci)
        BY <1>1, <1>6, <3>2 DEF SSciSend
      <4> DEFINE m == down[Leader][1]
      <4>4. down[Leader] = <<m>>
        BY <4>2 DEF One
      <4> HIDE DEF m
      <4> QED
        BY <4>3, <4>4
    <3> QED
      BY <3>1, <3>2
  <2>2. Exchange'
    BY <1>1, <1>3, <1>6, <2>1, Roles DEF DataInvariant, Exchange
  <2> QED
    BY <1>4, <2>2
<1>7. CASE cpc[Leader] # "recv"
  BY <1>1, <1>4, <1>7 DEF Exchange
<1> QED
  BY <1>5, <1>6, <1>7
-----------------------------------------------------------------------------
(* The search.                                                             *)

CipherSum(query, table, data) ==
  MapThenSumSet(LAMBDA m : data[m[2]][m[3]].plain, Matches(query, table))

\* The product decrypts to the sum over the matches.
LEMMA CipherSumIs ==
  ASSUME NEW query, NEW table, NEW data, IsFiniteSet(Matches(query, table))
  PROVE  CipherSum(query, table, data) =
           SumFunctionOnSet([m \in Matches(query, table) |-> data[m[2]][m[3]].plain],
                            Matches(query, table))
<1> DEFINE S == Matches(query, table)
           h == [m \in S |-> data[m[2]][m[3]].plain]
           g == CHOOSE f : f = [s \in SUBSET S |->
                  IF s = {} THEN 0
                  ELSE data[(CHOOSE x \in s : TRUE)[2]][(CHOOSE x \in s : TRUE)[3]].plain
                         + f[s \ {CHOOSE x \in s : TRUE}]]
<1>1. CipherSum(query, table, data) = g[S]
  BY DEF CipherSum, MapThenSumSet, MapThenFoldSet
<1> HIDE DEF S
<1>2. \A s \in SUBSET S : s # {} =>
        h[Chosen(s)] = data[Chosen(s)[2]][Chosen(s)[3]].plain
  BY ChosenIn
<1>3. IsFold(g, h, S)
  <2>1. PICK f : IsFold(f, h, S)
    BY FoldExists DEF S
  <2>2. f = [s \in SUBSET S |->
               IF s = {} THEN 0 ELSE h[Chosen(s)] + f[s \ {Chosen(s)}]]
    BY <2>1 DEF IsFold
  <2> HIDE DEF h
  <2>3. f = [s \in SUBSET S |->
               IF s = {} THEN 0
               ELSE data[Chosen(s)[2]][Chosen(s)[3]].plain + f[s \ {Chosen(s)}]]
    BY <1>2, <2>2
  <2>4. g = [s \in SUBSET S |->
               IF s = {} THEN 0
               ELSE data[Chosen(s)[2]][Chosen(s)[3]].plain + g[s \ {Chosen(s)}]]
    BY <2>3 DEF Chosen
  <2> HIDE DEF g
  <2>5. g = [s \in SUBSET S |->
               IF s = {} THEN 0 ELSE h[Chosen(s)] + g[s \ {Chosen(s)}]]
    BY <1>2, <2>4
  <2> QED
    BY <2>5 DEF IsFold
<1>4. PICK f : IsFold(f, h, S) /\ SumFunctionOnSet(h, S) = f[S]
  BY SumIsFold DEF S
<1> HIDE DEF h, g
<1>5. f[S] = g[S]
  BY <1>3, <1>4, FoldsAgree DEF S
<1> QED
  BY <1>1, <1>4, <1>5 DEF h, S

\* The entries of the tables, and which of them are held are held.
LEMMA FirstEntries ==
  /\ asked \in [Threads -> Seq(Piece)]
  /\ held \in [Threads -> [1..SNELES -> Seq(Piece)]]
  /\ \A t \in Threads, k \in 1..SNELES : asked[t] = held[t][k] <=> k = QueryItem
<1>1. \A k \in Int : <<k>> \in Seq(Piece) /\ k \in Piece
  BY DEF Piece
<1>2. QueryItem \in Int /\ 1..SNELES \subseteq Int /\ Threads \subseteq Int /\ 1 \in Int
  BY ProtocolAssumption DEF Threads
<1>3. \A t \in Threads, k \in Int : Oprf(t, 1, <<k>>) \in Seq(Piece)
  BY <1>1, <1>2, OprfInjective
<1>4. asked \in [Threads -> Seq(Piece)]
  BY <1>1, <1>2, <1>3 DEF asked
<1>5. held \in [Threads -> [1..SNELES -> Seq(Piece)]]
  BY <1>1, <1>2, <1>3 DEF held
<1>6. ASSUME NEW t \in Threads, NEW k \in 1..SNELES
      PROVE  asked[t] = held[t][k] <=> k = QueryItem
  <2>1. Oprf(t, 1, <<QueryItem>>) = Oprf(t, 1, <<k>>) => <<QueryItem>> = <<k>>
    BY <1>1, <1>2, OprfSame
  <2> QED
    BY <2>1 DEF asked, held
<1> QED
  BY <1>4, <1>5, <1>6

\* How long an entry is says how many PRFs it went through.
LEMMA Lengths ==
  ASSUME NEW t \in Threads, NEW k \in 1..SNELES
  PROVE  /\ t \in Int /\ t + 1 \in Int /\ Center \in Int
         /\ asked[t] \in Seq(Piece) /\ held[t][k] \in Seq(Piece)
         /\ Len(asked[t]) = IF t = Center THEN 1 ELSE 2
         /\ Len(held[t][k]) = IF t = Center THEN 1 ELSE 2
         /\ Len(Oprf(Center, t + 1, asked[t])) = IF t = Center THEN 2 ELSE 3
<1>1. \A x \in Int : <<x>> \in Seq(Piece) /\ Len(<<x>>) = 1
  BY DEF Piece
<1>2. QueryItem \in Int /\ k \in Int /\ t \in Int /\ t + 1 \in Int
      /\ 1 \in Int /\ Center \in Int
  BY ProtocolAssumption DEF Threads, Center
<1>3. <<QueryItem>> \in Seq(Piece) /\ Len(<<QueryItem>>) = 1
      /\ <<k>> \in Seq(Piece) /\ Len(<<k>>) = 1
  BY <1>1, <1>2
<1>4. Oprf(t, 1, <<QueryItem>>) \in Seq(Piece) /\ Len(Oprf(t, 1, <<QueryItem>>)) = 1 + 1
      /\ Oprf(t, 1, <<k>>) \in Seq(Piece) /\ Len(Oprf(t, 1, <<k>>)) = 1 + 1
  BY <1>2, <1>3, OneMore
<1>5. asked[t] = (IF t = Center THEN <<QueryItem>> ELSE Oprf(t, 1, <<QueryItem>>))
      /\ held[t][k] = (IF t = Center THEN <<k>> ELSE Oprf(t, 1, <<k>>))
  BY DEF asked, held
<1>6. /\ asked[t] \in Seq(Piece) /\ Len(asked[t]) = IF t = Center THEN 1 ELSE 2
      /\ held[t][k] \in Seq(Piece) /\ Len(held[t][k]) = IF t = Center THEN 1 ELSE 2
  <2>1. CASE t = Center
    BY <1>3, <1>5, <2>1
  <2>2. CASE t # Center
    BY <1>4, <1>5, <2>2
  <2> QED
    BY <2>1, <2>2
<1>7. Len(Oprf(Center, t + 1, asked[t])) = Len(asked[t]) + 1
  BY <1>2, <1>6, OneMore
<1> QED
  BY <1>2, <1>6, <1>7

\* A row that went through one PRF only matches no identifier.
LEMMA NoStray ==
  ASSUME NEW t \in Threads, NEW u \in Threads, NEW k \in 1..SNELES
  PROVE  held[t][k] # Oprf(Center, u + 1, asked[u])
<1>1. CASE t = Center \/ u # Center
  <2>1. Len(held[t][k]) # Len(Oprf(Center, u + 1, asked[u]))
    BY <1>1, Lengths
  <2> QED
    BY <2>1
<1>2. CASE t # Center /\ u = Center
  <2>1. held[t][k] = Oprf(t, 1, <<k>>)
    BY <1>2 DEF held
  <2>2. k \in Int /\ <<k>> \in Seq(Piece)
    BY DEF Piece
  <2>3. 1 \in Int /\ t \in Int /\ u + 1 \in Int /\ Center \in Int /\ asked[u] \in Seq(Piece)
    BY Lengths
  <2>4. Oprf(t, 1, <<k>>) = Oprf(Center, u + 1, asked[u]) => t = Center
    BY <2>2, <2>3, SameChannel
  <2> QED
    BY <1>2, <2>1, <2>4
<1> QED
  BY <1>1, <1>2

\* What the leader multiplies is one ciphertext of each server in Found.
LEMMA ProductIs ==
  ASSUME NEW table, NEW data, ng = Key,
         \A t \in Threads : t < SNELES => table[t] = EncodedRow(t),
         \A t \in Threads : ~(t < SNELES) => table[t] = held[t],
         \A t \in Threads : data[t] = encrypt(Key, t)
  PROVE  Product(Queries, table, data) = Answer1
<1>1. Matches(Queries, table) = FoundAt
  <2>1. \A t \in Threads, u \in Threads, k \in 1..SNELES :
          t >= SNELES /\ k <= Len(table[t]) => table[t][k] # Oprf(Center, u + 1, asked[u])
    <3> SUFFICES ASSUME NEW t \in Threads, NEW u \in Threads, NEW k \in 1..SNELES, ~(t < SNELES)
                 PROVE  table[t][k] # Oprf(Center, u + 1, asked[u])
      <4>1. \A t \in Threads : t >= SNELES <=> ~(t < SNELES)
        BY ProtocolAssumption DEF Threads
      <4> QED
        BY <4>1
    <3>1. table[t] = held[t]
      OBVIOUS
    <3>2. held[t][k] # Oprf(Center, u + 1, asked[u])
      BY NoStray
    <3> QED
      BY <3>1, <3>2
  <2>2. Center \in Int
    BY ProtocolAssumption DEF Center
  <2>3. Comparable(Center, asked, held, table)
    BY <2>1, <2>2, FirstEntries DEF Comparable, EncodedRow
  <2> QED
    BY <2>3, Matching DEF Queries
<1>2. \A t \in Found : t \in Threads /\ QueryItem \in 1..SNELES
  BY ProtocolAssumption DEF Found
<1>3. ASSUME NEW t \in Found
      PROVE  /\ data[t][QueryItem].key = Key
             /\ data[t][QueryItem].plain = Payload[t][QueryItem]
  <2>1. data[t] = encrypt(Key, t) /\ QueryItem \in 1..SNELES
    BY <1>2
  <2> QED
    BY <2>1 DEF encrypt
<1> DEFINE h == [m \in FoundAt |-> data[m[2]][m[3]].plain]
           p == [t \in Threads |-> Payload[t][QueryItem]]
<1>4. ASSUME NEW t \in Found
      PROVE  p[t] \in Int /\ h[<<t + 1, t, QueryItem>>] = p[t]
  <2>1. Payload[t][QueryItem] \in 0..PaillierN-1
    BY <1>2, Smpaq1Assumption
  <2>2. data[t][QueryItem].plain = Payload[t][QueryItem]
    BY <1>3
  <2> DEFINE m == <<t + 1, t, QueryItem>>
  <2>3. m \in FoundAt /\ m[2] = t /\ m[3] = QueryItem
    BY DEF FoundAt
  <2>4. h[m] = data[t][QueryItem].plain
    <3> HIDE DEF m
    <3> QED
      BY <2>3
  <2>5. p[t] \in Int /\ p[t] = Payload[t][QueryItem]
    BY <1>2, <2>1, Smpaq1Assumption
  <2> QED
    BY <2>2, <2>4, <2>5
<1>5. IsFiniteSet(FoundAt) /\ SumFunctionOnSet(h, FoundAt) = SumFunctionOnSet(p, Found)
  <2> HIDE DEF h, p
  <2> QED
    BY <1>4, ByServer
<1>6. CipherSum(Queries, table, data) = SumFunctionOnSet(h, FoundAt)
  BY <1>1, <1>5, CipherSumIs
<1>7. CipherSum(Queries, table, data) = Total
  BY <1>5, <1>6 DEF Total
<1>8. \A m \in FoundAt : data[m[2]][m[3]].key = Key
  <2>1. \A m \in FoundAt : m[2] \in Found /\ m[3] = QueryItem
    BY DEF FoundAt
  <2> QED
    BY <1>3, <2>1
<1>9. {ng} \cup {data[m[2]][m[3]].key : m \in Matches(Queries, table)} = {Key}
  BY <1>1, <1>8
<1> QED
  BY <1>7, <1>9 DEF Product, Answer1, CipherSum

\* The leader finds its queries, all rows and all ciphers, and answers with the
\* encrypted total.
LEMMA SSearchData ==
  ASSUME RunInvariant, KeyInvariant, DataInvariant, NEW t \in Threads, SSearch(t)
  PROVE  ServerRows' /\ Files' /\ Ciphers' /\ Exchange'
<1>1. /\ spc \in [Threads -> Range(SOrder)] /\ spc[t] = "search" /\ t = Leader
      /\ SGoto(t, "search", "sciSend") /\ spc' = [spc EXCEPT ![t] = "sciSend"]
      /\ UNCHANGED <<cpc, ng, csv, serverData, dataOfPsm2, serverID>> /\ Sides
      /\ up[Leader] # <<>>
  BY DEF RunInvariant, Sides, SSearch, SGoto, SLeaderOnly, clientVars, serverTables
<1>2. ServerRows'
  BY <1>1, SameServerRows, Roles DEF DataInvariant, SMissing, SFirst
<1>3. Files' /\ Ciphers'
  BY <1>1, SameCiphers DEF DataInvariant, Unencrypted, Uncopied, Files
<1>4. LeaderPair(Leader)
  BY <1>1, PairOf DEF RunInvariant
<1>5. cpc[Leader] = "recv" /\ down[Leader] = <<>>
  BY <1>1, <1>4 DEF LeaderPair, Asks, AskLabels, Expects, Holds, Gone, Silent, Answered,
                    Waits, Left
<1>6. Head(up[Leader]).body = Queries
  BY <1>1, <1>5 DEF DataInvariant, Exchange, Replied
<1>7. ng = Key
  BY <1>1 DEF KeyInvariant, KeyUnderWay
<1>8. /\ spc[Center] \notin SFirst
      /\ \A u \in Threads : spc[u] \notin Unencrypted /\ spc[u] \notin SMissing(u)
  <2>1. spc[Center] \notin SFirst /\ \A u \in Threads : spc[u] \notin Unencrypted
    BY <1>1, ServerComplete
  <2>2. spc[Center] \notin SMissing(Center)
    BY <2>1 DEF SMissing, SFirst
  <2>3. \A u \in Others : spc[u] \notin SMissing(u)
    BY <2>1, ServerCenterWaits
  <2> QED
    BY <2>1, <2>2, <2>3 DEF Others
<1>9. /\ \A u \in Threads : u < SNELES => serverID[u] = EncodedRow(u)
      /\ \A u \in Threads : ~(u < SNELES) => serverID[u] = held[u]
  BY <1>8 DEF DataInvariant, ServerRows, SRow
<1>10. \A u \in Threads : dataOfPsm2[u] = encrypt(Key, u)
  BY <1>1 DEF DataInvariant, Ciphers, Copied, Uncopied
<1>11. Product(Queries, serverID, dataOfPsm2) = Answer1
  BY <1>7, <1>9, <1>10, ProductIs
<1>12. down' = [down EXCEPT ![Leader] = Append(<<>>, [kind |-> "cipher", body |-> Answer1])]
  BY <1>1, <1>5, <1>6, <1>11 DEF SSearch
<1>13. Head(down'[Leader]).body = Answer1
  <2>1. DOMAIN down = Threads
    BY DEF RunInvariant, PairsInStep
  <2>2. down'[Leader] = <<[kind |-> "cipher", body |-> Answer1]>>
    BY <1>12, <2>1, Roles
  <2> QED
    BY <2>2
<1>14. Exchange'
  BY <1>1, <1>13, Roles DEF Exchange, Replied
<1> QED
  BY <1>2, <1>3, <1>14

\* Increments, polls and resets leave the tables and the sockets alone.
LEMMA SAtSiteNgData ==
  ASSUME RunInvariant, DataInvariant, NEW t \in Threads,
         SIncNg(t) \/ SWaitNg(t) \/ SResetNg(t)
  PROVE  ServerRows' /\ Files' /\ Ciphers' /\ Exchange'
<1>1. /\ UNCHANGED <<cpc, csv, serverData, dataOfPsm2, serverID, up, down>> /\ Sides
      /\ (\/ SGoto(t, "incNg", "waitNg") \/ SGoto(t, "resetNg", "encrypt")
          \/ SGoto(t, "waitNg", "resetNg") /\ t = Center
          \/ SGoto(t, "waitNg", "encrypt"))
  BY DEF RunInvariant, SIncNg, SWaitNg, SResetNg, clientVars, serverTables, netVars
<1>2. CASE SGoto(t, "incNg", "waitNg")
  <2>1. t # Center
    BY <1>1, <1>2 DEF Sides, SNotCenter, SGoto
  <2> QED
    BY <1>1, <1>2, <2>1, QuietTables DEF SMissing, SFirst, Unencrypted, Uncopied, Replied
<1>3. CASE SGoto(t, "resetNg", "encrypt")
  <2>1. t = Center
    BY <1>1, <1>3 DEF Sides, SCenterOnly, SGoto
  <2> QED
    BY <1>1, <1>3, <2>1, QuietTables, Roles
       DEF SMissing, SFirst, Unencrypted, Uncopied, Replied
<1>4. CASE SGoto(t, "waitNg", "resetNg") /\ t = Center
  BY <1>1, <1>4, QuietTables, Roles DEF SMissing, SFirst, Unencrypted, Uncopied, Replied
<1>5. CASE SGoto(t, "waitNg", "encrypt")
  BY <1>1, <1>5, QuietTables DEF SMissing, SFirst, Unencrypted, Uncopied, Replied
<1> QED
  BY <1>1, <1>2, <1>3, <1>4, <1>5

LEMMA SAtSite2Data ==
  ASSUME RunInvariant, DataInvariant, NEW t \in Threads,
         SInc2(t) \/ SWait2(t) \/ SReset2(t)
  PROVE  ServerRows' /\ Files' /\ Ciphers' /\ Exchange'
<1>1. /\ UNCHANGED <<cpc, csv, serverData, dataOfPsm2, serverID, up, down>> /\ Sides
      /\ (\/ SGoto(t, "inc2", "wait2") \/ SGoto(t, "inc3", "wait3")
          \/ SGoto(t, "reset2", "oprf1") \/ SGoto(t, "reset3", "sciSend")
          \/ SGoto(t, "wait2", "func2") /\ t = Leader
          \/ SGoto(t, "wait2", "wait1") /\ t = Center
          \/ SGoto(t, "wait2", "oprf1") /\ t # Center /\ t # Leader)
  BY Roles DEF RunInvariant, SInc2, SWait2, SReset2, clientVars, serverTables, netVars
<1>2. CASE SGoto(t, "inc2", "wait2")
  BY <1>1, <1>2, QuietTables DEF SMissing, SFirst, Unencrypted, Uncopied, Replied
<1>3. CASE SGoto(t, "inc3", "wait3")
  <2>1. t # Center
    BY <1>1, <1>3 DEF Sides, SNotCenter, SGoto
  <2> QED
    BY <1>1, <1>3, <2>1, QuietTables DEF SMissing, SFirst, Unencrypted, Uncopied, Replied
<1>4. CASE SGoto(t, "reset2", "oprf1")
  <2>1. t = Leader
    BY <1>1, <1>4 DEF Sides, SLeaderOnly, SGoto
  <2> QED
    BY <1>1, <1>4, <2>1, QuietTables, Roles
       DEF SMissing, SFirst, Unencrypted, Uncopied, Replied
<1>5. CASE SGoto(t, "reset3", "sciSend")
  <2>1. t = Center
    BY <1>1, <1>5 DEF Sides, SCenterOnly, SGoto
  <2> QED
    BY <1>1, <1>5, <2>1, QuietTables, Roles
       DEF SMissing, SFirst, Unencrypted, Uncopied, Replied
<1>6. CASE SGoto(t, "wait2", "func2") /\ t = Leader
  BY <1>1, <1>6, QuietTables, Roles DEF SMissing, SFirst, Unencrypted, Uncopied, Replied
<1>7. CASE SGoto(t, "wait2", "wait1") /\ t = Center
  BY <1>1, <1>7, QuietTables, Roles DEF SMissing, SFirst, Unencrypted, Uncopied, Replied
<1>8. CASE SGoto(t, "wait2", "oprf1") /\ t # Center /\ t # Leader
  BY <1>1, <1>8, QuietTables DEF SMissing, SFirst, Unencrypted, Uncopied, Replied
<1> QED
  BY <1>1, <1>2, <1>3, <1>4, <1>5, <1>6, <1>7, <1>8

LEMMA SAtLaterSitesData ==
  ASSUME RunInvariant, DataInvariant, NEW t \in Threads,
         SInc1(t) \/ SWait1(t) \/ SReset1(t) \/ SWait3(t)
  PROVE  ServerRows' /\ Files' /\ Ciphers' /\ Exchange'
<1>1. /\ UNCHANGED <<cpc, csv, serverData, dataOfPsm2, serverID, up, down>> /\ Sides
      /\ (\/ SGoto(t, "inc1", "wait1")
          \/ SGoto(t, "wait1", "func1") /\ t = Center
          \/ SGoto(t, "wait1", "inc3") /\ t # Center
          \/ SGoto(t, "reset1", "oprf2")
          \/ SGoto(t, "wait3", "reset3") /\ t = Center
          \/ SGoto(t, "wait3", "search") /\ t # Center
          \/ SGoto(t, "wait3", "sciSend") /\ t # Center /\ t # Leader)
  BY Roles DEF RunInvariant, SInc1, SWait1, SReset1, SWait3, clientVars, serverTables, netVars
<1>2. CASE SGoto(t, "inc1", "wait1")
  <2>1. t # Center
    BY <1>1, <1>2 DEF Sides, SNotCenter, SGoto
  <2> QED
    BY <1>1, <1>2, <2>1, QuietTables DEF SMissing, SFirst, Unencrypted, Uncopied, Replied
<1>3. CASE SGoto(t, "wait1", "func1") /\ t = Center
  BY <1>1, <1>3, QuietTables, Roles DEF SMissing, SFirst, Unencrypted, Uncopied, Replied
<1>4. CASE SGoto(t, "wait1", "inc3") /\ t # Center
  BY <1>1, <1>4, QuietTables DEF SMissing, SFirst, Unencrypted, Uncopied, Replied
<1>5. CASE SGoto(t, "reset1", "oprf2")
  <2>1. t = Center
    BY <1>1, <1>5 DEF Sides, SCenterOnly, SGoto
  <2> QED
    BY <1>1, <1>5, <2>1, QuietTables, Roles
       DEF SMissing, SFirst, Unencrypted, Uncopied, Replied
<1>6. CASE SGoto(t, "wait3", "reset3") /\ t = Center
  BY <1>1, <1>6, QuietTables, Roles DEF SMissing, SFirst, Unencrypted, Uncopied, Replied
<1>7. CASE SGoto(t, "wait3", "search") /\ t # Center
  BY <1>1, <1>7, QuietTables DEF SMissing, SFirst, Unencrypted, Uncopied, Replied
<1>8. CASE SGoto(t, "wait3", "sciSend") /\ t # Center /\ t # Leader
  BY <1>1, <1>8, QuietTables DEF SMissing, SFirst, Unencrypted, Uncopied, Replied
<1> QED
  BY <1>1, <1>2, <1>3, <1>4, <1>5, <1>6, <1>7, <1>8

\* Every step of a server keeps the data, and prints nothing.
LEMMA ServerData ==
  ASSUME RunInvariant, KeyInvariant, DataInvariant, NEW t \in Threads, Server(t)
  PROVE  DataInvariant' /\ UNCHANGED reports
<1>1. UNCHANGED clientVars
  BY DEF Server, SRecvKey, SIncNg, SWaitNg, SResetNg, SEncrypt, SInc2, SWait2, SFunc2,
         SReset2, SOprf1, SInc1, SWait1, SFunc1, SReset1, SOprf2, SWait3, SSearch,
         SSciSend, SSciRecv
<1>2. ClientRows' /\ Reported'
  BY <1>1, ClientSideRests DEF DataInvariant
<1>3. ServerRows' /\ Files' /\ Ciphers' /\ Exchange'
  BY SRecvKeyData, SEncryptData, SFunc2Data, SOprf1Data, SFunc1Data, SOprf2Data,
     SSearchData, SSciData, SAtSiteNgData, SAtSite2Data, SAtLaterSitesData DEF Server
<1> QED
  BY <1>1, <1>2, <1>3 DEF DataInvariant, clientVars
-----------------------------------------------------------------------------
(* The invariant, and what it gives.                                       *)

RunData == RunInvariant /\ KeyInvariant /\ DataInvariant

\* At the start the tables are empty; the files may hold what an earlier run
\* saved.
LEMMA InitData == Init => DataInvariant
<1> SUFFICES ASSUME Init PROVE DataInvariant
  OBVIOUS
<1>1. /\ cpc[Center] = "wait1" /\ cpc[Leader] = "sendKey"
      /\ \A t \in Threads : cpc[t] \in CMissing(t)
  BY Roles DEF Init, CMissing
<1>2. ClientRows
  BY <1>1 DEF Init, ClientRows, CRow, CFirst, EmptyTable
<1>3. /\ spc[Center] = "waitNg" /\ spc[Leader] = "recvKey"
      /\ \A t \in Threads : spc[t] \in SMissing(t) /\ spc[t] \in Unencrypted
  BY Roles DEF Init, SMissing, Unencrypted
<1>4. ServerRows
  BY <1>3 DEF Init, ServerRows, SRow, SFirst, EmptyTable
<1>5. Ciphers
  BY <1>3 DEF Init, Ciphers, Cipher1, Copied, EmptyTable, Uncopied
<1>6. Files
  BY DEF Init, Files
<1>7. Exchange /\ Reported
  BY <1>1 DEF Init, Exchange, Reported
<1> QED
  BY <1>2, <1>4, <1>5, <1>6, <1>7 DEF DataInvariant

\* Every step keeps the data.
LEMMA NextData == RunData /\ [Next]_vars => DataInvariant'
<1> SUFFICES ASSUME RunData, [Next]_vars PROVE DataInvariant'
  OBVIOUS
<1> USE DEF RunData
<1>1. CASE UNCHANGED vars
  <2>1. UNCHANGED clientVars /\ UNCHANGED serverVars /\ UNCHANGED <<up, down, cpc, spc>>
    BY <1>1 DEF vars, netVars, clientVars, serverVars
  <2>2. ClientRows' /\ Reported' /\ ServerRows' /\ Files' /\ Ciphers'
    BY <2>1, ServerSideRests, ClientSideRests DEF DataInvariant
  <2>3. Exchange'
    BY <2>1, SameExchange DEF DataInvariant
  <2> QED
    BY <2>2, <2>3 DEF DataInvariant
<1>2. ASSUME NEW t \in Threads, Client(t)
      PROVE  DataInvariant'
  BY <1>2, ClientData
<1>3. ASSUME NEW t \in Threads, Server(t)
      PROVE  DataInvariant'
  BY <1>3, ServerData
<1> QED
  BY <1>1, <1>2, <1>3 DEF Next, Exit

\* THEOREM (data). At every moment the tables hold exactly what the PRFs make of
\* the items for the threads that got there, the ciphers are under the one key,
\* the leaders' messages carry the identifiers of all rows and the encrypted
\* total, and the report is that total: for every number of servers and elements.
THEOREM DataInvariance == Spec => []DataInvariant
<1>1. Init => DataInvariant
  BY InitData
<1>2. RunInvariant /\ KeyInvariant /\ DataInvariant /\ [Next]_vars => DataInvariant'
  BY NextData DEF RunData
<1> QED
  BY <1>1, <1>2, RunInvariance, KeyInvariance, PTL DEF Spec

\* An entry of the second PRF ends in the key of its row.
LEMMA Second ==
  ASSUME NEW t \in Threads
  PROVE  /\ SecondPrf(Encoded(t), t)
         /\ \A k \in 1..SNELES : SecondPrf(EncodedRow(t)[k], t)
<1>1. ASSUME NEW e \in Seq(Piece)
      PROVE  SecondPrf(Oprf(Center, t + 1, e), t)
  <2>1. t + 1 \in Int /\ Center \in Int
    BY ProtocolAssumption DEF Threads, Center
  <2>2. /\ Len(Oprf(Center, t + 1, e)) = Len(e) + 1
        /\ Oprf(Center, t + 1, e)[Len(e) + 1] = <<Center, t + 1>>
    BY <2>1, OprfInjective
  <2> QED
    BY <2>2 DEF SecondPrf
<1>2. asked[t] \in Seq(Piece) /\ \A k \in 1..SNELES : held[t][k] \in Seq(Piece)
  <2>1. \A k \in 1..SNELES : asked[t] \in Seq(Piece) /\ held[t][k] \in Seq(Piece)
    BY Lengths
  <2> QED
    BY <2>1, FirstEntries
<1> QED
  BY <1>1, <1>2 DEF Encoded, EncodedRow, LookedUp

\* With a row of elements for each server, what the readers see is complete.
LEMMA SeesAllRows ==
  ASSUME RunInvariant, DataInvariant, SNELES >= N
  PROVE  ReadersSeeAllRows
<1>1. ASSUME cpc[Center] = "oprf2", NEW t \in Threads
      PROVE  clientID[t] # <<>>
  <2>1. clientID[t] = <<asked[t]>>
    BY <1>1, ClientComplete, Roles
       DEF DataInvariant, ClientRows, CRow, CFirst, CMissing, Others
  <2> QED
    BY <2>1
<1>2. ASSUME spc[Center] = "oprf2", NEW t \in Threads
      PROVE  serverID[t] # <<>>
  <2>1. serverID[t] = held[t]
    BY <1>2, ServerComplete, Roles
       DEF DataInvariant, ServerRows, SRow, SFirst, SMissing, Others
  <2>2. held[t] # <<>>
    BY ProtocolAssumption DEF held
  <2> QED
    BY <2>1, <2>2
<1>3. ASSUME cpc[Leader] = "send", NEW t \in Threads
      PROVE  SecondPrf(clientID[t][1], t)
  <2>1. clientID[t] = <<Encoded(t)>>
    BY <1>3, ClientComplete DEF DataInvariant, ClientRows, CRow
  <2> QED
    BY <2>1, Second
<1>4. ASSUME spc[Leader] = "search", NEW t \in Threads
      PROVE  /\ dataOfPsm2[t] # <<>>
             /\ \A k \in DOMAIN serverID[t] : SecondPrf(serverID[t][k], t)
  <2>1. dataOfPsm2[t] = encrypt(Key, t)
    BY <1>4 DEF DataInvariant, Ciphers, Copied, Uncopied
  <2>2. encrypt(Key, t) # <<>>
    BY ProtocolAssumption DEF encrypt
  <2>3. t < SNELES
    BY ProtocolAssumption DEF Threads
  <2>4. serverID[t] = EncodedRow(t)
    BY <1>4, <2>3, ServerComplete DEF DataInvariant, ServerRows, SRow
  <2>5. DOMAIN EncodedRow(t) = 1..SNELES
    BY DEF EncodedRow, LookedUp
  <2> QED
    BY <2>1, <2>2, <2>4, <2>5, Second
<1> QED
  BY <1>1, <1>2, <1>3, <1>4 DEF ReadersSeeAllRows

\* THEOREM (complete tables). With at least as many elements as servers, whoever
\* reads a table after a wait (psmFunc1, psmFunc2 and the search) finds the row
\* of every thread. With fewer the second PRF leaves rows out: a run shows it.
THEOREM AllRows == ASSUME SNELES >= N PROVE Spec => []ReadersSeeAllRows
<1>1. RunInvariant /\ DataInvariant => ReadersSeeAllRows
  BY SeesAllRows
<1> QED
  BY <1>1, RunInvariance, DataInvariance, PTL

\* Whatever the sizes, what is printed is the sum over the servers that are
\* found, reduced, and it is printed once.
ReportsFound == reports \in {<<>>, <<Total % PaillierN>>}

\* THEOREM (report). Whatever the sizes, what the client prints is the sum of the
\* payloads of the servers whose row the second PRF reached, modulo the key.
THEOREM PrintsFound == Spec => []ReportsFound
<1>1. DataInvariant => ReportsFound
  BY DEF DataInvariant, Reported, ReportsFound
<1> QED
  BY <1>1, DataInvariance, PTL

\* A server has contributed when it has encrypted.
LEMMA Contributed ==
  ASSUME RunInvariant, DataInvariant, NEW t \in Threads
  PROVE  /\ SPast(t, "encrypt") <=> serverData[t] # <<>>
         /\ SPast(t, "encrypt") <=> spc[t] \notin Unencrypted
<1>1. /\ Place(SOrder, "recvKey") = 1 /\ Place(SOrder, "incNg") = 2
      /\ Place(SOrder, "waitNg") = 3 /\ Place(SOrder, "resetNg") = 4
      /\ Place(SOrder, "encrypt") = 5 /\ Place(SOrder, "inc2") = 6
      /\ Place(SOrder, "wait2") = 7 /\ Place(SOrder, "func2") = 8
      /\ Place(SOrder, "reset2") = 9 /\ Place(SOrder, "oprf1") = 10
      /\ Place(SOrder, "inc1") = 11 /\ Place(SOrder, "wait1") = 12
      /\ Place(SOrder, "func1") = 13 /\ Place(SOrder, "reset1") = 14
      /\ Place(SOrder, "oprf2") = 15 /\ Place(SOrder, "inc3") = 16
      /\ Place(SOrder, "wait3") = 17 /\ Place(SOrder, "reset3") = 18
      /\ Place(SOrder, "search") = 19 /\ Place(SOrder, "sciSend") = 20
      /\ Place(SOrder, "sciRecv") = 21 /\ Place(SOrder, "done") = 22
  BY DEF Place, SOrder
<1>2. spc[t] \in {"recvKey", "incNg", "waitNg", "resetNg", "encrypt", "inc2", "wait2",
             "func2", "reset2", "oprf1", "inc1", "wait1", "func1", "reset1", "oprf2",
             "inc3", "wait3", "reset3", "search", "sciSend", "sciRecv", "done"}
  BY DEF RunInvariant, Sides, Range, SOrder
<1>3. SPast(t, "encrypt") <=> spc[t] \notin Unencrypted
  BY <1>1, <1>2 DEF SPast, Unencrypted
<1>4. encrypt(Key, t) # <<>>
  BY ProtocolAssumption DEF encrypt
<1>5. serverData[t] = Cipher1(spc, t)
  BY DEF DataInvariant, Ciphers
<1> QED
  BY <1>3, <1>4, <1>5 DEF Cipher1

contributed == {t \in Threads : SPast(t, "encrypt")}

\* The refinement mapping, in terms of the ciphers.
LEMMA ContributedIs ==
  RunInvariant /\ DataInvariant => contributed = {t \in Threads : serverData[t] # <<>>}
<1>1. RunInvariant /\ DataInvariant =>
        \A t \in Threads : SPast(t, "encrypt") <=> serverData[t] # <<>>
  BY Contributed
<1> QED
  BY <1>1 DEF contributed

\* With enough elements the abstract answer is the total over all servers.
LEMMA AnswerIs ==
  ASSUME SNELES >= N
  PROVE  Query!Answer = Total % PaillierN
<1>1. \A t \in Threads : DOMAIN Payload[t] = 1..SNELES
  BY Smpaq1Assumption
<1>2. SumAt(Payload, {s \in Threads : QueryItem \in DOMAIN Payload[s]}) = Total
  BY <1>1, SumOfAll DEF Total
<1>3. Query!Answer = SumAt(Payload, {s \in Threads : QueryItem \in DOMAIN Payload[s]})
                       % PaillierN
  BY DEF Query!Answer, Query!MapThenSumSet, Query!MapThenFoldSet,
         SumAt, MapThenSumSet, MapThenFoldSet
<1> QED
  BY <1>2, <1>3

\* Encrypting is the abstract Contribute, the leader's decryption the abstract
\* report; every other step is a stutter.
LEMMA QueryStep ==
  ASSUME SNELES >= N, RunData, RunInvariant', DataInvariant', [Next]_vars
  PROVE  [Query!Next]_(Query!vars)
<1> USE DEF RunData
<1>1. /\ contributed = {t \in Threads : serverData[t] # <<>>}
      /\ contributed' = {t \in Threads : serverData'[t] # <<>>}
  <2>1. (RunInvariant /\ DataInvariant =>
           contributed = {t \in Threads : serverData[t] # <<>>})'
    BY ContributedIs, PTL
  <2> QED
    BY <2>1, ContributedIs
<1>2. ASSUME UNCHANGED <<serverData, reports>>
      PROVE  UNCHANGED Query!vars
  BY <1>1, <1>2 DEF Query!vars, contributed
<1>3. CASE UNCHANGED vars
  BY <1>2, <1>3 DEF vars, clientVars, serverVars, serverTables
<1>4. ASSUME NEW t \in Threads, SEncrypt(t)
      PROVE  Query!Contribute(t)
  <2>1. t \notin contributed /\ serverData = [u \in Threads |-> serverData[u]]
    BY <1>4, Contributed DEF SEncrypt, SGoto, contributed, Unencrypted, DataInvariant, Ciphers
  <2>2. spc'[t] = "inc2" /\ reports' = reports
    BY <1>4 DEF SEncrypt, SGoto, RunInvariant, Sides, clientVars
  <2>3. serverData'[t] # <<>>
    <3>1. serverData'[t] = Cipher1(spc', t)
      BY DEF DataInvariant, Ciphers
    <3>2. encrypt(Key, t) # <<>>
      BY ProtocolAssumption DEF encrypt
    <3> QED
      BY <2>2, <3>1, <3>2 DEF Cipher1, Unencrypted
  <2>4. \A u \in Threads \ {t} : serverData'[u] = serverData[u]
    BY <1>4, <2>1 DEF SEncrypt
  <2>5. contributed' = contributed \cup {t}
    BY <1>1, <2>1, <2>3, <2>4
  <2> QED
    BY <2>1, <2>2, <2>5 DEF Query!Contribute, contributed
<1>5. ASSUME NEW t \in Threads, CRecv(t)
      PROVE  Query!Report
  <2>1. reports = <<>> /\ reports' = <<Total % PaillierN>> /\ serverData' = serverData
    BY <1>5, CRecvData DEF CRecv, serverVars, serverTables
  <2>2. t = Leader /\ cpc[t] = "recv" /\ down[t] # <<>>
    BY <1>5 DEF CRecv, CGoto, RunInvariant, Sides, CLeaderOnly
  <2>3. spc[Leader] \in Replied
    BY <2>2, PairOf DEF RunInvariant, LeaderPair, Asks, AskLabels, Expects, Holds, Gone,
                        Silent, Answered, Waits, Left, Replied
  <2>4. \A u \in Threads : spc[u] \notin Unencrypted
    BY <2>3, ServerComplete DEF Replied
  <2>5. contributed = Threads /\ contributed' = contributed
    BY <1>1, <2>1, <2>4, Contributed DEF contributed
  <2> QED
    BY <2>1, <2>5, AnswerIs DEF Query!Report, contributed
<1>6. ASSUME NEW t \in Threads, Client(t), ~CRecv(t)
      PROVE  UNCHANGED <<serverData, reports>>
  BY <1>6 DEF Client, CSendKey, COprf1, CInc1, CWait1, CFunc1, CReset1, COprf2, CInc2,
     CWait2, CReset2, CSend, CSci, serverVars, serverTables
<1>7. ASSUME NEW t \in Threads, Server(t), ~SEncrypt(t)
      PROVE  UNCHANGED <<serverData, reports>>
  BY <1>7 DEF Server, SRecvKey, SIncNg, SWaitNg, SResetNg, SInc2, SWait2, SFunc2,
     SReset2, SOprf1, SInc1, SWait1, SFunc1, SReset1, SOprf2, SWait3, SSearch,
     SSciSend, SSciRecv, clientVars, serverTables
<1>8. ASSUME NEW t \in Threads, Client(t)
      PROVE  [Query!Next]_(Query!vars)
  BY <1>2, <1>5, <1>6, <1>8 DEF Query!Next
<1>9. ASSUME NEW t \in Threads, Server(t)
      PROVE  [Query!Next]_(Query!vars)
  BY <1>2, <1>4, <1>7, <1>9 DEF Query!Next
<1> QED
  BY <1>2, <1>3, <1>8, <1>9 DEF Next, Exit

\* The start is a start of the abstract specification.
LEMMA InitQuery == Init => Query!Init
<1> SUFFICES ASSUME Init PROVE Query!Init
  OBVIOUS
<1>1. RunInvariant /\ DataInvariant
  BY InitRun, InitData
<1>2. \A t \in Threads : spc[t] \in Unencrypted
  BY DEF Init, Unencrypted
<1> QED
  BY <1>1, <1>2, Contributed DEF Query!Init, Init

\* THEOREM (refinement). With at least as many elements as servers, SMPAQ1
\* implements the aggregate query: one answer, after all servers contributed,
\* which is the sum of all payloads of the queried item.
THEOREM Implements == ASSUME SNELES >= N PROVE Spec => ImplementsAggregateQuery
<1>1. RunData /\ RunInvariant' /\ DataInvariant' /\ [Next]_vars
        => [Query!Next]_(Query!vars)
  BY QueryStep
<1>2. Spec => []RunData
  BY RunInvariance, KeyInvariance, DataInvariance, PTL DEF RunData
<1>3. RunData => RunInvariant /\ DataInvariant
  BY DEF RunData
<1> QED
  BY <1>1, <1>2, <1>3, InitQuery, PTL DEF Spec, ImplementsAggregateQuery, Query!Spec
-----------------------------------------------------------------------------
(* The flags between two sites, and the types.                             *)

\* Nobody counted at a site that its special thread has left.
ClientAtRest == AtRest(ClientSite1, cpc, Cf1) /\ AtRest(ClientSite2, cpc, Cf2)
ServerAtRest == /\ AtRest(ServerSiteNg, spc, Sf2_Ng) /\ AtRest(ServerSite1, spc, Sf1)
                /\ AtRest(ServerSite3, spc, Sf2)
Rest == /\ ClientAtRest /\ ServerAtRest /\ ng \in {Key, NoKey}
        /\ corr \in [Threads -> BOOLEAN]

\* A client step keeps the flags of both sites at rest.
LEMMA ClientStaysAtRest ==
  ASSUME Sides, ClientMeets, ClientAtRest, NEW t \in Threads, NEW from, NEW to,
         CGoto(t, from, to), StaysZero(ClientSite1, t, from, to, Cf1, Cf1'),
         StaysZero(ClientSite2, t, from, to, Cf2, Cf2')
  PROVE  ClientAtRest'
<1>1. /\ Goes(ClientSite1, cpc, cpc', t, from, to)
      /\ Goes(ClientSite2, cpc, cpc', t, from, to)
  BY ClientGoes
<1>2. AtRest(ClientSite1, cpc', Cf1')
  BY <1>1, AreSites, StaysAtRest DEF ClientMeets, ClientAtRest
<1>3. AtRest(ClientSite2, cpc', Cf2')
  BY <1>1, AreSites, StaysAtRest DEF ClientMeets, ClientAtRest
<1>4. ClientSite1' = ClientSite1 /\ ClientSite2' = ClientSite2
  OBVIOUS
<1> QED
  BY <1>2, <1>3 DEF ClientAtRest, AtRest, Inside, ClientSite1, ClientSite2

\* A server step keeps the flags of the sites at rest.
LEMMA ServerStaysAtRest ==
  ASSUME Sides, ServerMeets, ServerAtRest, NEW t \in Threads, NEW from, NEW to,
         SGoto(t, from, to), StaysZero(ServerSiteNg, t, from, to, Sf2_Ng, Sf2_Ng'),
         StaysZero(ServerSite1, t, from, to, Sf1, Sf1'),
         StaysZero(ServerSite3, t, from, to, Sf2, Sf2')
  PROVE  ServerAtRest'
<1>1. /\ Goes(ServerSiteNg, spc, spc', t, from, to)
      /\ Goes(ServerSite1, spc, spc', t, from, to)
      /\ Goes(ServerSite3, spc, spc', t, from, to)
  BY ServerGoes
<1>2. AtRest(ServerSiteNg, spc', Sf2_Ng') /\ AtRest(ServerSite1, spc', Sf1')
  BY <1>1, AreSites, StaysAtRest DEF ServerMeets, ServerAtRest
<1>3. AtRest(ServerSite3, spc', Sf2')
  <2>1. CASE spc'[Center] \in Inside(ServerSite3)
    BY <2>1, LaterServerSites DEF AtRest
  <2>2. CASE spc[Center] \notin Inside(ServerSite3)
    <3>1. spc[Leader] \notin Inside(ServerSite2)
      BY <2>2, Roles, LeaderIsPast, ServerSites, LaterServerSites
    <3>2. Meets(ServerSite3, spc, Sf2)
      BY <3>1 DEF ServerMeets, Again
    <3> QED
      BY <1>1, <3>2, AreSites, StaysAtRest DEF ServerAtRest
  <2>3. CASE spc[Center] \in Inside(ServerSite3) /\ spc'[Center] \notin Inside(ServerSite3)
    <3>1. t = Center /\ spc[Center] = from /\ spc'[Center] = to
      BY <2>3, Roles DEF SGoto, Sides
    <3> QED
      BY <2>3, <3>1, LaterServerSites DEF StaysZero, AtRest
  <2> QED
    BY <2>1, <2>2, <2>3
<1> QED
  BY <1>2, <1>3
     DEF ServerAtRest, AtRest, Inside, ServerSiteNg, ServerSite1, ServerSite2, ServerSite3

\* Each of the client's steps counts or resets at its own site only.
LEMMA ClientRest ==
  ASSUME Sides, ClientMeets, ClientAtRest, NEW t \in Threads, Client(t)
  PROVE  ClientAtRest'
<1> USE ClientSites DEF StaysZero
<1>1. /\ cpc[t] \in CCenterOnly => t = Center
      /\ cpc[t] \in CNotCenter => t \in Others
  BY DEF Sides, Others
<1>2. CASE CSendKey(t)
  BY <1>1, <1>2, ClientStaysAtRest DEF CSendKey, CGoto, CNotCenter, CCenterOnly, clientFlags
<1>3. CASE COprf1(t)
  BY <1>1, <1>3, ClientStaysAtRest DEF COprf1, CGoto, CNotCenter, CCenterOnly, clientFlags
<1>4. CASE CInc1(t)
  BY <1>1, <1>4, ClientStaysAtRest DEF CInc1, CGoto, CNotCenter, CCenterOnly, clientFlags
<1>5. CASE CFunc1(t)
  BY <1>1, <1>5, ClientStaysAtRest DEF CFunc1, CGoto, CNotCenter, CCenterOnly, clientFlags
<1>6. CASE CReset1(t)
  BY <1>1, <1>6, ClientStaysAtRest DEF CReset1, CGoto, CNotCenter, CCenterOnly, clientFlags
<1>7. CASE COprf2(t)
  BY <1>1, <1>7, ClientStaysAtRest DEF COprf2, CGoto, CNotCenter, CCenterOnly, clientFlags
<1>8. CASE CInc2(t)
  BY <1>1, <1>8, ClientStaysAtRest DEF CInc2, CGoto, CNotCenter, CCenterOnly, clientFlags
<1>9. CASE CReset2(t)
  BY <1>1, <1>9, ClientStaysAtRest DEF CReset2, CGoto, CNotCenter, CCenterOnly, clientFlags
<1>10. CASE CSend(t)
  BY <1>1, <1>10, ClientStaysAtRest DEF CSend, CGoto, CNotCenter, CCenterOnly, clientFlags
<1>11. CASE CRecv(t)
  BY <1>1, <1>11, ClientStaysAtRest DEF CRecv, CGoto, CNotCenter, CCenterOnly, clientFlags
<1>12. CASE CSci(t)
  BY <1>1, <1>12, ClientStaysAtRest DEF CSci, CGoto, CNotCenter, CCenterOnly, clientFlags
<1>13. CASE CWait1(t)
  <2>1. CASE t = Center
    <3>1. CGoto(t, "wait1", "func1") /\ UNCHANGED <<Cf1, Cf2>>
      BY <1>13, <2>1 DEF CWait1, clientFlags
    <3> QED
      BY <2>1, <3>1, ClientStaysAtRest
  <2>2. CASE t # Center
    <3>1. CGoto(t, "wait1", "inc2") /\ UNCHANGED <<Cf1, Cf2>>
      BY <1>13, <2>2 DEF CWait1, clientFlags
    <3> QED
      BY <2>2, <3>1, ClientStaysAtRest
  <2> QED
    BY <2>1, <2>2
<1>14. CASE CWait2(t)
  <2>1. CASE t = Center
    <3>1. CGoto(t, "wait2", "reset2") /\ UNCHANGED <<Cf1, Cf2>>
      BY <1>14, <2>1 DEF CWait2, clientFlags
    <3> QED
      BY <2>1, <3>1, ClientStaysAtRest
  <2>2. CASE t # Center /\ t = Leader
    <3>1. CGoto(t, "wait2", "send") /\ UNCHANGED <<Cf1, Cf2>>
      BY <1>14, <2>2 DEF CWait2, clientFlags
    <3> QED
      BY <2>2, <3>1, ClientStaysAtRest
  <2>3. CASE t # Center /\ t # Leader
    <3>1. CGoto(t, "wait2", "sci") /\ UNCHANGED <<Cf1, Cf2>>
      BY <1>14, <2>3 DEF CWait2, clientFlags
    <3> QED
      BY <2>3, <3>1, ClientStaysAtRest
  <2> QED
    BY <2>1, <2>2, <2>3
<1> QED
  BY <1>2, <1>3, <1>4, <1>5, <1>6, <1>7, <1>8, <1>9, <1>10, <1>11, <1>12, <1>13, <1>14
     DEF Client

\* Each of the servers' steps counts or resets at its own site only.
LEMMA ServerRest ==
  ASSUME Sides, ServerMeets, ServerAtRest, NEW t \in Threads, Server(t)
  PROVE  ServerAtRest'
<1> USE ServerSites, LaterServerSites DEF StaysZero
<1>1. /\ spc[t] \in SCenterOnly => t = Center
      /\ spc[t] \in SLeaderOnly => t # Center
      /\ spc[t] \in SNotCenter => t \in Others
      /\ t \in Others \cup {Center}
  BY Roles DEF Sides, Others
<1>2. CASE SRecvKey(t)
  BY <1>1, <1>2, ServerStaysAtRest DEF SRecvKey, SGoto, SNotCenter, SCenterOnly,
     SLeaderOnly, serverFlags
<1>3. CASE SIncNg(t)
  BY <1>1, <1>3, ServerStaysAtRest DEF SIncNg, SGoto, SNotCenter, SCenterOnly,
     SLeaderOnly, serverFlags
<1>4. CASE SResetNg(t)
  BY <1>1, <1>4, ServerStaysAtRest DEF SResetNg, SGoto, SNotCenter, SCenterOnly,
     SLeaderOnly, serverFlags
<1>5. CASE SEncrypt(t)
  BY <1>1, <1>5, ServerStaysAtRest DEF SEncrypt, SGoto, SNotCenter, SCenterOnly,
     SLeaderOnly, serverFlags
<1>6. CASE SFunc2(t)
  BY <1>1, <1>6, ServerStaysAtRest DEF SFunc2, SGoto, SNotCenter, SCenterOnly,
     SLeaderOnly, serverFlags
<1>7. CASE SOprf1(t)
  BY <1>1, <1>7, ServerStaysAtRest DEF SOprf1, SGoto, SNotCenter, SCenterOnly,
     SLeaderOnly, serverFlags
<1>8. CASE SInc1(t)
  BY <1>1, <1>8, ServerStaysAtRest DEF SInc1, SGoto, SNotCenter, SCenterOnly,
     SLeaderOnly, serverFlags
<1>9. CASE SFunc1(t)
  BY <1>1, <1>9, ServerStaysAtRest DEF SFunc1, SGoto, SNotCenter, SCenterOnly,
     SLeaderOnly, serverFlags
<1>10. CASE SReset1(t)
  BY <1>1, <1>10, ServerStaysAtRest DEF SReset1, SGoto, SNotCenter, SCenterOnly,
     SLeaderOnly, serverFlags
<1>11. CASE SOprf2(t)
  BY <1>1, <1>11, ServerStaysAtRest DEF SOprf2, SGoto, SNotCenter, SCenterOnly,
     SLeaderOnly, serverFlags
<1>12. CASE SSearch(t)
  BY <1>1, <1>12, ServerStaysAtRest DEF SSearch, SGoto, SNotCenter, SCenterOnly,
     SLeaderOnly, serverFlags
<1>13. CASE SSciSend(t)
  BY <1>1, <1>13, ServerStaysAtRest DEF SSciSend, SGoto, SNotCenter, SCenterOnly,
     SLeaderOnly, serverFlags
<1>14. CASE SSciRecv(t)
  BY <1>1, <1>14, ServerStaysAtRest DEF SSciRecv, SGoto, SNotCenter, SCenterOnly,
     SLeaderOnly, serverFlags
<1>15. CASE SInc2(t)
  <2>1. CASE SGoto(t, "inc2", "wait2")
    BY <1>1, <1>15, <2>1, ServerStaysAtRest DEF SInc2, SGoto, SNotCenter, SCenterOnly,
       SLeaderOnly
  <2>2. CASE SGoto(t, "inc3", "wait3")
    BY <1>1, <1>15, <2>2, ServerStaysAtRest DEF SInc2, SGoto, SNotCenter, SCenterOnly,
       SLeaderOnly
  <2> QED
    BY <1>15, <2>1, <2>2 DEF SInc2
<1>16. CASE SReset2(t)
  <2>1. CASE SGoto(t, "reset2", "oprf1")
    BY <1>1, <1>16, <2>1, ServerStaysAtRest DEF SReset2, SGoto, SNotCenter,
       SCenterOnly, SLeaderOnly
  <2>2. CASE SGoto(t, "reset3", "sciSend")
    BY <1>1, <1>16, <2>2, ServerStaysAtRest DEF SReset2, SGoto, SNotCenter,
       SCenterOnly, SLeaderOnly
  <2> QED
    BY <1>16, <2>1, <2>2 DEF SReset2
<1>17. CASE SWaitNg(t)
  <2>1. CASE t = Center
    <3>1. SGoto(t, "waitNg", "resetNg") /\ UNCHANGED <<Sf1, Sf2, Sf2_Ng>>
      BY <1>17, <2>1 DEF SWaitNg, serverFlags
    <3> QED
      BY <2>1, <3>1, ServerStaysAtRest
  <2>2. CASE t # Center
    <3>1. SGoto(t, "waitNg", "encrypt") /\ UNCHANGED <<Sf1, Sf2, Sf2_Ng>>
      BY <1>17, <2>2 DEF SWaitNg, serverFlags
    <3> QED
      BY <2>2, <3>1, ServerStaysAtRest
  <2> QED
    BY <2>1, <2>2
<1>18. CASE SWait2(t)
  <2>1. CASE t = Leader
    <3>1. SGoto(t, "wait2", "func2") /\ UNCHANGED <<Sf1, Sf2, Sf2_Ng>>
      BY <1>18, <2>1 DEF SWait2, serverFlags
    <3> QED
      BY <2>1, <3>1, ServerStaysAtRest
  <2>2. CASE t # Leader /\ t = Center
    <3>1. SGoto(t, "wait2", "wait1") /\ UNCHANGED <<Sf1, Sf2, Sf2_Ng>>
      BY <1>18, <2>2 DEF SWait2, serverFlags
    <3> QED
      BY <2>2, <3>1, ServerStaysAtRest
  <2>3. CASE t # Leader /\ t # Center
    <3>1. SGoto(t, "wait2", "oprf1") /\ UNCHANGED <<Sf1, Sf2, Sf2_Ng>>
      BY <1>18, <2>3 DEF SWait2, serverFlags
    <3> QED
      BY <2>3, <3>1, ServerStaysAtRest
  <2> QED
    BY <2>1, <2>2, <2>3
<1>19. CASE SWait1(t)
  <2>1. CASE t = Center
    <3>1. SGoto(t, "wait1", "func1") /\ UNCHANGED <<Sf1, Sf2, Sf2_Ng>>
      BY <1>19, <2>1 DEF SWait1, serverFlags
    <3> QED
      BY <2>1, <3>1, ServerStaysAtRest
  <2>2. CASE t # Center
    <3>1. SGoto(t, "wait1", "inc3") /\ UNCHANGED <<Sf1, Sf2, Sf2_Ng>>
      BY <1>19, <2>2 DEF SWait1, serverFlags
    <3> QED
      BY <2>2, <3>1, ServerStaysAtRest
  <2> QED
    BY <2>1, <2>2
<1>20. CASE SWait3(t)
  <2>1. CASE t = Center
    <3>1. SGoto(t, "wait3", "reset3") /\ UNCHANGED <<Sf1, Sf2, Sf2_Ng>>
      BY <1>20, <2>1 DEF SWait3, serverFlags
    <3> QED
      BY <2>1, <3>1, ServerStaysAtRest
  <2>2. CASE t # Center /\ t = Leader
    <3>1. SGoto(t, "wait3", "search") /\ UNCHANGED <<Sf1, Sf2, Sf2_Ng>>
      BY <1>20, <2>2 DEF SWait3, serverFlags
    <3> QED
      BY <2>2, <3>1, ServerStaysAtRest
  <2>3. CASE t # Center /\ t # Leader
    <3>1. SGoto(t, "wait3", "sciSend") /\ UNCHANGED <<Sf1, Sf2, Sf2_Ng>>
      BY <1>20, <2>3 DEF SWait3, serverFlags
    <3> QED
      BY <2>3, <3>1, ServerStaysAtRest
  <2> QED
    BY <2>1, <2>2, <2>3
<1> QED
  BY <1>2, <1>3, <1>4, <1>5, <1>6, <1>7, <1>8, <1>9, <1>10, <1>11, <1>12, <1>13, <1>14,
     <1>15, <1>16, <1>17, <1>18, <1>19, <1>20 DEF Server

\* At the start all flags are 0.
LEMMA InitRest == Init => Rest
BY InitKey DEF Init, Rest, ClientAtRest, ServerAtRest, AtRest

\* A side that does not move stays at rest.
LEMMA AtRestStays ==
  /\ ClientAtRest /\ UNCHANGED <<cpc, Cf1, Cf2>> => ClientAtRest'
  /\ ServerAtRest /\ UNCHANGED <<spc, Sf1, Sf2, Sf2_Ng>> => ServerAtRest'
<1>1. ClientAtRest /\ UNCHANGED <<cpc, Cf1, Cf2>> => ClientAtRest'
  BY DEF ClientAtRest, AtRest, Inside, ClientSite1, ClientSite2
<1>2. ServerAtRest /\ UNCHANGED <<spc, Sf1, Sf2, Sf2_Ng>> => ServerAtRest'
  BY DEF ServerAtRest, AtRest, Inside, ServerSiteNg, ServerSite1, ServerSite2, ServerSite3
<1> QED
  BY <1>1, <1>2

\* Every step keeps the flags at rest.
LEMMA NextRest == RunData /\ KeyInvariant' /\ Rest /\ [Next]_vars => Rest'
<1> SUFFICES ASSUME RunData, KeyInvariant', Rest, [Next]_vars PROVE Rest'
  OBVIOUS
<1> USE DEF RunData, Rest, RunInvariant
<1>1. CASE UNCHANGED vars
  <2>1. UNCHANGED <<cpc, Cf1, Cf2>> /\ UNCHANGED <<spc, Sf1, Sf2, Sf2_Ng, ng, corr>>
    BY <1>1 DEF vars, clientVars, clientFlags, serverVars, serverFlags, serverTables, netVars
  <2>2. ClientAtRest' /\ ServerAtRest'
    BY <2>1, AtRestStays
  <2> QED
    BY <2>1, <2>2
<1>2. ASSUME NEW t \in Threads, Client(t)
      PROVE  Rest'
  <2>1. ClientAtRest'
    BY <1>2, ClientRest
  <2>2. UNCHANGED serverVars
    BY <1>2 DEF Client, CSendKey, COprf1, CInc1, CWait1, CFunc1, CReset1, COprf2, CInc2,
       CWait2, CReset2, CSend, CRecv, CSci
  <2>3. ServerAtRest' /\ ng' = ng
    BY <2>2, AtRestStays DEF serverVars, serverFlags, serverTables
  <2>4. corr' \in [Threads -> BOOLEAN]
    BY <1>2 DEF Client, CSendKey, COprf1, CInc1, CWait1, CFunc1, CReset1, COprf2, CInc2,
       CWait2, CReset2, CSend, CRecv, CSci, netVars
  <2> QED
    BY <2>1, <2>3, <2>4
<1>3. ASSUME NEW t \in Threads, Server(t)
      PROVE  Rest'
  <2>1. ServerAtRest'
    BY <1>3, ServerRest
  <2>2. UNCHANGED clientVars
    BY <1>3 DEF Server, SRecvKey, SIncNg, SWaitNg, SResetNg, SEncrypt, SInc2, SWait2,
       SFunc2, SReset2, SOprf1, SInc1, SWait1, SFunc1, SReset1, SOprf2, SWait3, SSearch,
       SSciSend, SSciRecv
  <2>3. ClientAtRest'
    BY <2>2, AtRestStays DEF clientVars, clientFlags
  <2>4. corr' \in [Threads -> BOOLEAN]
    BY <1>3 DEF Server, SRecvKey, SIncNg, SWaitNg, SResetNg, SEncrypt, SInc2, SWait2,
       SFunc2, SReset2, SOprf1, SInc1, SWait1, SFunc1, SReset1, SOprf2, SWait3, SSearch,
       SSciSend, SSciRecv, netVars
  <2>5. ng' \in {Key, NoKey}
    <3>1. CASE SRecvKey(t)
      <4>1. t = Leader /\ spc'[Leader] = "incNg"
        BY <3>1 DEF SRecvKey, SGoto, Sides, SLeaderOnly
      <4> QED
        BY <4>1 DEF KeyInvariant, KeyUnderWay
    <3>2. CASE ~SRecvKey(t)
      BY <1>3, <3>2 DEF Server, SIncNg, SWaitNg, SResetNg, SEncrypt, SInc2, SWait2,
         SFunc2, SReset2, SOprf1, SInc1, SWait1, SFunc1, SReset1, SOprf2, SWait3, SSearch,
         SSciSend, SSciRecv, serverTables
    <3> QED
      BY <3>1, <3>2
  <2> QED
    BY <2>1, <2>3, <2>4, <2>5
<1> QED
  BY <1>1, <1>2, <1>3 DEF Next, Exit

\* What the tables hold are items under no key, one key or two.
LEMMA RowTypes ==
  ASSUME NEW t \in Threads
  PROVE  /\ asked[t] \in Entries /\ Encoded(t) \in Entries
         /\ held[t] \in Seq(Entries) /\ EncodedRow(t) \in Seq(Entries)
<1>1. /\ t + 1 \in 1..N /\ 1 \in 1..N /\ Center \in Threads
      /\ <<t, 1>> \in Keys /\ <<Center, t + 1>> \in Keys
  BY ProtocolAssumption, Roles DEF Threads, Keys
<1>2. QueryItem \in Item /\ \A k \in 1..SNELES : k \in Item
  BY ProtocolAssumption DEF Item
<1>3. ASSUME NEW x \in Item
      PROVE  /\ <<x>> \in Entries
             /\ Oprf(t, 1, <<x>>) \in Entries
             /\ Oprf(Center, t + 1, <<x>>) \in Entries
             /\ Oprf(Center, t + 1, Oprf(t, 1, <<x>>)) \in Entries
  <2> DEFINE a == <<t, 1>>
             b == <<Center, t + 1>>
  <2>1. a \in Keys /\ b \in Keys
    BY <1>1
  <2>2. /\ Oprf(t, 1, <<x>>) = Append(<<x>>, a)
        /\ Oprf(Center, t + 1, <<x>>) = Append(<<x>>, b)
        /\ Oprf(Center, t + 1, Oprf(t, 1, <<x>>)) = Append(Append(<<x>>, a), b)
    BY DEF Oprf
  <2> HIDE DEF a, b
  <2>3. /\ Append(<<x>>, a) = <<x, a>> /\ Append(<<x>>, b) = <<x, b>>
        /\ Append(<<x, a>>, b) = <<x, a, b>>
    <3> DEFINE S == {x, a, b}
    <3>1. <<x, a>> \in Seq(S) /\ <<x, a, b>> \in Seq(S) /\ b \in S
      OBVIOUS
    <3>2. /\ Len(<<x, a>>) = 2 /\ Len(<<x, a, b>>) = 3
          /\ <<x, a>>[1] = x /\ <<x, a>>[2] = a
          /\ <<x, a, b>>[1] = x /\ <<x, a, b>>[2] = a /\ <<x, a, b>>[3] = b
      OBVIOUS
    <3>3. Append(<<x, a>>, b) = <<x, a, b>>
      BY <3>1, <3>2, ThirdEntry
    <3>4. Append(<<x>>, a) = <<x, a>> /\ Append(<<x>>, b) = <<x, b>>
      <4>1. /\ <<x>> \in Seq(S) /\ <<x, a>> \in Seq(S) /\ <<x, b>> \in Seq(S)
            /\ a \in S /\ b \in S
        OBVIOUS
      <4>2. /\ Len(<<x>>) = 1 /\ Len(<<x, a>>) = 2 /\ Len(<<x, b>>) = 2
            /\ <<x>>[1] = x /\ <<x, a>>[1] = x /\ <<x, b>>[1] = x
            /\ <<x, a>>[2] = a /\ <<x, b>>[2] = b
        OBVIOUS
      <4> HIDE DEF S
      <4> QED
        BY <4>1, <4>2, SecondEntry
    <3> QED
      BY <3>3, <3>4
  <2>4. /\ <<x>> \in {<<y>> : y \in Item}
        /\ <<x, a>> \in Item \X Keys /\ <<x, b>> \in Item \X Keys
        /\ <<x, a, b>> \in Item \X Keys \X Keys
    BY <2>1
  <2> QED
    BY <2>2, <2>3, <2>4 DEF Entries
<1>4. asked[t] \in Entries /\ Encoded(t) \in Entries
  BY <1>2, <1>3 DEF asked, Encoded
<1>5. \A k \in 1..SNELES : held[t][k] \in Entries /\ EncodedRow(t)[k] \in Entries
  BY <1>2, <1>3 DEF held, EncodedRow, LookedUp
<1>6. /\ held[t] = [k \in 1..SNELES |-> held[t][k]]
      /\ EncodedRow(t) = [k \in 1..SNELES |-> EncodedRow(t)[k]]
  BY DEF held, EncodedRow, LookedUp
<1>7. ASSUME NEW row, row = [k \in 1..SNELES |-> row[k]], \A k \in 1..SNELES : row[k] \in Entries
      PROVE  row \in Seq(Entries)
  <2>1. row \in [1..SNELES -> Entries] /\ SNELES \in Nat
    BY <1>7, ProtocolAssumption
  <2> HIDE DEF Entries
  <2> QED
    BY <2>1
<1> QED
  BY <1>4, <1>5, <1>6, <1>7

\* A row of ciphers has the type of one.
LEMMA EncryptType ==
  ASSUME NEW t \in Threads
  PROVE  encrypt(Key, t) \in Seq(Cipher)
<1>1. \A k \in 1..SNELES : Payload[t][k] \in 0..PaillierN-1
  BY Smpaq1Assumption
<1>2. \A k \in 1..SNELES : [key |-> Key, plain |-> Payload[t][k]] \in Cipher
  BY <1>1 DEF Cipher
<1>3. encrypt(Key, t) \in [1..SNELES -> Cipher] /\ SNELES \in Nat
  BY <1>2, ProtocolAssumption DEF encrypt
<1> HIDE DEF Cipher
<1> QED
  BY <1>3

\* The tables, the ciphers, the flags and the report have their types.
LEMMA Typed ==
  ASSUME RunData, Rest
  PROVE  TypeOK
<1> USE DEF RunData, RunInvariant
<1>1. cpc \in [Threads -> Range(COrder)] /\ spc \in [Threads -> Range(SOrder)]
  BY DEF Sides
<1>2. N \in Nat /\ N - 1 \in Nat /\ Cardinality(Others) = N-1 /\ Cardinality(Threads) = N
  BY ProtocolAssumption, Counts
<1>3. Cf1 \in 0..N-1 /\ Cf2 \in 0..N-1
  BY <1>2, AreSites, ClientSites, FlagBound DEF ClientMeets, Rest, ClientAtRest
<1>4. Sf1 \in 0..N-1 /\ Sf2_Ng \in 0..N-1
  BY <1>2, AreSites, ServerSites, LaterServerSites, FlagBound
     DEF ServerMeets, Rest, ServerAtRest
<1>5. Sf2 \in 0..N
  <2>1. CASE spc[Leader] \in Inside(ServerSite2)
    <3>1. AtRest(ServerSite2, spc, Sf2) /\ Meets(ServerSite2, spc, Sf2)
      BY <2>1, ServerSites DEF AtRest, ServerMeets
    <3> QED
      BY <1>2, <3>1, AreSites, ServerSites, FlagBound
  <2>2. CASE spc[Leader] \notin Inside(ServerSite2)
    <3>1. AtRest(ServerSite3, spc, Sf2) /\ Meets(ServerSite3, spc, Sf2)
      BY <2>2 DEF Again, ServerMeets, Rest, ServerAtRest
    <3>2. Sf2 \in 0..N-1
      BY <1>2, <3>1, AreSites, LaterServerSites, FlagBound
    <3> QED
      BY <1>2, <3>2
  <2> QED
    BY <2>1, <2>2
<1>6. clientID \in Tables
  <2>1. \A t \in Threads : <<asked[t]>> \in Seq(Entries) /\ <<Encoded(t)>> \in Seq(Entries)
                           /\ <<>> \in Seq(Entries)
    BY RowTypes
  <2>2. \A t \in Threads : CRow(cpc, t) \in Seq(Entries)
    BY <2>1 DEF CRow
  <2> QED
    BY <2>2 DEF DataInvariant, ClientRows, Tables
<1>7. serverID \in Tables
  <2>1. \A t \in Threads : SRow(spc, t) \in Seq(Entries)
    BY RowTypes DEF SRow
  <2> QED
    BY <2>1 DEF DataInvariant, ServerRows, Tables
<1>8. /\ csv \in [Threads -> Seq(Cipher)] /\ serverData \in [Threads -> Seq(Cipher)]
      /\ dataOfPsm2 \in [Threads -> Seq(Cipher)]
  <2>1. ASSUME NEW t \in Threads
        PROVE  /\ csv[t] \in Seq(Cipher) /\ Cipher1(spc, t) \in Seq(Cipher)
               /\ Copied(spc, t) \in Seq(Cipher)
    <3>1. encrypt(Key, t) \in Seq(Cipher) /\ <<>> \in Seq(Cipher)
      BY EncryptType
    <3>2. csv[t] = <<>> \/ csv[t] = encrypt(Key, t)
      BY DEF DataInvariant, Files
    <3> QED
      BY <3>1, <3>2 DEF Cipher1, Copied
  <2> QED
    BY <2>1 DEF DataInvariant, Files, Ciphers
<1>9. reports \in Seq(0..PaillierN-1)
  <2>1. Total \in Int
    <3> DEFINE p == [t \in Threads |-> Payload[t][QueryItem]]
    <3>1. \A t \in Found : p[t] \in Int
      BY ProtocolAssumption, Smpaq1Assumption DEF Found
    <3> HIDE DEF p
    <3>2. SumFunctionOnSet(p, Found) \in Int
      BY <3>1, FiniteThreads, SumInt
    <3> QED
      BY <3>2 DEF p, Total
  <2>2. Total % PaillierN \in 0..PaillierN-1
    BY <2>1, Modulo, Smpaq1Assumption
  <2>3. reports = <<>> \/ reports = <<Total % PaillierN>>
    BY DEF DataInvariant, Reported
  <2> DEFINE v == Total % PaillierN
  <2>4. v \in 0..PaillierN-1 /\ (reports = <<>> \/ reports = <<v>>)
    BY <2>2, <2>3
  <2> DEFINE S == 0..PaillierN-1
  <2> HIDE DEF v, S
  <2>5. v \in S /\ (reports = <<>> \/ reports = <<v>>)
    BY <2>4 DEF S
  <2>6. reports \in Seq(S)
    BY <2>5, NoneOrOne
  <2> QED
    BY <2>6 DEF S
<1> QED
  BY <1>1, <1>3, <1>4, <1>5, <1>6, <1>7, <1>8, <1>9 DEF TypeOK, Rest

\* THEOREM (types). Every variable keeps its type: no flag exceeds the number of
\* threads that count at its site, and the tables hold rows of PRF entries.
THEOREM TypeCorrect == Spec => []TypeOK
<1>2. Spec => []RunData
  BY RunInvariance, KeyInvariance, DataInvariance, PTL DEF RunData
<1>3. RunData => KeyInvariant
  BY DEF RunData
<1>4. RunData /\ Rest => TypeOK
  BY Typed
<1>5. RunData /\ KeyInvariant' /\ Rest /\ [Next]_vars => Rest'
  BY NextRest
<1>6. Spec => []Rest
  BY <1>2, <1>3, <1>5, InitRest, PTL DEF Spec
<1> QED
  BY <1>2, <1>4, <1>6, PTL
=============================================================================
