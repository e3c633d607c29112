------------------------------- MODULE Smpaq2 -------------------------------
(***************************************************************************)
(* One run of SMPAQ2 (run_smpaq in common/functionalities.cpp): a client   *)
(* process and a server process of N threads each, from the moment the     *)
(* threads are connected to the end of the thread function.                *)
(*                                                                         *)
(* Each server splits every payload into two random shares.  The leader    *)
(* and the center of the client (the two parties) each look all rows up    *)
(* through the matching server thread, which adds up its share of what     *)
(* matches; the center's client thread adds the two sums and reports.      *)
(*                                                                         *)
(* Threads of a process meet at call sites of waitFor.  The second and the *)
(* third site of the client use one flag, Cf2, and so do those of the      *)
(* server, Sf2.                                                            *)
(***************************************************************************)
EXTENDS Protocol

CONSTANTS Payload,   \* generateData: the payload of each element per server
          Masks,     \* what the random generator returns
          Word       \* 2^64, the modulus of uint64_t

ASSUME Smpaq2Assumption ==
  /\ Word \in Nat \ {0}
  /\ Masks \subseteq 0..Word-1 /\ Masks # {}
  /\ Payload \in [Threads -> [1..SNELES -> 0..Word-1]]

VARIABLES
  cpc,               \* client: where each thread is
  Cf1, Cf2,          \* client: the flags of its three sites
  clientID,          \* client: rows after the first PRF
  clientID_party,    \* client: clientID_center and clientID_leader
  g_sum,             \* client: g_sum_center and g_sum_leader
  g_received_count,  \* client: how many sums are in
  reports,           \* client: the totals printed
  warned,            \* client: "warn: waitFor but g_received_count ..."
  spc,               \* server: where each thread is
  Sf1, Sf2,          \* server: the flags of its three sites
  serverID,          \* server: rows after the first PRF
  serverID_party,    \* server: serverID_center and serverID_leader
  serverData_party,  \* server: serverData_center and serverData_leader
  corr,              \* per OT channel: a correction is under way
  up, down           \* per socket: messages to the server, to the client

clientData  == <<clientID, clientID_party, g_sum, g_received_count, reports,
                 warned>>
clientFlags == <<Cf1, Cf2>>
clientVars  == <<cpc, clientFlags, clientData>>
serverData  == <<serverID, serverID_party, serverData_party>>
serverFlags == <<Sf1, Sf2>>
serverVars  == <<spc, serverFlags, serverData>>
netVars     == <<corr, up, down>>
vars        == <<clientVars, serverVars, netVars>>

\* The labels of a client thread and of a server thread, in program order.
COrder == <<"oprf1", "inc1", "wait1", "func1", "reset1",
            "oprf2", "inc2", "wait2", "func2", "reset2",
            "send", "recv", "count", "inc3", "wait3", "func3", "reset3",
            "sci", "done">>
SOrder == <<"oprf1", "inc1", "wait1", "func1", "reset1", "share",
            "inc2", "wait2", "reset2",
            "oprf2", "inc3", "wait3", "func3", "reset3",
            "search", "sciSend", "sciRecv", "done">>

Init ==
  /\ cpc = [t \in Threads |-> "oprf1"] /\ Cf1 = 0 /\ Cf2 = 0
  /\ clientID = EmptyTable /\ clientID_party = [p \in Parties |-> EmptyTable]
  /\ g_sum = [p \in Parties |-> 0] /\ g_received_count = 0
  /\ reports = <<>> /\ warned = FALSE
  /\ spc = [t \in Threads |-> "oprf1"] /\ Sf1 = 0 /\ Sf2 = 0
  /\ serverID = EmptyTable /\ serverID_party = [p \in Parties |-> EmptyTable]
  /\ serverData_party = [p \in Parties |-> EmptyTable]
  /\ corr = [t \in Threads |-> FALSE]
  /\ up = [t \in Threads |-> <<>>] /\ down = [t \in Threads |-> <<>>]
-----------------------------------------------------------------------------
(* The client process.                                                     *)

CGoto(t, from, to) == cpc[t] = from /\ cpc' = [cpc EXCEPT ![t] = to]

\* ot_receiver meets ot_sender of the same thread number (base OTs), sends the
\* correction and returns; the result goes into clientID.
COprf1(t) ==
  /\ CGoto(t, "oprf1", "inc1")
  /\ spc[t] = "oprf1" /\ ~corr[t]
  /\ corr' = [corr EXCEPT ![t] = TRUE]
  /\ clientID' = [clientID EXCEPT ![t] = ot_receiver(t, queryRow)]
  /\ UNCHANGED <<clientFlags, clientID_party, g_sum, g_received_count, reports,
                 warned, serverVars, up, down>>

\* flag++ before each site; only the parties count at the second and third.
CInc1(t) ==
  /\ CGoto(t, "inc1", "wait1")
  /\ Cf1' = Cf1 + 1
  /\ UNCHANGED <<Cf2, clientData, serverVars, netVars>>

\* Lines 273 and 315: the party counts itself at the second and third site.
CInc2(t) ==
  /\ CGoto(t, "inc2", "wait2") \/ CGoto(t, "inc3", "wait3")
  /\ Cf2' = Cf2 + 1
  /\ UNCHANGED <<Cf1, clientData, serverVars, netVars>>

\* After the first site the parties run the second PRF, the others do not.
AfterSite1(t) == IF t \in Parties THEN "oprf2" ELSE "wait2"

\* Mutant: the center goes on one arrival too early.
CWait1_OffByOne(t) ==
  /\ Quits(Cf1, t = Center, N-1)
  /\ CGoto(t, "wait1", IF t = Center THEN "func1" ELSE AfterSite1(t))
  /\ UNCHANGED <<clientFlags, clientData, serverVars, netVars>>

\* The polls that succeed.  The center is special at all three sites.
CWait1(t) ==
  /\ Quits(Cf1, t = Center, N)
  /\ CGoto(t, "wait1", IF t = Center THEN "func1" ELSE AfterSite1(t))
  /\ UNCHANGED <<clientFlags, clientData, serverVars, netVars>>

CWait2(t) ==
  /\ Quits(Cf2, t = Center, 2)
  /\ CGoto(t, "wait2", IF t = Center THEN "func2"
                       ELSE IF t = Leader THEN "send" ELSE "wait3")
  /\ UNCHANGED <<clientFlags, clientData, serverVars, netVars>>

\* Mutant: the center reports when one sum is in.
CWait3_OffByOne(t) ==
  /\ Quits(Cf2, t = Center, 1)
  /\ CGoto(t, "wait3", IF t = Center THEN "func3" ELSE "sci")
  /\ UNCHANGED <<clientFlags, clientData, serverVars, netVars>>

CWait3(t) ==
  /\ Quits(Cf2, t = Center, 2)
  /\ CGoto(t, "wait3", IF t = Center THEN "func3" ELSE "sci")
  /\ UNCHANGED <<clientFlags, clientData, serverVars, netVars>>

\* The function of the first and of the second site resets the flag, and then
\* waitFor resets it once more, as it does after the third site's function.
CReset1(t) ==
  /\ CGoto(t, "func1", "reset1") \/ CGoto(t, "reset1", AfterSite1(t))
  /\ Cf1' = 0
  /\ UNCHANGED <<Cf2, clientData, serverVars, netVars>>

CReset2(t) ==
  /\ \/ CGoto(t, "func2", "reset2") \/ CGoto(t, "reset2", "send")
     \/ CGoto(t, "reset3", "sci")
  /\ Cf2' = 0
  /\ UNCHANGED <<Cf1, clientData, serverVars, netVars>>

\* The second PRF over all of clientID, in the party's own channel.
COprf2(t) ==
  /\ CGoto(t, "oprf2", "inc2")
  /\ spc[t] = "oprf2" /\ ~corr[t]
  /\ corr' = [corr EXCEPT ![t] = TRUE]
  /\ clientID_party' =
       [clientID_party EXCEPT ![t] =
          AddRows(@, AsRows(ot_receiver(t, flatten(clientID))))]
  /\ UNCHANGED <<clientFlags, clientID, g_sum, g_received_count, reports,
                 warned, serverVars, up, down>>

\* A party sends the identifiers and waits for its sum.
CSend(t) ==
  /\ CGoto(t, "send", "recv")
  /\ up' = [up EXCEPT ![t] = Append(@, ids(flatten(clientID_party[t])))]
  /\ UNCHANGED <<clientFlags, clientData, serverVars, corr, down>>

CRecv(t) ==
  /\ CGoto(t, "recv", "count")
  /\ down[t] # <<>>
  /\ g_sum' = [g_sum EXCEPT ![t] = Head(down[t]).body]
  /\ down' = [down EXCEPT ![t] = Tail(@)]
  /\ UNCHANGED <<clientFlags, clientID, clientID_party, g_received_count,
                 reports, warned, serverVars, corr, up>>

CCount(t) ==
  /\ CGoto(t, "count", "inc3")
  /\ g_received_count' = g_received_count + 1
  /\ UNCHANGED <<clientFlags, clientID, clientID_party, g_sum, reports, warned,
                 serverVars, netVars>>

\* The function of the third site: report the total, or warn; then reset.
CFunc3(t) ==
  /\ CGoto(t, "func3", "reset3")
  /\ Cf2' = 0
  /\ \/ /\ g_received_count = 2
        /\ reports' = Append(reports, (g_sum[Center] + g_sum[Leader]) % Word)
        /\ g_sum' = [p \in Parties |-> 0]
        /\ g_received_count' = 0
        /\ UNCHANGED warned
     \/ /\ g_received_count # 2
        /\ warned' = TRUE
        /\ UNCHANGED <<g_sum, g_received_count, reports>>
  /\ UNCHANGED <<Cf1, clientID, clientID_party, serverVars, netVars>>

\* The statistics exchange that ends every thread: receive, then send.
CSci(t) ==
  /\ CGoto(t, "sci", "done")
  /\ down[t] # <<>>
  /\ down' = [down EXCEPT ![t] = Tail(@)]
  /\ up' = [up EXCEPT ![t] = Append(@, sci)]
  /\ UNCHANGED <<clientFlags, clientData, serverVars, corr>>

Client(t) ==
  \/ COprf1(t) \/ CInc1(t) \/ CWait1(t) \/ CReset1(t)
  \/ COprf2(t) \/ CInc2(t) \/ CWait2(t) \/ CReset2(t)
  \/ CSend(t) \/ CRecv(t) \/ CCount(t)
  \/ CWait3(t) \/ CFunc3(t) \/ CSci(t)
-----------------------------------------------------------------------------
(* The server process.                                                     *)

SGoto(t, from, to) == spc[t] = from /\ spc' = [spc EXCEPT ![t] = to]

\* ot_sender returns when the correction is in; the result goes into serverID.
SOprf1(t) ==
  /\ SGoto(t, "oprf1", "inc1")
  /\ corr[t]
  /\ corr' = [corr EXCEPT ![t] = FALSE]
  /\ serverID' = [serverID EXCEPT ![t] =
       fromServerOprfData(ot_sender(t, <<elementsRow>>, 1), 1)[1]]
  /\ UNCHANGED <<clientVars, serverFlags, serverID_party, serverData_party,
                 up, down>>

\* flag++ before each site; only the parties count at the third.
SInc1(t) ==
  /\ SGoto(t, "inc1", "wait1")
  /\ Sf1' = Sf1 + 1
  /\ UNCHANGED <<clientVars, Sf2, serverData, netVars>>

\* Lines 529 and 563: everybody at the second site, the parties at the third.
SInc2(t) ==
  /\ SGoto(t, "inc2", "wait2") \/ SGoto(t, "inc3", "wait3")
  /\ Sf2' = Sf2 + 1
  /\ UNCHANGED <<clientVars, Sf1, serverData, netVars>>

\* The polls that succeed.  The center is special at the first and at the
\* third site, the leader at the second.
SWait1(t) ==
  /\ Quits(Sf1, t = Center, N)
  /\ SGoto(t, "wait1", IF t = Center THEN "func1" ELSE "share")
  /\ UNCHANGED <<clientVars, serverFlags, serverData, netVars>>

\* Mutant: the leader goes on one arrival too early.
SWait2_OffByOne(t) ==
  /\ Quits(Sf2, t = Leader, N-1)
  /\ SGoto(t, "wait2", IF t = Leader THEN "reset2"
                       ELSE IF t = Center THEN "oprf2" ELSE "wait3")
  /\ UNCHANGED <<clientVars, serverFlags, serverData, netVars>>

SWait2(t) ==
  /\ Quits(Sf2, t = Leader, N)
  /\ SGoto(t, "wait2", IF t = Leader THEN "reset2"
                       ELSE IF t = Center THEN "oprf2" ELSE "wait3")
  /\ UNCHANGED <<clientVars, serverFlags, serverData, netVars>>

\* Mutant: the leader's branch of the search is missing.
SWait3_CenterOnly(t) ==
  /\ Quits(Sf2, t = Center, 2)
  /\ SGoto(t, "wait3", IF t = Center THEN "func3" ELSE "sciSend")
  /\ UNCHANGED <<clientVars, serverFlags, serverData, netVars>>

SWait3(t) ==
  /\ Quits(Sf2, t = Center, 2)
  /\ SGoto(t, "wait3", IF t = Center THEN "func3"
                       ELSE IF t = Leader THEN "search" ELSE "sciSend")
  /\ UNCHANGED <<clientVars, serverFlags, serverData, netVars>>

\* The center's functions reset, and waitFor once more; the leader's is empty.
SReset1(t) ==
  /\ SGoto(t, "func1", "reset1") \/ SGoto(t, "reset1", "share")
  /\ Sf1' = 0
  /\ UNCHANGED <<clientVars, Sf2, serverData, netVars>>

\* Mutant: the leader leaves the flag as it is.
SReset2_Forgotten(t) ==
  /\ \/ SGoto(t, "reset2", "oprf2") /\ UNCHANGED Sf2
     \/ SGoto(t, "func3", "reset3") /\ Sf2' = 0
     \/ SGoto(t, "reset3", "search") /\ Sf2' = 0
  /\ UNCHANGED <<clientVars, Sf1, serverData, netVars>>

SReset2(t) ==
  /\ \/ SGoto(t, "reset2", "oprf2")
     \/ SGoto(t, "func3", "reset3") \/ SGoto(t, "reset3", "search")
  /\ Sf2' = 0
  /\ UNCHANGED <<clientVars, Sf1, serverData, netVars>>

\* Mutant: the leader's share is the payload itself.
SShare_Unmasked(t) ==
  /\ SGoto(t, "share", "inc2")
  /\ \E s1 \in [1..SNELES -> Masks] :
       serverData_party' =
         [serverData_party EXCEPT
            ![Center][t] = s1,
            ![Leader][t] = [k \in 1..SNELES |-> Payload[t][k]]]
  /\ UNCHANGED <<clientVars, serverFlags, serverID, serverID_party, netVars>>

\* Mutant: the subtraction stops at 0 instead of wrapping around.
SShare_Saturating(t) ==
  /\ SGoto(t, "share", "inc2")
  /\ \E s1 \in [1..SNELES -> Masks] :
       serverData_party' =
         [serverData_party EXCEPT
            ![Center][t] = s1,
            ![Leader][t] = [k \in 1..SNELES |-> IF Payload[t][k] < s1[k] THEN 0
                                             ELSE Payload[t][k] - s1[k]]]
  /\ UNCHANGED <<clientVars, serverFlags, serverID, serverID_party, netVars>>

\* Each payload v becomes the shares s1, random, and v - s1 in 64 bits.
SShare(t) ==
  /\ SGoto(t, "share", "inc2")
  /\ \E s1 \in [1..SNELES -> Masks] :
       serverData_party' =
         [serverData_party EXCEPT
            ![Center][t] = s1,
            ![Leader][t] = [k \in 1..SNELES |-> (Payload[t][k] - s1[k]) % Word]]
  /\ UNCHANGED <<clientVars, serverFlags, serverID, serverID_party, netVars>>

\* The second PRF over all of serverID; the parties' own copies of the result
\* have as many rows as a server has elements.
SOprf2(t) ==
  /\ SGoto(t, "oprf2", "inc3")
  /\ corr[t]
  /\ corr' = [corr EXCEPT ![t] = FALSE]
  /\ serverID_party' =
       [serverID_party EXCEPT ![t] =
          AddRows(@, fromServerOprfData(ot_sender(t, Rows(serverID), N), SNELES))]
  /\ UNCHANGED <<clientVars, serverFlags, serverID, serverData_party, up, down>>

\* Mutant: the sum is kept in a wider type than it is sent in.
SSearch_Wide(t) ==
  /\ SGoto(t, "search", "sciSend")
  /\ up[t] # <<>>
  /\ up' = [up EXCEPT ![t] = Tail(@)]
  /\ down' = [down EXCEPT ![t] =
       Append(@, number(MatchSum(Head(up[t]).body, serverID_party[t],
                                 serverData_party[t])))]
  /\ UNCHANGED <<clientVars, serverFlags, serverData, corr>>

\* Receive the identifiers, add up the shares of what matches, send the sum.
SSearch(t) ==
  /\ SGoto(t, "search", "sciSend")
  /\ up[t] # <<>>
  /\ up' = [up EXCEPT ![t] = Tail(@)]
  /\ down' = [down EXCEPT ![t] =
       Append(@, number(MatchSum(Head(up[t]).body, serverID_party[t],
                                 serverData_party[t]) % Word))]
  /\ UNCHANGED <<clientVars, serverFlags, serverData, corr>>

\* The statistics exchange: send, then receive.
SSciSend(t) ==
  /\ SGoto(t, "sciSend", "sciRecv")
  /\ down' = [down EXCEPT ![t] = Append(@, sci)]
  /\ UNCHANGED <<clientVars, serverFlags, serverData, corr, up>>

SSciRecv(t) ==
  /\ SGoto(t, "sciRecv", "done")
  /\ up[t] # <<>>
  /\ up' = [up EXCEPT ![t] = Tail(@)]
  /\ UNCHANGED <<clientVars, serverFlags, serverData, corr, down>>

Server(t) ==
  \/ SOprf1(t) \/ SInc1(t) \/ SWait1(t) \/ SReset1(t)
  \/ SShare(t) \/ SInc2(t) \/ SWait2(t) \/ SReset2(t)
  \/ SOprf2(t) \/ SWait3(t)
  \/ SSearch(t) \/ SSciSend(t) \/ SSciRecv(t)
-----------------------------------------------------------------------------
Next == \E t \in Threads : Client(t) \/ Server(t)

Spec == Init /\ [][Next]_vars

\* The operating system schedules every thread of both processes.
FairSpec == Spec /\ \A t \in Threads : WF_vars(Client(t)) /\ WF_vars(Server(t))
-----------------------------------------------------------------------------
TypeOK ==
  /\ cpc \in [Threads -> Range(COrder)] /\ Cf1 \in 0..N /\ Cf2 \in 0..2
  /\ clientID \in Tables /\ clientID_party \in [Parties -> Tables]
  /\ g_sum \in [Parties -> 0..Word-1] /\ g_received_count \in 0..2
  /\ reports \in Seq(0..Word-1) /\ warned \in BOOLEAN
  /\ spc \in [Threads -> Range(SOrder)] /\ Sf1 \in 0..N /\ Sf2 \in 0..N
  /\ serverID \in Tables /\ serverID_party \in [Parties -> Tables]
  /\ serverData_party \in [Parties -> [Threads -> Seq(0..Word-1)]]
  /\ corr \in [Threads -> BOOLEAN]

(* A thread has gone past a label of its own straight line of labels.      *)
Place(order, label) == CHOOSE i \in DOMAIN order : order[i] = label
CPast(t, label) == Place(COrder, cpc[t]) > Place(COrder, label)
SPast(t, label) == Place(SOrder, spc[t]) > Place(SOrder, label)

(* The call sites of waitFor as rendezvous: who has arrived, whether the   *)
(* special thread's function has run, and who has gone on.                 *)
CSite1 == INSTANCE Rendezvous
  WITH Special <- Center, Arrivers <- Threads,
       arrived <- {t \in Threads : CPast(t, "inc1")},
       ran     <- CPast(Center, "func1"),
       left    <- {t \in Threads : CPast(t, "reset1")}
CSite2 == INSTANCE Rendezvous
  WITH Special <- Center, Arrivers <- Parties,
       arrived <- {t \in Parties : CPast(t, "inc2")},
       ran     <- CPast(Center, "func2"),
       left    <- {t \in Threads : CPast(t, "reset2")}
CSite3 == INSTANCE Rendezvous
  WITH Special <- Center, Arrivers <- Parties,
       arrived <- {t \in Parties : CPast(t, "inc3")},
       ran     <- CPast(Center, "func3"),
       left    <- {t \in Threads : CPast(t, "reset3")}
SSite1 == INSTANCE Rendezvous
  WITH Special <- Center, Arrivers <- Threads,
       arrived <- {t \in Threads : SPast(t, "inc1")},
       ran     <- SPast(Center, "func1"),
       left    <- {t \in Threads : SPast(t, "reset1")}
SSite2 == INSTANCE Rendezvous
  WITH Special <- Leader, Arrivers <- Threads,
       arrived <- {t \in Threads : SPast(t, "inc2")},
       ran     <- SPast(Leader, "wait2"),
       left    <- {t \in Threads : SPast(t, "reset2")}
SSite3 == INSTANCE Rendezvous
  WITH Special <- Center, Arrivers <- Parties,
       arrived <- {t \in Parties : SPast(t, "inc3")},
       ran     <- SPast(Center, "func3"),
       left    <- {t \in Threads : SPast(t, "reset3")}

\* Although the second and third sites of a process use one flag, five of the
\* six sites keep the promise of a rendezvous.
SitesAreRendezvous ==
  CSite1!Spec /\ CSite2!Spec /\ SSite1!Spec /\ SSite2!Spec /\ SSite3!Spec

\* The sixth does not: the leader may go past the client's last site alone.
LastSiteIsRendezvous == CSite3!Spec
-----------------------------------------------------------------------------
(* What the sites are for.                                                 *)

\* A party looks up every client row, in every server row: no row is still
\* empty when the second PRF or the search reads the tables (data() takes no
\* lock).  The identifiers sent are exactly n, what the receiver reads.
ReadersSeeAllRows ==
  \A p \in Parties :
    /\ cpc[p] = "oprf2" => \A t \in Threads : clientID[t] # <<>>
    /\ spc[p] = "oprf2" => \A t \in Threads : serverID[t] # <<>>
    /\ spc[p] \in {"oprf2", "search"} =>
         \A q \in Parties, t \in Threads : serverData_party[q][t] # <<>>
    /\ \A i \in DOMAIN up[p] : up[p][i].kind = "ids" => Len(up[p][i].body) = N

\* The receivers take bytes as they come; every message is nevertheless
\* received by the call it was meant for.
SocketsInStep ==
  \A t \in Threads :
    /\ down[t] # <<>> /\ cpc[t] = "recv" => Head(down[t]).kind = "number"
    /\ down[t] # <<>> /\ cpc[t] = "sci" => Head(down[t]).kind = "sci"
    /\ up[t] # <<>> /\ spc[t] = "search" => Head(up[t]).kind = "ids"
    /\ up[t] # <<>> /\ spc[t] = "sciRecv" => Head(up[t]).kind = "sci"

\* No thread of either process comes out of run_smpaq before every thread of
\* both has been through the first PRF, although a bystander passes the last
\* sites freely and no site joins the two processes.
EndsAfterAllBegan ==
  (\E t \in Threads : cpc[t] = "done" \/ spc[t] = "done") =>
    \A t \in Threads : CPast(t, "oprf1") /\ SPast(t, "oprf1")

\* "warn: waitFor but g_received_count ... may be error" is never printed: the
\* function of the last site runs when both sums are in, even in the runs in
\* which the leader does not wait for it.
NeverWarned == ~warned

\* What the client reports, if it reports, is the sum over all the servers,
\* reported once, whatever the masks and although sums and shares wrap around.
Query == INSTANCE AggregateQuery
  WITH Servers <- Threads, Query <- QueryItem, Modulus <- Word,
       contributed <- {t \in Threads : SPast(t, "share")}
ImplementsAggregateQuery == Query!Spec

\* The run may stop for ever only because a flag was used for two sites:
\*  - the center counts itself at the client's third site before the leader
\*    has seen the second one reset, and the leader waits for a 0 that will
\*    not come back;
\*  - the leader counts itself at the third site between the two resets of the
\*    second one, and its count is lost;
\*  - the server's leader counts itself at the third site before the center
\*    has seen the second one reset.
LeaderMissedReset == cpc[Leader] = "wait2" /\ cpc[Center] = "wait3" /\ Cf2 = 1
LeaderCountLost   == CPast(Leader, "inc3") /\ cpc[Center] = "wait3" /\ Cf2 = 1
CenterMissedReset == spc[Center] = "wait2" /\ spc[Leader] = "wait3" /\ Sf2 = 1

Terminated == \A t \in Threads : cpc[t] = "done" /\ spc[t] = "done"

StopsOnlyByReuse ==
  Terminated \/ ENABLED Next
  \/ LeaderMissedReset \/ LeaderCountLost \/ CenterMissedReset

\* A run that is asked for ends.
Termination == <>Terminated
=============================================================================
