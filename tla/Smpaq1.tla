------------------------------- MODULE Smpaq1 -------------------------------
(***************************************************************************)
(* One run of SMPAQ1 (run_smpaq in common/functionalities.cpp): a client   *)
(* process and a server process of N threads each, from the moment the     *)
(* threads are connected to the end of the thread function.                *)
(*                                                                         *)
(* The client's leader sends a Paillier key to the server's leader, every  *)
(* server thread encrypts its payloads under it, the centers look all rows *)
(* up, and the server's leader multiplies the ciphertexts of what matches. *)
(* A ciphertext is the key it was made with and the number in it.          *)
(*                                                                         *)
(* The server meets at four call sites of waitFor, the second and the last *)
(* on one flag, Sf2; the client meets at two.                              *)
(***************************************************************************)
EXTENDS Protocol

CONSTANTS Payload,     \* Paillier::numbers: what each server's elements hold
          PaillierN,   \* the plaintext modulus, n of the key
          Key, NoKey   \* the client's public key; ng before it has arrived

ASSUME Smpaq1Assumption ==
  /\ PaillierN \in Nat \ {0}
  /\ Payload \in [Threads -> [1..SNELES -> 0..PaillierN-1]]
  /\ Key # NoKey

VARIABLES
  cpc,        \* client: where each thread is
  Cf1, Cf2,   \* client: the flags of its two sites
  clientID,   \* client: rows after the first, then after the second PRF
  reports,    \* client: the sums printed
  spc,        \* server: where each thread is
  Sf1, Sf2, Sf2_Ng,   \* server: the flags of its four sites
  ng,         \* server: the public key
  csv,        \* server: Server_Data_EncryptData_<i>.csv, empty if absent
  serverData, \* server: the ciphertexts of each thread
  dataOfPsm2, \* server: the leader's copy of serverData
  serverID,   \* server: rows after the first, then after the second PRF
  corr,       \* per OT channel: a correction is under way
  up, down    \* per socket: messages to the server, to the client

clientFlags == <<Cf1, Cf2>>
clientVars  == <<cpc, clientFlags, clientID, reports>>
serverFlags == <<Sf1, Sf2, Sf2_Ng>>
serverTables == <<ng, csv, serverData, dataOfPsm2, serverID>>
serverVars  == <<spc, serverFlags, serverTables>>
netVars     == <<corr, up, down>>
vars        == <<clientVars, serverVars, netVars>>

\* The labels of a client thread and of a server thread, in program order.
COrder == <<"sendKey", "oprf1", "inc1", "wait1", "func1", "reset1",
            "oprf2", "inc2", "wait2", "reset2", "send", "recv", "sci", "done">>
SOrder == <<"recvKey", "incNg", "waitNg", "resetNg", "encrypt",
            "inc2", "wait2", "func2", "reset2",
            "oprf1", "inc1", "wait1", "func1", "reset1",
            "oprf2", "inc3", "wait3", "reset3",
            "search", "sciSend", "sciRecv", "done">>

encrypt(key, t) == [k \in 1..SNELES |-> [key |-> key, plain |-> Payload[t][k]]]

\* An encrypted-data file is left over from an earlier run with these
\* parameters, or there is none.  The key is built into the program, so the
\* file was written under it.
Init ==
  /\ cpc = [t \in Threads |-> IF t = Leader THEN "sendKey"
                              ELSE IF t = Center THEN "wait1" ELSE "oprf1"]
  /\ Cf1 = 0 /\ Cf2 = 0 /\ clientID = EmptyTable /\ reports = <<>>
  /\ spc = [t \in Threads |-> IF t = Leader THEN "recvKey"
                              ELSE IF t = Center THEN "waitNg" ELSE "incNg"]
  /\ Sf1 = 0 /\ Sf2 = 0 /\ Sf2_Ng = 0 /\ ng = NoKey
  /\ \E old \in SUBSET Threads :
       csv = [t \in Threads |-> IF t \in old THEN encrypt(Key, t) ELSE <<>>]
  /\ serverData = EmptyTable /\ dataOfPsm2 = EmptyTable
  /\ serverID = EmptyTable
  /\ corr = [t \in Threads |-> FALSE]
  /\ up = [t \in Threads |-> <<>>] /\ down = [t \in Threads |-> <<>>]
-----------------------------------------------------------------------------
(* The client process.                                                     *)

CGoto(t, from, to) == cpc[t] = from /\ cpc' = [cpc EXCEPT ![t] = to]

\* The leader sends length and text of its key, which is one message here.
CSendKey(t) ==
  /\ CGoto(t, "sendKey", "oprf1")
  /\ up' = [up EXCEPT ![t] = Append(@, [kind |-> "key", body |-> Key])]
  /\ UNCHANGED <<clientFlags, clientID, reports, serverVars, corr, down>>

\* ot_receiver meets ot_sender of the same thread number (base OTs), sends the
\* correction and returns; the result goes into clientID.
COprf1(t) ==
  /\ CGoto(t, "oprf1", "inc1")
  /\ spc[t] = "oprf1" /\ ~corr[t]
  /\ corr' = [corr EXCEPT ![t] = TRUE]
  /\ clientID' = [clientID EXCEPT ![t] = ot_receiver(t, queryRow)]
  /\ UNCHANGED <<clientFlags, reports, serverVars, up, down>>

CInc1(t) ==
  /\ CGoto(t, "inc1", "wait1")
  /\ Cf1' = Cf1 + 1
  /\ UNCHANGED <<Cf2, clientID, reports, serverVars, netVars>>

CInc2(t) ==
  /\ CGoto(t, "inc2", "wait2")
  /\ Cf2' = Cf2 + 1
  /\ UNCHANGED <<Cf1, clientID, reports, serverVars, netVars>>

\* The polls that succeed.  The center is special at both sites and counts
\* itself at neither.
CWait1(t) ==
  /\ Quits(Cf1, t = Center, N-1)
  /\ CGoto(t, "wait1", IF t = Center THEN "func1" ELSE "inc2")
  /\ UNCHANGED <<clientFlags, clientID, reports, serverVars, netVars>>

\* Mutant: the center goes on one arrival too early.
CWait2_OffByOne(t) ==
  /\ Quits(Cf2, t = Center, N-2)
  /\ CGoto(t, "wait2", IF t = Center THEN "reset2"
                       ELSE IF t = Leader THEN "send" ELSE "sci")
  /\ UNCHANGED <<clientFlags, clientID, reports, serverVars, netVars>>

CWait2(t) ==
  /\ Quits(Cf2, t = Center, N-1)
  /\ CGoto(t, "wait2", IF t = Center THEN "reset2"
                       ELSE IF t = Leader THEN "send" ELSE "sci")
  /\ UNCHANGED <<clientFlags, clientID, reports, serverVars, netVars>>

\* The center's function at the first site puts its own row in, as it is.
CFunc1(t) ==
  /\ CGoto(t, "func1", "reset1")
  /\ clientID' = [clientID EXCEPT ![t] = queryRow]
  /\ UNCHANGED <<clientFlags, reports, serverVars, netVars>>

CReset1(t) ==
  /\ CGoto(t, "reset1", "oprf2")
  /\ Cf1' = 0
  /\ UNCHANGED <<Cf2, clientID, reports, serverVars, netVars>>

CReset2(t) ==
  /\ CGoto(t, "reset2", "sci")
  /\ Cf2' = 0
  /\ UNCHANGED <<Cf1, clientID, reports, serverVars, netVars>>

\* The center runs the second PRF over clientID and puts the result back.
COprf2(t) ==
  /\ CGoto(t, "oprf2", "wait2")
  /\ spc[t] = "oprf2" /\ ~corr[t]
  /\ corr' = [corr EXCEPT ![t] = TRUE]
  /\ clientID' = AddRows(clientID, AsRows(ot_receiver(t, flatten(clientID))))
  /\ UNCHANGED <<clientFlags, reports, serverVars, up, down>>

\* The leader sends the identifiers, and receives and decrypts the product.
CSend(t) ==
  /\ CGoto(t, "send", "recv")
  /\ up' = [up EXCEPT ![t] = Append(@, ids(flatten(clientID)))]
  /\ UNCHANGED <<clientFlags, clientID, reports, serverVars, corr, down>>

\* Mutant: the plaintext is not reduced.
Decrypted_Unreduced(c) == IF c.keys = {Key} THEN {c.plain} ELSE 0..PaillierN-1

\* What was not encrypted under the leader's key decrypts to anything.
Decrypted(c) == IF c.keys = {Key} THEN {c.plain % PaillierN} ELSE 0..PaillierN-1

CRecv(t) ==
  /\ CGoto(t, "recv", "sci")
  /\ down[t] # <<>>
  /\ down' = [down EXCEPT ![t] = Tail(@)]
  /\ \E v \in Decrypted(Head(down[t]).body) : reports' = Append(reports, v)
  /\ UNCHANGED <<clientFlags, clientID, serverVars, corr, up>>

\* The statistics exchange that ends every thread: receive, then send.
CSci(t) ==
  /\ CGoto(t, "sci", "done")
  /\ down[t] # <<>>
  /\ down' = [down EXCEPT ![t] = Tail(@)]
  /\ up' = [up EXCEPT ![t] = Append(@, sci)]
  /\ UNCHANGED <<clientFlags, clientID, reports, serverVars, corr>>

Client(t) ==
  \/ CSendKey(t) \/ COprf1(t) \/ CInc1(t) \/ CWait1(t) \/ CFunc1(t)
  \/ CReset1(t) \/ COprf2(t) \/ CInc2(t) \/ CWait2(t) \/ CReset2(t)
  \/ CSend(t) \/ CRecv(t) \/ CSci(t)
-----------------------------------------------------------------------------
(* The server process.                                                     *)

SGoto(t, from, to) == spc[t] = from /\ spc' = [spc EXCEPT ![t] = to]

SRecvKey(t) ==
  /\ SGoto(t, "recvKey", "incNg")
  /\ up[t] # <<>>
  /\ ng' = Head(up[t]).body
  /\ up' = [up EXCEPT ![t] = Tail(@)]
  /\ UNCHANGED <<clientVars, serverFlags, csv, serverData, dataOfPsm2,
                 serverID, corr, down>>

\* Mutant: an increment that is not atomic may be lost.
SIncNg_Racy(t) ==
  /\ SGoto(t, "incNg", "waitNg")
  /\ Sf2_Ng' \in {Sf2_Ng, Sf2_Ng + 1}
  /\ UNCHANGED <<clientVars, Sf1, Sf2, serverTables, netVars>>

\* flag++ before each site.  The center counts itself only at the second.
SIncNg(t) ==
  /\ SGoto(t, "incNg", "waitNg")
  /\ Sf2_Ng' = Sf2_Ng + 1
  /\ UNCHANGED <<clientVars, Sf1, Sf2, serverTables, netVars>>

SInc1(t) ==
  /\ SGoto(t, "inc1", "wait1")
  /\ Sf1' = Sf1 + 1
  /\ UNCHANGED <<clientVars, Sf2, Sf2_Ng, serverTables, netVars>>

\* Lines 735 and 807.
SInc2(t) ==
  /\ SGoto(t, "inc2", "wait2") \/ SGoto(t, "inc3", "wait3")
  /\ Sf2' = Sf2 + 1
  /\ UNCHANGED <<clientVars, Sf1, Sf2_Ng, serverTables, netVars>>

\* Mutant: the center goes on one arrival too early.
SWaitNg_OffByOne(t) ==
  /\ Quits(Sf2_Ng, t = Center, N-2)
  /\ SGoto(t, "waitNg", IF t = Center THEN "resetNg" ELSE "encrypt")
  /\ UNCHANGED <<clientVars, serverFlags, serverTables, netVars>>

\* The polls that succeed: the leader is special at the second site, the
\* center at the others.
SWaitNg(t) ==
  /\ Quits(Sf2_Ng, t = Center, N-1)
  /\ SGoto(t, "waitNg", IF t = Center THEN "resetNg" ELSE "encrypt")
  /\ UNCHANGED <<clientVars, serverFlags, serverTables, netVars>>

\* Mutant: the leader copies the ciphertexts one arrival too early.
SWait2_OffByOne(t) ==
  /\ Quits(Sf2, t = Leader, N-1)
  /\ SGoto(t, "wait2", IF t = Leader THEN "func2"
                       ELSE IF t = Center THEN "wait1" ELSE "oprf1")
  /\ UNCHANGED <<clientVars, serverFlags, serverTables, netVars>>

SWait2(t) ==
  /\ Quits(Sf2, t = Leader, N)
  /\ SGoto(t, "wait2", IF t = Leader THEN "func2"
                       ELSE IF t = Center THEN "wait1" ELSE "oprf1")
  /\ UNCHANGED <<clientVars, serverFlags, serverTables, netVars>>

SWait1(t) ==
  /\ Quits(Sf1, t = Center, N-1)
  /\ SGoto(t, "wait1", IF t = Center THEN "func1" ELSE "inc3")
  /\ UNCHANGED <<clientVars, serverFlags, serverTables, netVars>>

\* Mutant: the leader goes on without the search.
SWait3_NoSearch(t) ==
  /\ Quits(Sf2, t = Center, N-1)
  /\ SGoto(t, "wait3", IF t = Center THEN "reset3" ELSE "sciSend")
  /\ UNCHANGED <<clientVars, serverFlags, serverTables, netVars>>

SWait3(t) ==
  /\ Quits(Sf2, t = Center, N-1)
  /\ SGoto(t, "wait3", IF t = Center THEN "reset3"
                       ELSE IF t = Leader THEN "search" ELSE "sciSend")
  /\ UNCHANGED <<clientVars, serverFlags, serverTables, netVars>>

\* The resets with which the special thread leaves a site.
SResetNg(t) ==
  /\ SGoto(t, "resetNg", "encrypt")
  /\ Sf2_Ng' = 0
  /\ UNCHANGED <<clientVars, Sf1, Sf2, serverTables, netVars>>

\* Mutant: the center leaves the flag as it is.
SReset1_Forgotten(t) ==
  /\ SGoto(t, "reset1", "oprf2")
  /\ UNCHANGED <<clientVars, serverFlags, serverTables, netVars>>

SReset1(t) ==
  /\ SGoto(t, "reset1", "oprf2")
  /\ Sf1' = 0
  /\ UNCHANGED <<clientVars, Sf2, Sf2_Ng, serverTables, netVars>>

SReset2(t) ==
  /\ SGoto(t, "reset2", "oprf1") \/ SGoto(t, "reset3", "sciSend")
  /\ Sf2' = 0
  /\ UNCHANGED <<clientVars, Sf1, Sf2_Ng, serverTables, netVars>>

\* Encrypt and save, or read what an earlier run saved; then publish.
SEncrypt(t) ==
  /\ SGoto(t, "encrypt", "inc2")
  /\ csv' = [csv EXCEPT ![t] = IF @ = <<>> THEN encrypt(ng, t) ELSE @]
  /\ serverData' = [serverData EXCEPT ![t] = csv'[t]]
  /\ UNCHANGED <<clientVars, serverFlags, ng, dataOfPsm2, serverID, netVars>>

\* The leader's function at the second site copies all the ciphertexts.
SFunc2(t) ==
  /\ SGoto(t, "func2", "reset2")
  /\ dataOfPsm2' = serverData
  /\ UNCHANGED <<clientVars, serverFlags, ng, csv, serverData, serverID,
                 netVars>>

\* ot_sender returns when the correction is in; the result goes into serverID.
SOprf1(t) ==
  /\ SGoto(t, "oprf1", "inc1")
  /\ corr[t]
  /\ corr' = [corr EXCEPT ![t] = FALSE]
  /\ serverID' = [serverID EXCEPT ![t] =
       fromServerOprfData(ot_sender(t, <<elementsRow>>, 1), 1)[1]]
  /\ UNCHANGED <<clientVars, serverFlags, ng, csv, serverData, dataOfPsm2,
                 up, down>>

\* Mutant: the center's own row is not put in.
SFunc1_NoRow(t) ==
  /\ SGoto(t, "func1", "reset1")
  /\ UNCHANGED <<clientVars, serverFlags, serverTables, netVars>>

\* The center's function at the third site puts its elements in as they are.
SFunc1(t) ==
  /\ SGoto(t, "func1", "reset1")
  /\ serverID' = [serverID EXCEPT ![t] = elementsRow]
  /\ UNCHANGED <<clientVars, serverFlags, ng, csv, serverData, dataOfPsm2,
                 netVars>>

\* Mutant: one row less is put back.
SOprf2_OffByOne(t) ==
  /\ SGoto(t, "oprf2", "wait3")
  /\ corr[t]
  /\ corr' = [corr EXCEPT ![t] = FALSE]
  /\ serverID' = AddRows(serverID,
       fromServerOprfData(ot_sender(t, Rows(serverID), N), SNELES - 1))
  /\ UNCHANGED <<clientVars, serverFlags, ng, csv, serverData, dataOfPsm2,
                 up, down>>

\* The center runs the second PRF over serverID and puts back as many rows as
\* a server has elements.
SOprf2(t) ==
  /\ SGoto(t, "oprf2", "wait3")
  /\ corr[t]
  /\ corr' = [corr EXCEPT ![t] = FALSE]
  /\ serverID' = AddRows(serverID,
       fromServerOprfData(ot_sender(t, Rows(serverID), N), SNELES))
  /\ UNCHANGED <<clientVars, serverFlags, ng, csv, serverData, dataOfPsm2,
                 up, down>>

\* The product of an encryption of 0 and of the ciphertexts that match.
Product(query, table, data) ==
  [keys  |-> {ng} \cup {data[m[2]][m[3]].key : m \in Matches(query, table)},
   plain |-> MapThenSumSet(LAMBDA m : data[m[2]][m[3]].plain,
                           Matches(query, table))]

\* The leader reads serverID, receives the identifiers and sends the product.
SSearch(t) ==
  /\ SGoto(t, "search", "sciSend")
  /\ up[t] # <<>>
  /\ up' = [up EXCEPT ![t] = Tail(@)]
  /\ down' = [down EXCEPT ![t] =
       Append(@, [kind |-> "cipher",
                  body |-> Product(Head(up[t]).body, serverID, dataOfPsm2)])]
  /\ UNCHANGED <<clientVars, serverFlags, serverTables, corr>>

\* The statistics exchange: send, then receive.
SSciSend(t) ==
  /\ SGoto(t, "sciSend", "sciRecv")
  /\ down' = [down EXCEPT ![t] = Append(@, sci)]
  /\ UNCHANGED <<clientVars, serverFlags, serverTables, corr, up>>

SSciRecv(t) ==
  /\ SGoto(t, "sciRecv", "done")
  /\ up[t] # <<>>
  /\ up' = [up EXCEPT ![t] = Tail(@)]
  /\ UNCHANGED <<clientVars, serverFlags, serverTables, corr, down>>

Server(t) ==
  \/ SRecvKey(t) \/ SIncNg(t) \/ SWaitNg(t) \/ SResetNg(t)
  \/ SEncrypt(t) \/ SInc2(t) \/ SWait2(t) \/ SFunc2(t) \/ SReset2(t)
  \/ SOprf1(t) \/ SInc1(t) \/ SWait1(t) \/ SFunc1(t) \/ SReset1(t)
  \/ SOprf2(t) \/ SWait3(t) \/ SSearch(t) \/ SSciSend(t) \/ SSciRecv(t)
-----------------------------------------------------------------------------
Terminated == \A t \in Threads : cpc[t] = "done" /\ spc[t] = "done"

\* Both processes have joined their threads.
Exit == Terminated /\ UNCHANGED vars

Next == Exit \/ \E t \in Threads : Client(t) \/ Server(t)

Spec == Init /\ [][Next]_vars

\* The operating system schedules every thread of both processes.
FairSpec == Spec /\ \A t \in Threads : WF_vars(Client(t)) /\ WF_vars(Server(t))
-----------------------------------------------------------------------------
Cipher == [key : {Key, NoKey}, plain : 0..PaillierN-1]

TypeOK ==
  /\ cpc \in [Threads -> Range(COrder)] /\ Cf1 \in 0..N-1 /\ Cf2 \in 0..N-1
  /\ clientID \in Tables /\ reports \in Seq(0..PaillierN-1)
  /\ spc \in [Threads -> Range(SOrder)]
  /\ Sf1 \in 0..N-1 /\ Sf2 \in 0..N /\ Sf2_Ng \in 0..N-1
  /\ ng \in {Key, NoKey}
  /\ {csv, serverData, dataOfPsm2} \subseteq [Threads -> Seq(Cipher)]
  /\ serverID \in Tables
  /\ corr \in [Threads -> BOOLEAN]

(* A thread has gone past a label of its own straight line of labels.      *)
Place(order, label) == CHOOSE i \in DOMAIN order : order[i] = label
CPast(t, label) == Place(COrder, cpc[t]) > Place(COrder, label)
SPast(t, label) == Place(SOrder, spc[t]) > Place(SOrder, label)

(* The call sites of waitFor as rendezvous.                                *)
Others == Threads \ {Center}

CSite1 == INSTANCE Rendezvous
  WITH Special <- Center, Arrivers <- Others,
       arrived <- {t \in Others : CPast(t, "inc1")},
       ran     <- CPast(Center, "func1"),
       left    <- {t \in Threads : CPast(t, "reset1")}
CSite2 == INSTANCE Rendezvous
  WITH Special <- Center, Arrivers <- Others,
       arrived <- {t \in Others : CPast(t, "inc2")},
       ran     <- CPast(Center, "wait2"),
       left    <- {t \in Threads : CPast(t, "reset2")}
SSiteNg == INSTANCE Rendezvous
  WITH Special <- Center, Arrivers <- Others,
       arrived <- {t \in Others : SPast(t, "incNg")},
       ran     <- SPast(Center, "waitNg"),
       left    <- {t \in Threads : SPast(t, "resetNg")}
SSite2 == INSTANCE Rendezvous
  WITH Special <- Leader, Arrivers <- Threads,
       arrived <- {t \in Threads : SPast(t, "inc2")},
       ran     <- SPast(Leader, "func2"),
       left    <- {t \in Threads : SPast(t, "reset2")}
SSite1 == INSTANCE Rendezvous
  WITH Special <- Center, Arrivers <- Others,
       arrived <- {t \in Others : SPast(t, "inc1")},
       ran     <- SPast(Center, "func1"),
       left    <- {t \in Threads : SPast(t, "reset1")}
SSite3 == INSTANCE Rendezvous
  WITH Special <- Center, Arrivers <- Others,
       arrived <- {t \in Others : SPast(t, "inc3")},
       ran     <- SPast(Center, "wait3"),
       left    <- {t \in Threads : SPast(t, "reset3")}

\* All six sites keep the promise of a rendezvous, the two that share Sf2
\* included: the site on Sf1 lies between them.
SitesAreRendezvous ==
  /\ CSite1!Spec /\ CSite2!Spec
  /\ SSiteNg!Spec /\ SSite2!Spec /\ SSite1!Spec /\ SSite3!Spec

\* Nobody encrypts before the key is there, although the key is read from a
\* global that only the leader writes, without a lock.
KeyBeforeEncryption == \A t \in Threads : spc[t] = "encrypt" => ng = Key

(* Why: the site on Sf2_Ng stands between the arrival of the key and its    *)
(* use.  KeyInvariant is inductive.                                        *)

\* The server's labels up to and including that site, and the threads, the
\* center aside, that have executed Sf2_Ng++.
EarlyLabels == {"recvKey", "incNg", "waitNg", "resetNg"}
counted     == {t \in Others : spc[t] \notin {"recvKey", "incNg"}}

\* Only the leader receives the key; only the center, uncounted, resets.
Places == /\ spc \in [Threads -> Range(SOrder)]
          /\ \A t \in Threads : spc[t] = "recvKey" => t = Leader
          /\ \A t \in Threads : spc[t] = "resetNg" => t = Center
          /\ spc[Center] \notin {"recvKey", "incNg"}

\* The flag counts the arrivals until the center resets it; the center goes on
\* after all have been counted, and the others go on after the center.
NgCounts ==
  Sf2_Ng = IF spc[Center] \in EarlyLabels THEN Cardinality(counted) ELSE 0
CenterAfterAll    == spc[Center] # "waitNg" => counted = Others
OthersAfterCenter == \A t \in Others :
  spc[t] \notin EarlyLabels => spc[Center] \notin EarlyLabels

\* Until the server's leader has the key, the client's leader is about to send
\* it, or has sent it and nothing else.
KeyUnderWay ==
  /\ cpc \in [Threads -> Range(COrder)] /\ DOMAIN up = Threads
  /\ spc[Leader] = "recvKey" =>
       \/ cpc[Leader] = "sendKey" /\ up[Leader] = <<>>
       \/ cpc[Leader] = "oprf1"
          /\ up[Leader] = <<[kind |-> "key", body |-> Key]>>
  /\ spc[Leader] # "recvKey" => ng = Key

\* The key, the flag and the threads stay in step: no step of either process
\* takes the server past its first site without the key.
KeyInvariant == /\ Places /\ NgCounts /\ CenterAfterAll /\ OthersAfterCenter
                /\ KeyUnderWay

\* The entry went through the second PRF, as row t of the center's channel.
SecondPrf(entry, t) == entry[Len(entry)] = <<Center, t+1>>

\* No row is missing when the tables are read as a whole, and the identifiers
\* and rows that are compared are those of the second PRF.
ReadersSeeAllRows ==
  /\ cpc[Center] = "oprf2" => \A t \in Threads : clientID[t] # <<>>
  /\ spc[Center] = "oprf2" => \A t \in Threads : serverID[t] # <<>>
  /\ cpc[Leader] = "send" => \A t \in Threads : SecondPrf(clientID[t][1], t)
  /\ spc[Leader] = "search" =>
       \A t \in Threads :
         /\ dataOfPsm2[t] # <<>>
         /\ \A k \in DOMAIN serverID[t] : SecondPrf(serverID[t][k], t)

\* The receivers take bytes as they come; every message is nevertheless
\* received by the call it was meant for.
SocketsInStep ==
  \A t \in Threads :
    /\ down[t] # <<>> /\ cpc[t] = "recv" => Head(down[t]).kind = "cipher"
    /\ down[t] # <<>> /\ cpc[t] = "sci" => Head(down[t]).kind = "sci"
    /\ up[t] # <<>> /\ spc[t] = "recvKey" => Head(up[t]).kind = "key"
    /\ up[t] # <<>> /\ spc[t] = "search" => Head(up[t]).kind = "ids"
    /\ up[t] # <<>> /\ spc[t] = "sciRecv" => Head(up[t]).kind = "sci"

\* No thread of either process comes out of run_smpaq before every thread of
\* both is past its first site, although no site joins the two processes.
EndsAfterAllBegan ==
  (\E t \in Threads : cpc[t] = "done" \/ spc[t] = "done") =>
    \A t \in Threads : CPast(t, "wait1") /\ SPast(t, "waitNg")

\* The client prints once, and it prints the sum over all the servers.
Query == INSTANCE AggregateQuery
  WITH Servers <- Threads, Query <- QueryItem, Modulus <- PaillierN,
       contributed <- {t \in Threads : SPast(t, "encrypt")}
ImplementsAggregateQuery == Query!Spec

\* Every run ends, although both processes only ever poll and block.
Termination == <>Terminated
=============================================================================
