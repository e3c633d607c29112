---------------------------- MODULE Smpaq2Crash ----------------------------
(***************************************************************************)
(* SMPAQ2 when a process goes away.                                        *)
(*                                                                         *)
(* A process may end at any step, killed or by an exception in one of its  *)
(* threads.  The other one notices in two ways only.  A PRF call on the    *)
(* channel of a dead peer throws, nothing catches it, and the process ends *)
(* too.  A receive on the socket of a dead peer returns without having     *)
(* filled its buffer, nobody looks at its result, and the thread goes on   *)
(* with the zeros that the buffer was initialised with.  What the dead     *)
(* peer had sent may still be received, or be discarded by the reset of    *)
(* the connection.                                                         *)
(***************************************************************************)
EXTENDS Smpaq2

CONSTANT MayCrash   \* the processes that may end at any step

Processes == {"client", "server"}

ASSUME Smpaq2CrashAssumption == MayCrash \subseteq Processes

VARIABLE dead       \* the processes that have ended early

crashVars == <<vars, dead>>

CrashInit == Init /\ dead = {}

Alive(p) == p \notin dead
Dies(p)  == dead' = dead \cup {p}

Crash(p) == Alive(p) /\ Dies(p) /\ UNCHANGED vars
-----------------------------------------------------------------------------
(* A client thread whose server is dead.                                   *)

\* Mutant: the exception is caught and the thread goes on.
CThrows_Caught(t) ==
  /\ CGoto(t, "oprf1", "inc1") \/ CGoto(t, "oprf2", "inc2")
  /\ UNCHANGED <<clientFlags, clientData, serverVars, netVars, dead>>

\* An exception leaves the thread function: std::terminate.
CThrows(t) ==
  /\ cpc[t] \in {"oprf1", "oprf2"}
  /\ Dies("client")
  /\ UNCHANGED vars

\* Mutant: the buffer of the sum is not initialised.
CRecvNothing_Garbage(t) ==
  /\ CGoto(t, "recv", "count")
  /\ \E v \in 0..Word-1 : g_sum' = [g_sum EXCEPT ![t] = v]
  /\ down' = [down EXCEPT ![t] = <<>>]
  /\ UNCHANGED <<clientFlags, clientID, clientID_party, g_received_count,
                 reports, warned, serverVars, corr, up, dead>>

\* Mutant: the receive is repeated until it has its bytes.
CRecvNothing_Repeats(t) ==
  /\ CGoto(t, "recv", "recv")
  /\ down' = [down EXCEPT ![t] = <<>>]
  /\ UNCHANGED <<clientFlags, clientData, serverVars, corr, up, dead>>

\* Mutant: a sum that did not arrive is not counted.
CRecvNothing_NotCounted(t) ==
  /\ CGoto(t, "recv", "inc3")
  /\ down' = [down EXCEPT ![t] = <<>>]
  /\ UNCHANGED <<clientFlags, clientData, serverVars, corr, up, dead>>

\* The sum keeps its 0 and is counted as received.
CRecvNothing(t) ==
  /\ CGoto(t, "recv", "count")
  /\ g_sum' = [g_sum EXCEPT ![t] = 0]
  /\ down' = [down EXCEPT ![t] = <<>>]
  /\ UNCHANGED <<clientFlags, clientID, clientID_party, g_received_count,
                 reports, warned, serverVars, corr, up, dead>>

CSciNothing(t) ==
  /\ CGoto(t, "sci", "done")
  /\ down' = [down EXCEPT ![t] = <<>>]
  /\ UNCHANGED <<clientFlags, clientData, serverVars, corr, up, dead>>

CrashClient(t) ==
  /\ Alive("client")
  /\ \/ Client(t) /\ UNCHANGED dead
     \/ ~Alive("server") /\ (CThrows(t) \/ CRecvNothing(t) \/ CSciNothing(t))
-----------------------------------------------------------------------------
(* A server thread whose client is dead.                                   *)

SThrows(t) ==
  /\ spc[t] \in {"oprf1", "oprf2"}
  /\ Dies("server")
  /\ UNCHANGED vars

\* The identifiers keep their zeros, which match nothing; the sum is 0.
SSearchNothing(t) ==
  /\ SGoto(t, "search", "sciSend")
  /\ up' = [up EXCEPT ![t] = <<>>]
  /\ down' = [down EXCEPT ![t] = Append(@, number(0))]
  /\ UNCHANGED <<clientVars, serverFlags, serverData, corr, dead>>

SSciNothing(t) ==
  /\ SGoto(t, "sciRecv", "done")
  /\ up' = [up EXCEPT ![t] = <<>>]
  /\ UNCHANGED <<clientVars, serverFlags, serverData, corr, down, dead>>

CrashServer(t) ==
  /\ Alive("server")
  /\ \/ Server(t) /\ UNCHANGED dead
     \/ ~Alive("client") /\ (SThrows(t) \/ SSearchNothing(t) \/ SSciNothing(t))
-----------------------------------------------------------------------------
CrashNext == \/ \E t \in Threads : CrashClient(t) \/ CrashServer(t)
             \/ \E p \in MayCrash : Crash(p)

CrashSpec == CrashInit /\ [][CrashNext]_crashVars

\* The threads of a living process are scheduled; no process need crash.
FairCrashSpec ==
  /\ CrashSpec
  /\ \A t \in Threads : /\ WF_crashVars(CrashClient(t))
                        /\ WF_crashVars(CrashServer(t))
-----------------------------------------------------------------------------
\* However the server ends, the client reports nothing before every server has
\* split its payloads and both parties are past the second PRF.
ReportsOnlyAfterShares ==
  reports # <<>> =>
    /\ \A t \in Threads : SPast(t, "share")
    /\ \A p \in Parties : clientID_party[p] # EmptyTable

\* What is reported is the answer, one party's masked sum, or 0.
ShareSum(p) ==
  MapThenSumSet(LAMBDA t : serverData_party[p][t][QueryItem], Threads)

ReportsSomeShares ==
  \A i \in DOMAIN reports :
    \E S \in SUBSET Parties :
      reports[i] = MapThenSumSet(ShareSum, S) % Word

\* When a process has gone, the other one does not go on for ever: it ends, by
\* itself or by an exception, or stops as it might have stopped anyway.
Ended(p, pc) == ~Alive(p) \/ \A t \in Threads : pc[t] = "done"

SurvivorEnds ==
  dead # {} ~> \/ Ended("client", cpc) /\ Ended("server", spc)
               \/ LeaderMissedReset \/ LeaderCountLost \/ CenterMissedReset
=============================================================================
