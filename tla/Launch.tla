------------------------------- MODULE Launch -------------------------------
(***************************************************************************)
(* The start and the end of both processes (main and thread in sm_paq.cpp, *)
(* EstablishConnection in common/functionalities.cpp).                     *)
(*                                                                         *)
(* main gives each of N threads an index, which is its role and its port.  *)
(* The client's threads take 0 to N-1 in this order.  The server draws an  *)
(* order: VRF::sequence sorts the servers by a hash, and main inserts      *)
(* index 0 (the leader) at the position drawn first and index N-1 (the     *)
(* center) at the position drawn second into 1, ..., N-2.                  *)
(*                                                                         *)
(* A server thread listens on its port and accepts once, a client thread   *)
(* tries to connect a thousand times; a null socket fails an assertion and *)
(* ends the process.  A connected thread counts itself in flagOfWait and   *)
(* waits, thread 0 for the count N and the others for its reset, runs the  *)
(* protocol, and puts its context into a table.  main joins the threads    *)
(* and averages the table.                                                 *)
(***************************************************************************)
EXTENDS Communication, FiniteSetsExt, SequencesExt

CONSTANTS N, SNELES, BITLEN   \* context.n, context.sneles, context.bitlen

ASSUME LaunchAssumption == /\ N \in Nat /\ N >= 2
                           /\ SNELES \in Nat /\ BITLEN \in Nat

Roles   == {"server", "client"}
Slots   == 1..N      \* the array of threads of one process
Indices == 0..N-1
Leader  == 0
Center  == N-1

VARIABLES
  late,        \* the client's tries may run out before the server is up
  order,       \* the index of each thread of a process, empty until drawn
  pc,          \* where each thread of a process is
  flagOfWait,  \* the flag of each process
  contexts,    \* serverContexts and clientContexts: the indices added
  fate,        \* of a process: "running", "exited", "aborted" by the
               \* assertion, or "killed" by undefined behaviour
  averaged     \* the contexts that main has averaged

vars == <<late, order, pc, flagOfWait, contexts, fate, averaged>>

Labels == {"none", "socket", "accept", "taken", "count", "wait", "reset",
           "run", "add", "done"}

\* A number that is no index: what lies past the end of a vector.
Stray == N

TypeOK ==
  /\ late \in BOOLEAN
  /\ order \in [Roles -> {<<>>} \cup [Slots -> Indices \cup {Stray}]]
  /\ pc \in [Roles -> [Slots -> Labels]]
  /\ flagOfWait \in [Roles -> 0..N]
  /\ contexts \in [Roles -> SUBSET Indices]
  /\ fate \in [Roles -> {"running", "exited", "aborted", "killed"}]
  /\ averaged \in [Roles -> SUBSET Indices]

Init ==
  /\ late \in BOOLEAN
  /\ order = [r \in Roles |->
                IF r = "server" THEN <<>> ELSE [i \in Slots |-> i-1]]
  /\ pc = [r \in Roles |-> [i \in Slots |-> "none"]]
  /\ flagOfWait = [r \in Roles |-> 0]
  /\ contexts = [r \in Roles |-> {}]
  /\ fate = [r \in Roles |-> "running"]
  /\ averaged = [r \in Roles |-> {}]

index(r, i) == order[r][i]
Running(r)  == fate[r] = "running"

Goto(r, i, from, to) == /\ Running(r)
                        /\ pc[r][i] = from
                        /\ pc' = [pc EXCEPT ![r][i] = to]
-----------------------------------------------------------------------------
(* main.                                                                   *)

\* VRF::sequence: the servers sorted by their hashes, so any order of them.
Draws == {d \in [1..N -> Indices] : IsInjective(d)}

\* server_sequence before the insertions.
Middle == [i \in 1..N-2 |-> i]

\* A first position of N-1 is past the end of Middle.  The vector then grows
\* by its own last element again or by whatever follows it in memory, and the
\* leader's index is lost; an empty vector has nothing to read (N = 2).
ServerOrders(d) ==
  IF d[1] # N-1
  THEN {InsertAt(InsertAt(Middle, d[1] + 1, Leader), d[2] + 1, Center)}
  ELSE {InsertAt(Append(Middle, x), d[2] + 1, Center) :
          x \in IF N = 2 THEN {} ELSE Indices \cup {Stray}}

Draw == /\ Running("server") /\ order["server"] = <<>>
        /\ \E d \in Draws : \E o \in ServerOrders(d) :
             order' = [order EXCEPT !["server"] = o]
        /\ UNCHANGED <<late, pc, flagOfWait, contexts, fate, averaged>>

\* The other outcome of the insertion past the end.
DrawKills == /\ Running("server") /\ order["server"] = <<>>
             /\ \E d \in Draws : d[1] = N-1
             /\ fate' = [fate EXCEPT !["server"] = "killed"]
             /\ UNCHANGED <<late, order, pc, flagOfWait, contexts, averaged>>

\* main starts its threads one after the other.
StartThread(r, i) ==
  /\ order[r] # <<>>
  /\ \A j \in 1..i-1 : pc[r][j] # "none"
  /\ Goto(r, i, "none", "socket")
  /\ UNCHANGED <<late, order, flagOfWait, contexts, fate, averaged>>

\* All threads are joined; main averages the contexts and returns.
Finish(r) ==
  /\ Running(r)
  /\ \A i \in Slots : pc[r][i] = "done"
  /\ averaged' = [averaged EXCEPT ![r] = contexts[r]]
  /\ fate' = [fate EXCEPT ![r] = "exited"]
  /\ UNCHANGED <<late, order, pc, flagOfWait, contexts>>
-----------------------------------------------------------------------------
(* EstablishConnection.                                                    *)

\* The listening socket is there until Accept has returned.
HoldsPort(i, x) == /\ pc["server"][i] \in {"accept", "taken"}
                   /\ index("server", i) = x

\* assert(socket) fails in some thread of r.
Abort(r) == /\ fate' = [fate EXCEPT ![r] = "aborted"]
            /\ UNCHANGED <<late, order, pc, flagOfWait, contexts, averaged>>

SListen(i) ==
  /\ Goto("server", i, "socket", "accept")
  /\ ~\E j \in Slots : HoldsPort(j, index("server", i))
  /\ UNCHANGED <<late, order, flagOfWait, contexts, fate, averaged>>

\* A port that another thread listens on cannot be bound.
SBindFails(i) ==
  /\ Running("server") /\ pc["server"][i] = "socket"
  /\ \E j \in Slots : HoldsPort(j, index("server", i))
  /\ Abort("server")

\* One of the client's tries reaches a listening thread.
CConnect(i) ==
  /\ Running("client") /\ Running("server")
  /\ pc["client"][i] = "socket"
  /\ \E j \in Slots :
       /\ pc["server"][j] = "accept" /\ index("server", j) = index("client", i)
       /\ pc' = [pc EXCEPT !["client"][i] = "count", !["server"][j] = "taken"]
  /\ UNCHANGED <<late, order, flagOfWait, contexts, fate, averaged>>

SAccept(i) == /\ Goto("server", i, "taken", "count")
              /\ UNCHANGED <<late, order, flagOfWait, contexts, fate, averaged>>

\* No thread of the server listens, or will ever listen, on port x.
NeverListens(x) ==
  \/ ~Running("server")
  \/ /\ order["server"] # <<>>
     /\ \A i \in Slots : index("server", i) # x

\* Mutant: the tries never run out.
CTimeOut_Endless(i) == late /\ pc["client"][i] = "socket" /\ Abort("client")

\* The tries have run out.
CTimeOut(i) ==
  /\ Running("client") /\ pc["client"][i] = "socket"
  /\ late \/ NeverListens(index("client", i))
  /\ Abort("client")
-----------------------------------------------------------------------------
(* The rest of the thread function.                                        *)

\* flagOfWait++
Count(r, i) ==
  /\ Goto(r, i, "count", "wait")
  /\ flagOfWait' = [flagOfWait EXCEPT ![r] = @ + 1]
  /\ UNCHANGED <<late, order, contexts, fate, averaged>>

\* Mutant: the leader waits for one thread less.
Wait_OffByOne(r, i) ==
  /\ pc[r][i] = "wait"
  /\ flagOfWait[r] = IF index(r, i) = Leader THEN N-1 ELSE 0
  /\ Goto(r, i, "wait", IF index(r, i) = Leader THEN "reset" ELSE "run")
  /\ UNCHANGED <<late, order, flagOfWait, contexts, fate, averaged>>

\* A poll of waitFor that succeeds.
Wait(r, i) ==
  /\ pc[r][i] = "wait"
  /\ flagOfWait[r] = IF index(r, i) = Leader THEN N ELSE 0
  /\ Goto(r, i, "wait", IF index(r, i) = Leader THEN "reset" ELSE "run")
  /\ UNCHANGED <<late, order, flagOfWait, contexts, fate, averaged>>

\* Mutant: the leader leaves the flag as it is.
Reset_Forgotten(r, i) ==
  /\ Goto(r, i, "reset", "run")
  /\ UNCHANGED <<late, order, flagOfWait, contexts, fate, averaged>>

Reset(r, i) ==
  /\ Goto(r, i, "reset", "run")
  /\ flagOfWait' = [flagOfWait EXCEPT ![r] = 0]
  /\ UNCHANGED <<late, order, contexts, fate, averaged>>

\* run_smpaq and the byte counters: a thread comes out of it only after all
\* threads of both processes have gone into it (EndsAfterAllBegan of Smpaq1 and
\* Smpaq2).
InRun(r, i) == pc[r][i] \in {"run", "add", "done"}

RunSmpaq(r, i) ==
  /\ \A q \in Roles, j \in Slots : InRun(q, j)
  /\ Goto(r, i, "run", "add")
  /\ UNCHANGED <<late, order, flagOfWait, contexts, fate, averaged>>

AddContext(r, i) ==
  /\ Goto(r, i, "add", "done")
  /\ contexts' = [contexts EXCEPT ![r] = @ \cup {index(r, i)}]
  /\ UNCHANGED <<late, order, flagOfWait, fate, averaged>>
-----------------------------------------------------------------------------
Main(r) == \/ r = "server" /\ (Draw \/ DrawKills)
           \/ \E i \in Slots : StartThread(r, i)
           \/ Finish(r)

Thread(r, i) == \/ r = "server" /\ (SListen(i) \/ SBindFails(i) \/ SAccept(i))
                \/ r = "client" /\ (CConnect(i) \/ CTimeOut(i))
                \/ Count(r, i) \/ Wait(r, i) \/ Reset(r, i)
                \/ AddContext(r, i)

Next == \E r \in Roles :
          Main(r) \/ \E i \in Slots : Thread(r, i) \/ RunSmpaq(r, i)

Spec == Init /\ [][Next]_vars

\* The operating system schedules every thread.  A client thread that tries
\* for ever runs out of tries, so its two actions share one condition.  That
\* run_smpaq returns is not presumed: SMPAQ1 always does, but SMPAQ2 may wait
\* for ever (Termination of Smpaq1 and Smpaq2).
FairSpec == /\ Spec
            /\ \A r \in Roles : WF_vars(Main(r))
            /\ \A r \in Roles, i \in Slots : WF_vars(Thread(r, i))
-----------------------------------------------------------------------------
Arrived(r, i)   == pc[r][i] \in {"wait", "reset", "run", "add", "done"}
Connected(r, i) == pc[r][i] \in {"taken", "count"} \/ Arrived(r, i)

\* The indices of the threads of r that are where P says.
Where(r, P(_, _)) ==
  {x \in Indices : \E i \in Slots : P(r, i) /\ index(r, i) = x}

\* The first insertion went wrong, and the leader's index is lost.
BadDraw ==
  \/ fate["server"] = "killed"
  \/ order["server"] # <<>> /\ \A i \in Slots : index("server", i) # Leader

\* A protocol run starts as Smpaq1 and Smpaq2 assume: when a thread of either
\* process enters run_smpaq, each index is a connected thread of either side.
RunsTogether ==
  (\E r \in Roles, i \in Slots : InRun(r, i)) =>
    \A r \in Roles : Where(r, Connected) = Indices

\* A launch fails as a whole: if a process was killed or aborted, no thread of
\* either process enters the protocol.
AllOrNothing ==
  (\E r \in Roles : fate[r] \in {"killed", "aborted"}) =>
    ~\E r \in Roles, i \in Slots : InRun(r, i)

\* When both processes have exited, the bytes that their threads report as
\* received are those that they report as sent, in SMPAQ1: what goes over a
\* socket is counted at both ends, so the additions must cancel out.  In SMPAQ2
\* too much is counted as received, or too little as sent.
Excess(type) ==
  MapThenSumSet(
    LAMBDA c : AddedRecv(type, c[1], c[2], N, SNELES, BITLEN)
                 - AddedSent(type, c[1], c[2], N, SNELES, BITLEN),
    UNION {{r} \X averaged[r] : r \in Roles})

TrafficBalances ==
  (\A r \in Roles : fate[r] = "exited") =>
    /\ Excess("SMPAQ1") = 0
    /\ Excess("SMPAQ2") = WordSize * SNELES * (N + 6) - 4

\* Process r waits for ever for run_smpaq to return, which all threads of both
\* processes have entered.
HeldInRun(r) == <>[](/\ \E i \in Slots : pc[r][i] = "run"
                     /\ \A q \in Roles, i \in Slots : InRun(q, i))

\* Unless the insertion goes wrong, or the server is started too late, the launch
\* succeeds: every thread gets into run_smpaq, and if it returns in all of them,
\* then both processes end, and end well.
Ends == \/ <>(late \/ BadDraw \/ \A r \in Roles : fate[r] = "exited")
        \/ \E r \in Roles : HeldInRun(r)

\* Whatever goes wrong in the launch, a process that waits for ever, but not for
\* run_smpaq, is a server with a thread in Accept whose client has given up.  So
\* a client whose server fails always ends.
WaitsOnlyInAccept ==
  \A r \in Roles :
    \/ <>(fate[r] # "running")
    \/ HeldInRun(r)
    \/ <>[](/\ r = "server" /\ fate["client"] = "aborted"
            /\ \E i \in Slots : pc[r][i] = "accept")
=============================================================================
