# A TLA+ model of SMPAQ

SMPAQ answers an aggregate query over several data owners: a client asks about
one element, every server holds a payload per element, and the client learns
the sum of what the servers hold for it. Two protocols are implemented, SMPAQ1
(payloads encrypted under the client's Paillier key) and SMPAQ2 (payloads split
into two additive shares). This directory specifies the two protocols, the
primitives they stand on, how both processes start and end, and what happens when
one of them dies; it model-checks them with TLC and proves theorems about them with
TLAPS.

The program's own code is about 2500 lines under `src/src`; everything under
`src/extern` (ABY, EzPC, HashingTables, libOTe) is third-party code and is modelled
only as far as the program uses it; the map names the lines of it that a definition follows.

Paths below are relative to `src/src/` of the repository.

## 1. The system

Two processes run the same binary, one as the server (`-r 0`) and one as the
client (`-r 1`). Each starts `n` threads. Thread `t` of the client talks to
thread `t` of the server over a socket (`CSocket`) and an OT channel (libOTe) of
their own. Thread 0 is the *leader*, thread `n-1` the *center*. The threads of
one process share global tables and flags; the two processes share nothing but
the connections.

| Component | Code | State | Operations | Interaction |
|---|---|---|---|---|
| Flags and rendezvous | `common/utils.hpp` 43-106 | a counter `m_Flag` under a mutex, read without it | `flag++`, `reset`, `waitFor` (poll every 10 us) | all threads of a process |
| Shared tables | `common/utils.hpp` 6-41 | a vector of rows under a mutex, copied without it | `add`, `data` | all threads of a process |
| SMPAQ2 | `common/functionalities.cpp` 212-340, 494-655 | `Cf1 Cf2 Sf1 Sf2`, seven tables, the two sums and their count | `run_smpaq`, client and server side | flags, tables, sockets, OT channels |
| SMPAQ1 | `common/functionalities.cpp` 341-474, 656-900 | `Cf1 Cf2 Sf1 Sf2 Sf2_Ng`, three tables, `ng`, the key pair, a file per server | `run_smpaq`, client and server side | flags, tables, sockets, OT channels, files |
| OPRF calls | `ots/ots.cpp` | none between calls | `ot_receiver` (client), `ot_sender` (server) | they meet on an OT channel |
| Statistics exchange | `common/functionalities.cpp` 979-1081 | byte counters | the last message each way | sockets |
| Launch | `sm_paq.cpp` 87-135, 274-380, `EstablishConnection` | `flagOfWait`, the thread array | connect, wait for all, run, join | sockets, flags |
| Choice of leader and center | `common/VRF.hpp` | none | `sequence` | the launch of the server |
| Paillier | `common/Paillier.hpp` | a key pair (primes built in) | key generation, `encrypt`, `decryptNumber` | SMPAQ1 |
| Encrypted-data cache | `common/fileReader.hpp`, `functionalities.cpp` 701-714 | `Server_Data_EncryptData_<i>.csv` | write if absent, read if present | successive runs |
| Average of timings | `sm_paq.cpp` 137-273 | the table of contexts | `average` | after the join |

What is hard here:

* **Rendezvous by polling.** `waitFor` lets a thread go on when a counter is 0,
  which is also its value before anybody has arrived. What makes it right is
  that a thread counts itself before it waits. Several call sites are right for
  further reasons, or wrong, because one flag serves two sites, or because a
  special thread resets a flag twice.
* **Two processes in step.** A PRF call blocks until the same call is made by
  the thread of the same number in the other process, while each process has
  sites of its own at which its threads wait for one another.
* **Unlocked reads.** `data()` copies a table without the lock, `ng` is a plain
  global; only the rendezvous keep readers behind writers.
* **Unframed sockets.** A receive takes the bytes it expects, whatever they are.
* **Wrap-around.** Shares and sums are 64-bit and wrap.
* **Failure.** Only connecting is retried, and no error of a socket or a file is looked
  at; the cache file survives runs and crashes.

What makes each part correct: a call site of `waitFor` is a *rendezvous* (its
function runs after the last arrival and before any other arriver goes on); each
process's tables are complete when they are read as a whole; the two processes
end, and what the client reports is the sum over all servers, reported once.

## 2. The modules

```
Rendezvous      what one call site of waitFor promises
WaitFor         globalFlag and waitFor at one call site      implements Rendezvous
PrfPair         the order in which the two sides of PRF calls return
OtCalls         the PRF calls of one channel, message by message   implements PrfPair
Protocol        roles, tables, PRF calls and search, shared by the protocols
AggregateQuery  what a run promises its user
Smpaq2          both processes in SMPAQ2     implements AggregateQuery, Rendezvous
Smpaq2Crash     Smpaq2, and either process may die
Smpaq1          both processes in SMPAQ1     implements AggregateQuery, Rendezvous
PaillierSum     key generation, encryption, product, decryption
EncryptCache    the servers' ciphertext files over successive runs
Communication   the bytes a thread reports
Launch          both processes from main to exit, around the protocol

WaitForProofs  OtCallsProofs  LaunchProofs  EncryptCacheProofs  PaillierProofs
Smpaq1Proofs  Smpaq2Proofs (with Smpaq2Crash)  RunProofs
MC...           instances for TLC
```

**WaitFor.** `flag` is `m_Flag`; `pc[t]` is where a thread is: before the site,
polling, about to run the function, about to reset, past the site. One action per
step of the code: `Increment` (`flag++`), `QuitLoop` and `SeeAll` (a poll that
succeeds), `CallFunc`, `Reset`. A poll that fails changes nothing, so a poll is a
guard. The read in `get()` takes no lock; the flag is one aligned word and the
loop calls `usleep`, so each poll reads some current value of it. `FuncResets`
tells the call sites whose function itself resets the flag.

**OtCalls.** The receiver (client) and the sender (server) of one channel make a
sequence of calls. Within a call: the base OTs (each side sends before it waits:
`MasnyRindal`, which libOTe's `config.h` selects), the two seeds, the blocks filled from the inputs, the corrections. Receiver and sender share
nothing but two queues; a message carries its kind and call number for the properties
only, the code sends neither. `blocks.at` throws if there are more inputs than OTs,
which ends both processes. `PrfPair` is the order of returns that this gives: the
receiver may be one call ahead, the sender never.

**Protocol.** An element is a number and a table entry is the element followed
by the PRF keys applied to it, a key being a channel and the number of an OT
within the call; two entries are equal exactly if they are the same element
under the same keys. This is where the models assume that the PRF has no
collisions. `ot_sender`, `ot_receiver`, `fromServerOprfData`, `flatten`, and the
three nested loops of the search (`Matches`) are translated one by one.

**Smpaq2, Smpaq1.** `cpc[t]` and `spc[t]` are where thread `t` of the client and
of the server is; the labels are listed in program order in `COrder` and
`SOrder`. The flags, tables and globals have the names of the code;
`clientID_center` and `clientID_leader` are the two values of `clientID_party`,
and likewise for the server. `corr[t]` is the correction that the receiver of a
PRF call sends, `up[t]` and `down[t]` are the two directions of the socket.

* A step is what one thread does up to and including one access to shared state:
  an increment, a poll, a reset, a message, one use of a table. The rows that a
  party adds to its *own* tables in a loop are one step, as are the adds of one
  thread's two share vectors: nobody reads them before the next rendezvous,
  which `ReadersSeeAllRows` checks.
* A PRF call is two steps: the receiver goes on once the sender of the same
  thread number is in the call, leaving a correction; the sender goes on when it has
  the correction. That the calls do so is what `OtCalls` shows of `PrfPair`.
* A special thread's successful poll, its function and `waitFor`'s reset are
  steps of their own, because other threads run between them.
* In SMPAQ1 a ciphertext is the key it was made under and the number in it, the
  product of ciphertexts adds the numbers, and what was not made under the
  leader's key decrypts to anything. A file of ciphertexts may or may not be
  there at the start, for every server thread separately.
* Debug files, logging and timings are left out. Connections stay up in these two
  modules; `Smpaq2Crash` takes them down.

**Smpaq2Crash** adds the set `dead`. A process may end at any step. A PRF call whose
peer is dead throws, nothing catches it, and the caller's process ends too
(`CThrows`, `SThrows`). A `Receive` whose peer is dead returns, its result is ignored,
and the thread goes on with the zeros of its buffer (`CRecvNothing`, `CSciNothing`,
`SSearchNothing`, `SSciNothing`); it may as well still get what had been sent.

**PaillierSum** computes with NTL's operations on small primes, for every random
factor below `n` (`RandomBnd` may return 0 or a multiple of a prime). Which key pairs
have a `lambdaInverse` is computed; the two built-in numbers are primes and have one.
That they are primes (`IsPrime` in `PaillierAssumption`) is what `GenPrime`, whose calls are
commented out, would have promised; the program takes its two constants on trust.

**EncryptCache.** Successive runs of the server process in one directory, each with a
number of elements of its own (`-s`). `Fresh` draws, encrypts and opens the file,
`Flush` and `Close` write it, `Read` takes its first line whatever its length,
`ReadEmpty` is the death of a process that reads a file without a line. A crash can
come at any step and leave any prefix of the file, the last number cut short; a full
disk leaves what was flushed; a file that cannot be created is announced and passed over.
`drawn`, `found` and `spoilt` are history.

**Launch.** `main` and `thread` of `sm_paq.cpp` and `EstablishConnection`. `order[r]`
is the index (role and port) of each thread of process `r`. The server draws any order
of its servers and inserts the leader at the position drawn first, the center at
the position drawn second; a first position past the end is undefined behaviour, with
its outcomes enumerated (`ServerOrders`, `DrawKills`). Then listening (a port
can be taken), accepting, connecting with a thousand tries (`late`: the server may be
started after they have run out), the assertion on a null socket,
`flagOfWait`, the protocol as one step `RunSmpaq`, which may never come, the table of contexts, the join.
`Communication` translates the additions to the byte counters of each index.

**How the modules compose.** `Launch` shows that a protocol run starts as `Smpaq1`
and `Smpaq2` assume, with one connected thread of either process per index
(`RunsTogether`); in turn, it lets a thread out of `RunSmpaq` only when all are in,
which is `EndsAfterAllBegan` of the two protocols. Whether they let anybody out is
`Termination`, which SMPAQ1 has and SMPAQ2 has not. They use PRF calls as `PrfPair`
and call sites as `Rendezvous`, which `OtCalls` and `WaitFor` implement; ciphertexts
as `PaillierSum` justifies; and files as `EncryptCache` leaves them when nothing goes
wrong and `-s` does not grow.

## 3. What the runs check

| Run | Instance | Shows |
|---|---|---|
| `waitfor_pair` | 5 threads, 2 of them count, reset twice | the site is a rendezvous, its inductive invariant holds, everybody leaves |
| `waitfor_rest` | 7 threads, all but the special one count, one reset | everybody leaves |
| `ot_calls` | one or two calls, 1 or 2 query elements, every choice of two items | messages, encodings and returns stay in step, nobody is left alone |
| `smpaq2` | 3 + 3 threads, 3 elements, words of 3 bits | all safety properties of SMPAQ2 |
| `smpaq2_shares` | 2 + 2 threads, every choice of masks from {0, 1, 3}, words of 2 bits | the sum is right for masks below, at and above the payload |
| `smpaq2_crash` | 2 + 2 threads, every choice of masks from {1, 6}, words of 3 bits, either process dies at any step | the other one ends, or stops where it might have without a crash; what is reported then |
| `smpaq1` | 4 + 4 threads, 4 elements, any cache files | all properties of SMPAQ1, deadlock and termination included |
| `paillier_sum` | five pairs of primes up to 11, of which three have a `lambdaInverse`; four plaintexts, two factors, every random factor | the product decrypts to the sum, unless a random factor is no unit |
| `cache` | 2 servers, 3 runs, sizes 1 and 2, crashes, full disks, files that cannot be created | a table never mixes two draws, and is bad only if the file was |
| `launch` | 3 + 3 threads, any order drawn, the server in time or late | a protocol run starts whole or not at all; who may wait for ever, and where; bytes balance |
| `smpaq2_termination` | 2 + 2 threads | **violated**: SMPAQ2 may stop for ever |
| `smpaq2_few_elements` | 3 + 3 threads, 2 elements | **violated**: a server is left out of the sum |

The properties:

* `ImplementsRendezvous`, `SitesAreRendezvous`: a call site implements
  `Rendezvous`. In `Smpaq1` this holds of all six sites. In `Smpaq2` it holds of
  five; the client's last site is let through early in some runs
  (`LastSiteIsRendezvous` states what fails).
* `ImplementsPrfPair`: the calls message by message return in the order of `PrfPair`.
* `ImplementsAggregateQuery`: the client reports at most once, only when every
  server's data is in, and reports the sum over all the servers.
* `ReadersSeeAllRows`: no row is missing when a table is read as a whole.
* `SocketsInStep`, `MessagesInStep`: whatever is at the head of a socket or a channel
  is what the waiting receive is for.
* `EqualIffSameItem`: an encoding of the receiver equals one of the sender exactly
  if the items do.
* `EndsAfterAllBegan`, `RunsTogether`, `AllOrNothing`: a protocol run starts whole or
  not at all, and nobody is out of it before everybody is in.
* `KeyBeforeEncryption`: no server thread encrypts before the key is there.
  `KeyInvariant` is the inductive invariant behind it (section 5).
* `NeverWarned`: the program's own "warn: ... may be error" is printed in no run, also
  when a process dies.
* `ReportsOnlyAfterShares`, `ReportsSomeShares`: with a process dying, the client
  reports only when all shares are in, and then the answer, one party's masked sum or 0.
* `EntryPerElement`, `FromOneDraw`, `BadTableIsOld`: what a run finds in its
  ciphertext table; `found` is the file when the run began.
* `DecryptsToSum`, `SpoiltProductShows`: a product of ciphertexts.
* `TrafficBalances`: in SMPAQ1 the bytes reported as received are those reported as
  sent, over all threads; in SMPAQ2 they differ by a constant (section 4).
* `StopsOnlyByReuse`: the only states in which SMPAQ2 stops early are three, each
  the reuse of a flag.
* `Ends`: a launch that does not fail brings every thread into `run_smpaq`, and if it returns
  in all of them both processes end well. `WaitsOnlyInAccept`: apart from a
  `run_smpaq` that does not return, a process waits for ever in one case only, a server's
  thread in `Accept` when the client has given up, which the code does not guard against
  (if the client is started too long before the server). In particular a client whose server fails always ends.
* `Termination`, `EverybodyLeaves`, `EndsTogether`, `SurvivorEnds`: what must end does.

**Bounds.** Three threads per process are the first instance with a thread that
is neither leader nor center, a *bystander* at the sites where only the two
count; `smpaq1` has two such threads. `SNELES >= N` in the passing runs of the
protocols, because otherwise the code leaves servers out (finding below). The element
asked about is held by all servers. `Word` and `PaillierN` are small so that the sums
wrap around. `smpaq2_crash` has no bystander: a crash is a crash of the parties'
process, and the step after it is taken by parties. `ot_calls` needs two calls, since
a receiver is at most one ahead. `cache` needs a third run to read what a second one
read; two sizes are a smaller and a larger run in either order. `launch` has three threads so that
the middle of the order is not empty; `SNELES` and `BITLEN` enter only the byte counts,
which are linear in both. `MaxRuns` and `MaxMatches` are the only bounds in guards.
Deadlock is not checked for `smpaq2` and `smpaq2_shares`, which really may stop
(`StopsOnlyByReuse` says where), nor where a process ends and leaves nothing to do (`launch`, `smpaq2_crash`).
It is checked for everything else.

**Fairness.** Weak fairness of every thread and nothing else: these are threads of the
operating system, each of which polls or blocks in a read for ever until it can go on.
In `Launch`, `main` of either process is a thread too, and a client thread that tries for ever
runs out of tries. `RunSmpaq` has no fairness: that `run_smpaq` returns does not follow
from the scheduling of its threads (finding 1), so `Ends` and `WaitsOnlyInAccept` speak of the case
that it does not. In `OtCalls` each side is a thread. `FairCrashSpec` schedules the threads of a living
process; no process need crash.

## 4. Findings

1. *SMPAQ2 may never end.* `Cf2` is used for two sites in a row
   (`functionalities.cpp` 276 and 317), and `Sf2` too (530 and 566). (a) The center
   resets `Cf2`, finishes its exchange and increments the flag for the next site
   before the leader's poll has seen the 0; leader and center then wait for ever.
   (b) The function passed at line 276 resets the flag and `waitFor` resets it
   again; a leader that goes on and increments between the two loses its count,
   and goes past the last site alone. (c) The server's leader resets `Sf2`, runs
   the second PRF and increments before the center has seen the 0. Each needs a
   thread to be delayed past another's network exchange. SMPAQ1 is safe: its `Sf1`
   site lies between its two uses of `Sf2`.
2. *With fewer elements than servers the sum is too small.* The rows of the second
   PRF, one per server, are cut to `sneles` (lines 538, 552 and 788).

Seen while modelling, within what the properties say, without a run of their own:

* *The leader's insertion may be past the end* (`sm_paq.cpp` 309). If the order drawn
  starts with `n-1`, which it does once in `n` launches, `vector::insert` is called
  with an iterator past the end. `Ends` excludes it (`BadDraw`); if the server
  survives, its leader's port is missing and the client's assertion on the socket
  (`functionalities.cpp` 916) fails, as `AllOrNothing` and `WaitsOnlyInAccept` show.
* *A sum that did not arrive is counted* (`functionalities.cpp` 292-297, 331-334). If the
  server dies in time, one or both sums are 0 and the total, a masked sum, is reported without
  the warning: `NeverWarned` holds, and `ReportsSomeShares` cannot be strengthened.
* *The cache file is used whatever its size* (`functionalities.cpp` 701): a later run
  with more elements, or one after a crash, reads past the end of the vector;
  `EntryPerElement` needs both of its conditions.
* *More than one query element* (`-c`) makes `blocks.at` throw (`ots.cpp` 77): both
  processes end, none is left alone (`EndsTogether`).
* *A random factor that is no unit* spoils the product for good (`Paillier.hpp` 12); its
  probability is negligible for the built-in primes.
* *Byte counters.* In SMPAQ2 the received bytes exceed those sent by
  `8*s*(n+6) - 4` over all threads, with `s` elements (`Communication`, `TrafficBalances`);
  the printing of these counters is commented out.
* *A comment.* `Paillier.hpp` 52-53 says "between 1 and 100"; the code draws up to 10000.

## 5. What is proved

All by TLAPS, for every value of the constants that the named assumptions allow.

**WaitForProofs**, for every finite set of threads, any subset of arrivers, any
special thread, and one reset or two, from `WaitForAssumption`:

* `Invariance`: `IInv` is an invariant. It is inductive: until the first reset the
  flag is *equal to the number of arrivers past their increment*
  (`FlagCountsArrivals`). An arriver that reads 0 has itself been counted, so the
  flag has been reset, so the function has run. A special thread that reads the full
  count sees a subset of the arrivers of the same cardinality, hence all of them
  (`CountOfArrivers`, from the library's facts about finite sets).
* `Refinement`: the site implements `Rendezvous`, step by step: an increment is an
  arrival, the function is the run, leaving the loop is leaving.

**OtCallsProofs**, for any sequence of calls with any inputs and rows, from
`OtCallsAssumption`. The invariant lists the few configurations a channel can be
in: where the two sides are, and exactly which messages are in the two queues. From it:
`InOrder` (`MessagesInStep`), `EqualItems` (`EqualIffSameItem`: both sides' seeds of a call
are the same pair) and `CallsRefinement` (`PrfPair`).

**LaunchProofs**, for any number of threads from 2 up, from `LaunchAssumption`: a lemma
on what two insertions do (unless the first is past the end, the result is a permutation of the
indices), then an invariant that `flagOfWait` equals the number of threads that have
arrived until the leader's reset, that the leader goes on when all have, and that a connected
client thread has a connected server thread of the same index, so that a process all
of whose threads have arrived has a peer of which all are connected. From it `Together`
(`RunsTogether`), `WholeOrNot` (`AllOrNothing`) and the types. `TrafficIs` (`TrafficBalances`)
needs two things more. `ContextsOk`, on top of that invariant, says that the contexts are those
of the threads that have ended, and that a process that has exited has averaged them after all
had: so it has averaged one per index, the order being a permutation. And the sum over the threads of
both processes: the library sums in an order that nothing is known of, so `SumIs` shows that any function of sets that
starts with 0 and grows by each element's summand, in whatever order, is the sum;
`ExcessCounts` gives that function (the number of servers so far, and whether the leader and the center are
among them), and `Excess1` and `Excess2` put in the byte counts.

**EncryptCacheProofs**, for any servers, sizes, numbers, faults and number of runs, from
`EncryptCacheAssumption`: a file is a torn copy of its one draw, a thread's table is
the draw it wrote or the file it found, which stays as it was (`FoundOk`); without spoiling a closed file is its whole draw.
From it `OneDraw`, `BadIsOld`, `FileServes` and the types.

**Smpaq1Proofs**, for every number of servers from 2 up, any number of elements and any
payloads, from `ProtocolAssumption`:

* `KeyInvariance`: `KeyInvariant` is an invariant of both processes together. Its
  first part is the counting argument at the server's site on `Sf2_Ng`, over the
  threads' labels in the whole protocol: until the center resets the flag, it equals the
  number of the others past their increment (`NgCounts`); the center goes on when all
  are counted (`CenterAfterAll`), and the others after the center (`OthersAfterCenter`).
  Its second part, `KeyUnderWay`, follows the key: about to be sent by the client's
  leader; on the socket, alone, while that leader is held in the PRF call, which
  it cannot leave before the server's leader enters it; in `ng`.
* `KeyFirst`: no server thread encrypts before the key is in `ng`. A thread that
  encrypts is past the site, so the leader was counted there, so it has the key.
  The property alone is not inductive: it says nothing of a thread that has yet to
  pass the site.

**RunProofs** is what the two protocols share: what putting and taking a message does to
a socket of at most two messages, and one call site as a *record*: its threads, arrivers
and special thread, and the labels before the site, of the poll, of the function and of
the reset. `Meets` is the invariant of `WaitForProofs` over such labels: until the special
thread leaves, the flag is the number of those past their increment; the special
thread goes on after all of them, the others after it. There is one lemma for each kind of step
(`Arrives`, `SeesAll`, `RunsFunction`, `Resets`, `SeesZero`, and `Passes` for a step that
the site does not notice): it keeps `Meets`, and is what `Rendezvous` allows.

It also holds the facts about data that both need: sums over sets, which the library
defines by `MapThenFoldSet`, a recursive *function*, so that no induction theorem is needed to
unfold a step of it (`SumStep`, `SumTakes`, `SumSame`, `SumPlus`, `SumModulo`); `FlattenSeq`
over rows of one entry, by `Received` and `Sent`; `FoundSum`, the sum over the matches
of the encoded identifiers as a sum over the servers.

**Smpaq1Proofs**, second part. `PairsInStep` is a list of
configurations of a client thread, the server thread of its number and the socket between
them: ten for the two leaders, four for any other pair. `ClientMeets` and `ServerMeets`
are `Meets` of the two sites of the client and the four of the server. From these:

* `Sites`: `SitesAreRendezvous`, for all six sites. The two on `Sf2` are told apart by where the
  leader is: until it has left the first, the flag is that site's count and nobody has arrived
  at the other (`Again`); a thread that arrives there is past the first site, so the
  leader is too (`LeaderIsPast`).
* `InStep`: `SocketsInStep`; the configurations name the message at the head.
* `BeginFirst`: `EndsAfterAllBegan`. A thread that ends has exchanged statistics with
  its peer, so each of the two is past the sites of its own process, so everybody else has
  arrived at the last client site and at the first server site on `Sf2` (`AllMet`).

**Smpaq1Proofs**, third part, what SMPAQ1 computes. `DataInvariant` gives every table, file and
message as a function of where the threads are (`ClientRows`, `ServerRows`, `Ciphers`,
`Exchange`, `Reported`). It is an invariant together with the ones above (`DataInvariance`): the
sites say that a table is complete when somebody reads it, and the sockets, that the
message read is the one `Exchange` speaks of. From these:

* `AllRows`: `ReadersSeeAllRows`, if there are as many elements as servers (`SNELES >= N`).
  With fewer the property is false, as the code is (finding 2): `psmFunc1` passes row `t` as
  its input only for `t < SNELES`.
* `PrintsFound`, for all sizes: what is printed is the sum over `Found`, the servers that the
  second PRF reached and that hold the queried item, modulo the Paillier modulus.
* `Implements`: `ImplementsAggregateQuery`, if `SNELES >= N`; then `Found` is everybody who holds
  the item. `SEncrypt` is `Contribute`, the leader's decryption is the report, and every
  other step a stutter.
* `TypeCorrect`: the type invariant. A flag is 0 while its special thread is not at the
  site (`AtRest`), and otherwise at most the number of those who count.

**Smpaq2Proofs**, under the same assumptions:

* `InStep`, as above: eight configurations for a party's pair, four for another's.
* `NeverWarns`: `PartyCounts` follows `Cf2` and the count of sums through the two sites
  that share the flag. Up to the first reset `Cf2` is the number of parties at the
  second site; after the second one it is *at most* the number of parties at the third,
  because an increment between the two resets is lost. So a center that reads 2 at the third site has
  the leader there or past it, and a leader there has counted its sum. The warning is
  not reached, though the site may be passed early.
* `BeginFirst`: `EndsAfterAllBegan`, from the count of arrivals at the server's first
  site on `Sf1` (`BeginCounts`), and since a client's thread is in its first PRF only
  as long as its server thread is.
* `Sites`: `SitesAreRendezvous`, for the five sites that are. Two things do not fit the counting
  argument as `RunProofs` has it. At a site whose function resets the flag itself, the others may
  leave from then on, while the special thread has yet to do `waitFor`'s own reset: such a site
  counts as left once the function has run, and `Late` takes the special thread out of
  those who have left until its reset is done (`KeptEarly`, `LegalKeeps`). And
  the server's last site uses the flag of the leader's site: `Again` is 0 until the leader
  has left that one, and `Sf2` from then on. Each kind of step (`Legal`) is shown once for
  all sites, and each action to be of one of those kinds at each site (`ClientIsLegal`,
  `ServerIsLegal`).
* `DataInvariance`: `DataInvariant` gives tables, messages and sums as functions of where the
  threads are. `ClientRows` and `ServerRows` are as in `Smpaq1Proofs`; `Shares` says that
  the two shares of each payload add up to it modulo `Word`, whatever the mask was; `Exchange` what a
  party that waits for its sum finds on its socket; `Sums`, `Reported` and `CountReset` what
  has been received, printed and reset. That the two sums add up to the total
  (`SharesAddUp`) is `SumPlus` and `SumModulo`.
* `AllRows`: `ReadersSeeAllRows`. `PrintsFound`, for all sizes: what is printed is the total over `Found`.
  `Implements`: `ImplementsAggregateQuery`, if `SNELES >= N`, as for SMPAQ1; `SShare` is
  `Contribute` and `CFunc3` the report.
* `TypeCorrect`: the type invariant. `Cf2` is bounded through `PartyCounts`, the other flags by
  being 0 between two uses (`FlagsRest`).

**Smpaq2Proofs, a process going away**, about `Smpaq2Crash`, from the same assumptions and any set of
processes that may crash. What the invariants above say about the two ends of a socket is false here: a thread whose peer is
dead goes on. So the proofs rest on what a process keeps without its peer. `CrashInvariant`: the places
of the threads, `PartyCounts` (a receive that brings nothing counts like one that
succeeds), the client's rows, the counts at the first client site and at the leader's site of
the server, and two facts that join the processes. A party that has its
second PRF had a living server for it, which is past the leader's site (`AskedLate`); a client
that has reported has two such parties (`ReportedLate`). `CrashData` adds the values: the
server's rows and shares as above; for each party, what is on its socket *as long as the
process that reads it lives* (`QueryUnderWay`, `SumUnderWay`); that a party has its sum or 0
(`SumsInHand`), and that the report is made of two of these (`ReportOfSums`). Both were checked
with TLC on the instance of `smpaq2_crash` before they were proved. From them:

* `LateReport`: `ReportsOnlyAfterShares`. `NeverWarnsEither`: `NeverWarned`.
* `SomeShares`: `ReportsSomeShares`, if `SNELES >= N`; with fewer elements a party's sum
  leaves servers out also without a crash.

With the two theorems `BeginFirst` the guard that `Launch` puts on `RunSmpaq` is proved of both
protocols, and with `CallsRefinement` their PRF steps are of the calls.

`SNELES >= N` is the only hypothesis beyond the assumptions of the modules. It is not an
assumption because the code does not justify it: it runs with fewer elements, and finding 2
is what happens then. Where it is a hypothesis the property is false without it.

The label sets are taken as ranges of `COrder` and `SOrder`; one lemma per kind of
step, one step per action of `Client` and `Server`.

**PaillierProofs**, for all key pairs of two different primes that have a `lambdaInverse`, any
numbers and any count of matches, from `PaillierAssumption`. Nothing of number theory is taken from a library
but the definitions of `%` and of divisors, so the module first proves what the scheme rests on. Induction
over exponents is over *sets of numbers* (`NatSets`, from the library's well-founded induction), which
needs no theorem about an arbitrary operator; `Recursion` shows that powers and products exist, and
`PowerModIs` that the recursive function inside `PowerMod` is the remainder of the power. Then:

* modulo a prime everything but 0 has an inverse (`HasInverse`, from the least remainder among the
  multiples), so a prime that divides a product divides a factor (`PrimeDivides`);
* Fermat's theorem, since multiplying by such a number permutes `1..p-1` (`Fermat`);
* `lambda` is a multiple of `p - 1` and of `q - 1` (`QuotientIs`), so a unit to the power
  `lambda` is 1 modulo `n`, and to the power `n * lambda` 1 modulo `n^2` (`PowNear`, `Order`);
* the factor of a ciphertext matters modulo `n` only (`FactorIs`), so a product of ciphertexts is the
  ciphertext of the sum (`Homomorphic`), and `L_function` of its power is `lambda` times the number
  (`DecryptIs`).

`PaillierInvariant` says that `sum` *is an encryption of* `total` under a unit below `n`, unless a factor was no
unit, and that `sum` is a unit exactly if none was. `DecryptsToSum` alone is not inductive: that `sum`
decrypts to the total says nothing of what its next multiple decrypts to. From it `ClientDecryptsSum`
and `SpoiltShows` (`SpoiltProductShows`). TLC had checked the invariant on the instance of `paillier_sum`.

Only model-checked: liveness, and `StopsOnlyByReuse`, whose definition uses `ENABLED`; the provers reach
neither. Every other invariant of a passing run, and every action property and refinement, is a theorem.

## 6. What is left

* `n = 1`, where both roles fall to one thread.
* The crashes of `Smpaq2Crash` for SMPAQ1.

## 7. Not modelled

* Options (the constants stand for them), timings and their average over 20 slots, debug files
  and timers: nothing of the protocol depends on them.
* The hash by which `VRF.hpp` sorts the servers: `Launch` takes any order. Cryptographic
  strength is not a subject of these models.
* The names of the OT channels, whose port is added to the address of a string literal
  (`sm_paq.cpp` 96): both processes run the same binary.
* A key is one message, not a length and bytes; the missing terminating zero
  (`functionalities.cpp` 448) has no place in that.
* `waitFor2`, `KA.hpp`, `unuse.hpp` and other code that nothing calls; `-c 0`.
* `run.sh`, which does not parse (a `fi` is missing) and starts a binary the build does
  not produce; the third-party code.
* `n = 1` is outside of the assumptions (leader and center would be one thread).
