---------------------------- MODULE EncryptCache ----------------------------
(***************************************************************************)
(* The files of ciphertexts that SMPAQ1's servers keep between runs        *)
(* (run_smpaq in common/functionalities.cpp, common/fileReader.hpp).       *)
(*                                                                         *)
(* In its first run a server thread draws a number per element, encrypts   *)
(* them, and writes them to Server_Data_EncryptData_<i>.csv, one line of   *)
(* cells.  In every later run it reads that file instead.  Then it puts    *)
(* the ciphertexts into serverData, and once all threads have done so, the *)
(* leader looks up the k-th ciphertext of a server for its k-th element.   *)
(*                                                                         *)
(* One process runs after the other in the same directory, each with a     *)
(* number of elements of its own (-s).  A cell is a number; -c stands for  *)
(* the text of c cut short, which is read as another number.               *)
(***************************************************************************)
EXTENDS Integers, SequencesExt

CONSTANTS Servers,  \* the server threads
          Sizes,    \* the numbers of elements that runs are started with
          Numbers,  \* the ciphertexts
          Faults,   \* "crash", "open" (no file can be created), "full" (disk)
          MaxRuns   \* a bound of the model

ASSUME EncryptCacheAssumption ==
  /\ Sizes \subseteq Nat \ {0} /\ Sizes # {}
  /\ Numbers \subseteq Nat \ {0} /\ Numbers # {}
  /\ Faults \subseteq {"crash", "open", "full"} /\ MaxRuns \in Nat

VARIABLES
  runs,         \* how many runs have been started
  sneles,       \* of the present run
  pc,           \* where each server thread is; "down" when no process runs
  file,         \* the file of each server
  encryptData,  \* of each thread
  drawn,        \* history: what was drawn when the file was created
  found,        \* history: the file as the present run found it
  spoilt        \* history: a crash or a full disk has been

vars == <<runs, sneles, pc, file, encryptData, drawn, found, spoilt>>

Absent      == [exists |-> FALSE, cells |-> <<>>]
Holds(cs)   == [exists |-> TRUE, cells |-> cs]
Draws(s)    == [1..s -> Numbers]

\* What can have reached a file of which cs is to be written: some cells, and
\* possibly a part of the next.
Torn(cs) == {SubSeq(cs, 1, k) : k \in 0..Len(cs)}
            \cup {Append(SubSeq(cs, 1, k-1), -cs[k]) : k \in 1..Len(cs)}

\* What a thread can have in memory, drawn or read, and what a file can be.
AllDraws == UNION {Draws(s) : s \in Sizes}
Lines    == UNION {Torn(d) : d \in AllDraws}
Files    == {Absent} \cup {Holds(cs) : cs \in Lines}

TypeOK ==
  /\ runs \in 0..MaxRuns /\ sneles \in Sizes
  /\ pc \in [Servers -> {"down", "check", "write", "add", "added"}]
  /\ file \in [Servers -> Files]
  /\ encryptData \in [Servers -> Lines]
  /\ drawn \in [Servers -> {<<>>} \cup AllDraws]
  /\ found \in [Servers -> Files]
  /\ spoilt \in BOOLEAN

Init == /\ runs = 0 /\ sneles \in Sizes
        /\ pc = [i \in Servers |-> "down"]
        /\ file = [i \in Servers |-> Absent]
        /\ encryptData = [i \in Servers |-> <<>>]
        /\ drawn = [i \in Servers |-> <<>>]
        /\ found = [i \in Servers |-> Absent]
        /\ spoilt = FALSE

Goto(i, from, to) == pc[i] = from /\ pc' = [pc EXCEPT ![i] = to]
Down              == \A i \in Servers : pc[i] = "down"
-----------------------------------------------------------------------------
Start == /\ Down /\ runs < MaxRuns
         /\ runs' = runs + 1
         /\ sneles' \in Sizes
         /\ pc' = [i \in Servers |-> "check"]
         /\ encryptData' = [i \in Servers |-> <<>>]
         /\ found' = file
         /\ UNCHANGED <<file, drawn, spoilt>>

\* The process is gone, and with it what was not in a file.
Stop == /\ pc' = [i \in Servers |-> "down"]
        /\ encryptData' = [i \in Servers |-> <<>>]
        /\ found' = [i \in Servers |-> Absent]
        /\ UNCHANGED <<runs, sneles, file, drawn>>

Crash == "crash" \in Faults /\ ~Down /\ Stop /\ spoilt' = TRUE

\* Mutant: the numbers are drawn once for the file and once for the table.
Fresh_DrawnTwice(i) ==
  /\ ~file[i].exists
  /\ \E d, e \in Draws(sneles) :
       /\ encryptData' = [encryptData EXCEPT ![i] = d]
       /\ Goto(i, "check", "write")
       /\ file' = [file EXCEPT ![i] = Holds(<<>>)]
       /\ drawn' = [drawn EXCEPT ![i] = e]
  /\ UNCHANGED <<runs, sneles, found, spoilt>>

\* There is no file: draw, encrypt, and open the file.  If that fails, the
\* program says so and goes on.
Fresh(i) ==
  /\ ~file[i].exists
  /\ \E d \in Draws(sneles) :
       /\ encryptData' = [encryptData EXCEPT ![i] = d]
       /\ \/ /\ Goto(i, "check", "write")
             /\ file' = [file EXCEPT ![i] = Holds(<<>>)]
             /\ drawn' = [drawn EXCEPT ![i] = d]
          \/ /\ "open" \in Faults
             /\ Goto(i, "check", "add")
             /\ UNCHANGED <<file, drawn>>
  /\ UNCHANGED <<runs, sneles, found, spoilt>>

\* The stream's buffer goes out when it is full, in the middle of a cell.
Flush(i) ==
  /\ pc[i] = "write"
  /\ \E cs \in Torn(encryptData[i]) :
       /\ Len(cs) > Len(file[i].cells)
       /\ file' = [file EXCEPT ![i] = Holds(cs)]
  /\ UNCHANGED <<runs, sneles, pc, encryptData, drawn, found, spoilt>>

\* Mutant: the loop over the cells ends one cell early.
Close_OneShort(i) ==
  /\ Goto(i, "write", "add")
  /\ file' = [file EXCEPT ![i] = Holds(Front(encryptData[i]))]
  /\ UNCHANGED <<runs, sneles, encryptData, drawn, found, spoilt>>

\* The rest goes out and the file is closed.  No error of the stream is looked
\* at: on a full disk the file stays as it is.
Close(i) ==
  /\ Goto(i, "write", "add")
  /\ \/ /\ file' = [file EXCEPT ![i] = Holds(encryptData[i])]
        /\ UNCHANGED spoilt
     \/ "full" \in Faults /\ UNCHANGED file /\ spoilt' = TRUE
  /\ UNCHANGED <<runs, sneles, encryptData, drawn, found>>

\* Mutant: the first cell is taken for a heading.
Read_Heading(i) ==
  /\ file[i].exists /\ file[i].cells # <<>>
  /\ Goto(i, "check", "add")
  /\ encryptData' = [encryptData EXCEPT ![i] = Tail(file[i].cells)]
  /\ UNCHANGED <<runs, sneles, file, drawn, found, spoilt>>

\* There is a file: take its first line, whatever its length.
Read(i) ==
  /\ file[i].exists /\ file[i].cells # <<>>
  /\ Goto(i, "check", "add")
  /\ encryptData' = [encryptData EXCEPT ![i] = file[i].cells]
  /\ UNCHANGED <<runs, sneles, file, drawn, found, spoilt>>

\* The file has no line: data[0] of an empty vector reads through a null
\* pointer, and the process dies.
ReadEmpty(i) == /\ pc[i] = "check"
                /\ file[i].exists /\ file[i].cells = <<>>
                /\ Stop /\ UNCHANGED spoilt

\* serverData.add
Add(i) == /\ Goto(i, "add", "added")
          /\ UNCHANGED <<runs, sneles, file, encryptData, drawn, found, spoilt>>

\* The rest of the run, which uses no file.
Finish == (\A i \in Servers : pc[i] = "added") /\ Stop /\ UNCHANGED spoilt

Done == Down /\ runs = MaxRuns /\ UNCHANGED vars

Next == \/ Start \/ Crash \/ Finish \/ Done
        \/ \E i \in Servers : \/ Fresh(i) \/ Flush(i) \/ Close(i)
                              \/ Read(i) \/ ReadEmpty(i) \/ Add(i)

Spec == Init /\ [][Next]_vars
-----------------------------------------------------------------------------
\* The search reads dataOfPsm2[j][k] for the k-th element of server j: there
\* is a ciphertext for each element, and none is cut, as long as no crash and
\* no full disk has been and the run has no more elements than the file.
EntryFor(k, cs) == k \in DOMAIN cs /\ cs[k] \in Numbers

EntryPerElement ==
  ~spoilt =>
    \A i \in Servers :
      pc[i] = "added" /\ (drawn[i] = <<>> \/ Len(drawn[i]) >= sneles) =>
        \A k \in 1..sneles : EntryFor(k, encryptData[i])

\* After crashes, full disks and runs with other numbers of elements, what a
\* server uses still comes from a single draw, with nothing of another run
\* mixed in, and only its last cell can be cut.
FromOneDraw ==
  \A i \in Servers :
    pc[i] = "added" /\ file[i].exists => encryptData[i] \in Torn(drawn[i])

\* What is wrong with the table was wrong with the file before this run: a run
\* that makes its file puts a full table in.
BadTableIsOld ==
  \A i \in Servers :
    /\ pc[i] = "added"
    /\ \E k \in 1..sneles : ~EntryFor(k, encryptData[i])
    => found[i].exists /\ encryptData[i] = found[i].cells
=============================================================================
