------------------------- MODULE EncryptCacheProofs -------------------------
(***************************************************************************)
(* Proofs about EncryptCache, for any servers, sizes, ciphertexts, faults  *)
(* and number of runs.                                                     *)
(***************************************************************************)
EXTENDS EncryptCache, TLAPS

(* The inductive invariant, with TypeOK.                                   *)

\* A file comes from the one draw that was made for it.
FileOk(i) ==
  file[i].exists => /\ drawn[i] \in AllDraws
                    /\ file[i].cells \in Torn(drawn[i])

\* A thread that writes has the draw in memory, an entry for every element.
WriterOk(i) ==
  pc[i] = "write" => /\ file[i].exists
                     /\ encryptData[i] = drawn[i]
                     /\ drawn[i] \in Draws(sneles)

Bad(cs) == \E k \in 1..sneles : ~EntryFor(k, cs)

\* What a thread is about to put into the table, or has put in.
TableOk(i) ==
  pc[i] \in {"add", "added"} =>
    /\ file[i].exists => encryptData[i] \in Torn(drawn[i])
    /\ Bad(encryptData[i]) =>
         found[i].exists /\ encryptData[i] = found[i].cells

\* What a run finds it has not made: the file stays as it was found.
FoundOk(i) ==
  /\ pc[i] = "check" => found[i] = file[i]
  /\ found[i].exists => file[i] = found[i] /\ pc[i] # "write"

\* Without a fault a file is whole as soon as its writer has closed it.
WholeOk(i) ==
  ~spoilt => /\ pc[i] # "write" /\ file[i].exists => file[i].cells = drawn[i]
             /\ ~file[i].exists => drawn[i] = <<>>

CacheInv ==
  /\ TypeOK
  /\ \A i \in Servers :
       FileOk(i) /\ WriterOk(i) /\ TableOk(i) /\ FoundOk(i) /\ WholeOk(i)
-----------------------------------------------------------------------------
(* Torn lines.                                                             *)

\* The whole line and the empty line are possible remains of a line.
LEMMA TornEnds ==
  ASSUME NEW d \in AllDraws
  PROVE  d \in Torn(d) /\ <<>> \in Torn(d)
<1>1. PICK s \in Sizes : d \in [1..s -> Numbers]
  BY DEF AllDraws, Draws
<1>2. s \in Nat
  BY EncryptCacheAssumption
<1>3. Len(d) = s /\ d \in Seq(Numbers)
  BY <1>1, <1>2
<1>4. SubSeq(d, 1, Len(d)) = d /\ SubSeq(d, 1, 0) = <<>>
  BY <1>2, <1>3
<1>5. 0 \in 0..Len(d) /\ Len(d) \in 0..Len(d)
  BY <1>2, <1>3
<1>. QED
  BY <1>4, <1>5 DEF Torn

\* All of them are lines, and a file of lines is a file.
LEMMA LinesAndFiles ==
  /\ \A d \in AllDraws : d \in Lines /\ Torn(d) \subseteq Lines
  /\ <<>> \in Lines
  /\ Absent \in Files
  /\ \A cs \in Lines : Holds(cs) \in Files
  /\ \A f \in Files : f.exists => f.cells \in Lines
<1>1. \A d \in AllDraws : Torn(d) \subseteq Lines
  BY DEF Lines
<1>2. \A d \in AllDraws : d \in Lines
  BY <1>1, TornEnds
<1>3. PICK s \in Sizes, x \in Numbers : TRUE
  BY EncryptCacheAssumption
<1>4. [k \in 1..s |-> x] \in AllDraws
  BY <1>3 DEF AllDraws, Draws
<1>5. <<>> \in Lines
  BY <1>1, <1>4, TornEnds
<1>6. Absent \in Files /\ \A cs \in Lines : Holds(cs) \in Files
  BY DEF Files
<1>7. ASSUME NEW f \in Files, f.exists
      PROVE  f.cells \in Lines
  <2>1. f # Absent
    BY <1>7 DEF Absent
  <2>2. PICK cs \in Lines : f = Holds(cs)
    BY <2>1, <1>7 DEF Files
  <2>. QED
    BY <2>2 DEF Holds
<1>. QED
  BY <1>1, <1>2, <1>5, <1>6, <1>7

\* A line drawn for the present run has an entry for every element.
LEMMA DrawIsGood ==
  ASSUME NEW s \in Sizes, NEW d \in Draws(s)
  PROVE  /\ \A k \in 1..s : EntryFor(k, d)
         /\ d \in AllDraws
         /\ Len(d) = s
BY EncryptCacheAssumption DEF Draws, EntryFor, AllDraws
-----------------------------------------------------------------------------
(* The steps.                                                              *)

ThreadOk(i) ==
  FileOk(i) /\ WriterOk(i) /\ TableOk(i) /\ FoundOk(i) /\ WholeOk(i)

\* What does not change of a thread and its file stays in order; a fault can
\* only make the last part void.
LEMMA Others ==
  ASSUME NEW j \in Servers, ThreadOk(j),
         sneles' = sneles, spoilt => spoilt',
         pc'[j] = pc[j], file'[j] = file[j],
         encryptData'[j] = encryptData[j], drawn'[j] = drawn[j],
         found'[j] = found[j]
  PROVE  ThreadOk(j)'
BY DEF ThreadOk, FileOk, WriterOk, TableOk, FoundOk, WholeOk, Bad, EntryFor

LEMMA CacheInit == Init => CacheInv
<1> SUFFICES ASSUME Init
             PROVE  CacheInv
  OBVIOUS
<1>1. TypeOK
  <2>1. runs \in 0..MaxRuns
    BY EncryptCacheAssumption DEF Init
  <2>2. <<>> \in Lines /\ Absent \in Files
    BY LinesAndFiles
  <2>. QED
    BY <2>1, <2>2 DEF Init, TypeOK
<1>2. ASSUME NEW i \in Servers
      PROVE  FileOk(i) /\ WriterOk(i) /\ TableOk(i) /\ FoundOk(i) /\ WholeOk(i)
  BY DEF Init, FileOk, WriterOk, TableOk, FoundOk, WholeOk, Absent
<1>. QED
  BY <1>1, <1>2 DEF CacheInv

\* One thread draws, writes, reads or adds.
LEMMA FreshStep ==
  ASSUME CacheInv, NEW i \in Servers, Fresh(i)
  PROVE  CacheInv'
<1>1. PICK d \in Draws(sneles) :
        /\ encryptData' = [encryptData EXCEPT ![i] = d]
        /\ \/ /\ Goto(i, "check", "write")
              /\ file' = [file EXCEPT ![i] = Holds(<<>>)]
              /\ drawn' = [drawn EXCEPT ![i] = d]
           \/ /\ Goto(i, "check", "add")
              /\ UNCHANGED <<file, drawn>>
  BY DEF Fresh
<1>2. UNCHANGED <<runs, sneles, found, spoilt>> /\ ~file[i].exists
  BY DEF Fresh
<1>3. /\ \A k \in 1..sneles : EntryFor(k, d)
      /\ d \in AllDraws
      /\ <<>> \in Torn(d)
      /\ d \in Lines /\ Holds(<<>>) \in Files
  BY DrawIsGood, TornEnds, LinesAndFiles DEF CacheInv, TypeOK
<1>4. TypeOK'
  BY <1>1, <1>2, <1>3 DEF CacheInv, TypeOK, Goto
<1>5. \A j \in Servers : j # i => ThreadOk(j)'
  BY <1>1, <1>2, Others DEF CacheInv, TypeOK, Goto, ThreadOk
<1>6. ThreadOk(i)'
  <2>1. CASE Goto(i, "check", "write")
    BY <2>1, <1>1, <1>2, <1>3
       DEF CacheInv, TypeOK, Goto, ThreadOk, FileOk, WriterOk, TableOk, FoundOk,
           WholeOk,
           Holds
  <2>2. CASE Goto(i, "check", "add")
    BY <2>2, <1>1, <1>2, <1>3
       DEF CacheInv, TypeOK, Goto, ThreadOk, FileOk, WriterOk, TableOk, FoundOk,
           WholeOk,
           Bad, EntryFor
  <2>. QED
    BY <2>1, <2>2, <1>1
<1>. QED
  BY <1>4, <1>5, <1>6 DEF CacheInv, ThreadOk

LEMMA FlushStep ==
  ASSUME CacheInv, NEW i \in Servers, Flush(i)
  PROVE  CacheInv'
<1>1. PICK cs \in Torn(encryptData[i]) : file' = [file EXCEPT ![i] = Holds(cs)]
  BY DEF Flush
<1>2. /\ pc[i] = "write"
      /\ UNCHANGED <<runs, sneles, pc, encryptData, drawn, found, spoilt>>
  BY DEF Flush
<1>3. TypeOK'
  <2>1. encryptData[i] \in AllDraws
    BY <1>2, DrawIsGood DEF CacheInv, TypeOK, WriterOk
  <2>2. Holds(cs) \in Files
    BY <2>1, LinesAndFiles
  <2>. QED
    BY <2>2, <1>1, <1>2 DEF CacheInv, TypeOK
<1>4. \A j \in Servers : j # i => ThreadOk(j)'
  BY <1>1, <1>2, Others DEF CacheInv, TypeOK, ThreadOk
<1>5. ThreadOk(i)'
  BY <1>1, <1>2
     DEF CacheInv, TypeOK, ThreadOk, FileOk, WriterOk, TableOk, FoundOk,
         WholeOk, Holds
<1>. QED
  BY <1>3, <1>4, <1>5 DEF CacheInv, ThreadOk

LEMMA CloseStep ==
  ASSUME CacheInv, NEW i \in Servers, Close(i)
  PROVE  CacheInv'
<1>1. /\ pc[i] = "write" /\ pc' = [pc EXCEPT ![i] = "add"]
      /\ UNCHANGED <<runs, sneles, encryptData, drawn, found>>
      /\ (spoilt => spoilt') /\ spoilt' \in BOOLEAN
      /\ \/ file' = [file EXCEPT ![i] = Holds(encryptData[i])] /\ spoilt' = spoilt
         \/ file' = file /\ spoilt'
  BY DEF Close, Goto, CacheInv, TypeOK
<1>2. /\ file[i].exists /\ encryptData[i] = drawn[i]
      /\ drawn[i] \in AllDraws /\ drawn[i] \in Torn(drawn[i])
      /\ \A k \in 1..sneles : EntryFor(k, drawn[i])
  BY <1>1, DrawIsGood, TornEnds DEF CacheInv, TypeOK, WriterOk
<1>3. TypeOK'
  <2>1. Holds(encryptData[i]) \in Files
    BY <1>2, LinesAndFiles
  <2>. QED
    BY <2>1, <1>1 DEF CacheInv, TypeOK
<1>4. \A j \in Servers : j # i => ThreadOk(j)'
  BY <1>1, Others DEF CacheInv, TypeOK, ThreadOk
<1>5. ThreadOk(i)'
  BY <1>1, <1>2
     DEF CacheInv, TypeOK, ThreadOk, FileOk, WriterOk, TableOk, FoundOk,
         WholeOk, Holds,
         Bad, EntryFor
<1>. QED
  BY <1>3, <1>4, <1>5 DEF CacheInv, ThreadOk

LEMMA ReadStep ==
  ASSUME CacheInv, NEW i \in Servers, Read(i)
  PROVE  CacheInv'
<1>1. /\ file[i].exists /\ pc[i] = "check" /\ pc' = [pc EXCEPT ![i] = "add"]
      /\ encryptData' = [encryptData EXCEPT ![i] = file[i].cells]
      /\ UNCHANGED <<runs, sneles, file, drawn, found, spoilt>>
  BY DEF Read, Goto
<1>2. TypeOK'
  <2>1. file[i].cells \in Lines
    BY <1>1, LinesAndFiles DEF CacheInv, TypeOK
  <2>. QED
    BY <2>1, <1>1 DEF CacheInv, TypeOK
<1>3. \A j \in Servers : j # i => ThreadOk(j)'
  BY <1>1, Others DEF CacheInv, TypeOK, ThreadOk
<1>4. ThreadOk(i)'
  BY <1>1
     DEF CacheInv, TypeOK, ThreadOk, FileOk, WriterOk, TableOk, FoundOk, WholeOk
<1>. QED
  BY <1>2, <1>3, <1>4 DEF CacheInv, ThreadOk

LEMMA AddStep ==
  ASSUME CacheInv, NEW i \in Servers, Add(i)
  PROVE  CacheInv'
<1>1. /\ pc[i] = "add" /\ pc' = [pc EXCEPT ![i] = "added"]
      /\ UNCHANGED <<runs, sneles, file, encryptData, drawn, found, spoilt>>
  BY DEF Add, Goto
<1>2. TypeOK'
  BY <1>1 DEF CacheInv, TypeOK
<1>3. \A j \in Servers : j # i => ThreadOk(j)'
  BY <1>1, Others DEF CacheInv, TypeOK, ThreadOk
<1>4. ThreadOk(i)'
  BY <1>1
     DEF CacheInv, TypeOK, ThreadOk, FileOk, WriterOk, TableOk, FoundOk,
         WholeOk, Bad, EntryFor
<1>. QED
  BY <1>2, <1>3, <1>4 DEF CacheInv, ThreadOk

\* A process starts or ends: only the files and their history remain.
LEMMA StartStep ==
  ASSUME CacheInv, Start
  PROVE  CacheInv'
<1>1. /\ Down /\ runs < MaxRuns /\ runs' = runs + 1
      /\ sneles' \in Sizes /\ pc' = [i \in Servers |-> "check"]
      /\ encryptData' = [i \in Servers |-> <<>>]
      /\ found' = file
      /\ UNCHANGED <<file, drawn, spoilt>>
  BY DEF Start
<1>2. TypeOK'
  <2>1. runs' \in 0..MaxRuns
    BY <1>1, EncryptCacheAssumption DEF CacheInv, TypeOK
  <2>. QED
    BY <2>1, <1>1, LinesAndFiles DEF CacheInv, TypeOK
<1>3. ASSUME NEW i \in Servers
      PROVE  ThreadOk(i)'
  <2>1. pc[i] = "down" /\ pc'[i] = "check"
    BY <1>1 DEF Down
  <2>. QED
    BY <2>1, <1>1 DEF CacheInv, ThreadOk, FileOk, WriterOk, TableOk, FoundOk,
                      WholeOk
<1>. QED
  BY <1>2, <1>3 DEF CacheInv, ThreadOk

\* A process may end without a fault only when none of its threads is writing.
LEMMA StopStep ==
  ASSUME CacheInv, Stop, spoilt => spoilt', spoilt' \in BOOLEAN,
         spoilt' \/ \A i \in Servers : pc[i] # "write"
  PROVE  CacheInv'
<1>1. /\ pc' = [i \in Servers |-> "down"]
      /\ encryptData' = [i \in Servers |-> <<>>]
      /\ found' = [i \in Servers |-> Absent]
      /\ UNCHANGED <<runs, sneles, file, drawn>>
  BY DEF Stop
<1>2. TypeOK'
  BY <1>1, LinesAndFiles DEF CacheInv, TypeOK
<1>3. ASSUME NEW i \in Servers
      PROVE  ThreadOk(i)'
  BY <1>1 DEF CacheInv, ThreadOk, FileOk, WriterOk, TableOk, FoundOk, WholeOk,
              Absent
<1>. QED
  BY <1>2, <1>3 DEF CacheInv, ThreadOk

\* A file without a line is the remains of a fault: a whole one has a cell per
\* element of the run that wrote it.
LEMMA EmptyFileIsSpoilt ==
  ASSUME CacheInv, NEW i \in Servers, ReadEmpty(i)
  PROVE  spoilt
<1>1. pc[i] = "check" /\ file[i].exists /\ file[i].cells = <<>>
  BY DEF ReadEmpty
<1>2. PICK s \in Sizes : drawn[i] \in [1..s -> Numbers]
  BY <1>1 DEF CacheInv, FileOk, AllDraws, Draws
<1>3. drawn[i] # <<>>
  BY <1>2, EncryptCacheAssumption
<1>. QED
  BY <1>1, <1>3 DEF CacheInv, WholeOk

LEMMA CacheStep == CacheInv /\ [Next]_vars => CacheInv'
<1> SUFFICES ASSUME CacheInv, [Next]_vars
             PROVE  CacheInv'
  OBVIOUS
<1>1. CASE Start
  BY <1>1, StartStep
<1>2. CASE Crash
  BY <1>2, StopStep DEF Crash
<1>3. CASE Finish
  <2>1. \A i \in Servers : pc[i] # "write"
    BY <1>3 DEF Finish
  <2>. QED
    BY <2>1, <1>3, StopStep DEF Finish, CacheInv, TypeOK
<1>4. ASSUME NEW i \in Servers, ReadEmpty(i)
      PROVE  CacheInv'
  BY <1>4, EmptyFileIsSpoilt, StopStep DEF ReadEmpty, CacheInv, TypeOK
<1>5. ASSUME NEW i \in Servers, Fresh(i) \/ Flush(i) \/ Close(i)
      PROVE  CacheInv'
  BY <1>5, FreshStep, FlushStep, CloseStep
<1>6. ASSUME NEW i \in Servers, Read(i) \/ Add(i)
      PROVE  CacheInv'
  BY <1>6, ReadStep, AddStep
<1>7. CASE UNCHANGED vars
  <2>1. ASSUME NEW i \in Servers
        PROVE  ThreadOk(i)'
    BY <1>7, Others DEF vars, CacheInv, ThreadOk
  <2>. QED
    BY <2>1, <1>7 DEF vars, CacheInv, TypeOK, ThreadOk
<1>. QED
  BY <1>1, <1>2, <1>3, <1>4, <1>5, <1>6, <1>7 DEF Next, Done

\* Every variable keeps its type: a file and a table are lines drawn, perhaps torn.
THEOREM TypeCorrect == Spec => []TypeOK
<1>1. CacheInv => TypeOK
  BY DEF CacheInv
<1>. QED
  BY <1>1, CacheInit, CacheStep, PTL DEF Spec

\* A table comes from the one draw of its server's file, and nothing of another
\* run is mixed in, whatever crashes, disks and sizes there have been.
THEOREM OneDraw == Spec => []FromOneDraw
<1>1. CacheInv => FromOneDraw
  BY DEF CacheInv, TableOk, FromOneDraw
<1>. QED
  BY <1>1, CacheInit, CacheStep, PTL DEF Spec

\* A table in which an entry is missing or cut was read from such a file,
\* which was there when the run began (readZZFromCSV takes what it finds).
THEOREM BadIsOld == Spec => []BadTableIsOld
<1>1. CacheInv => BadTableIsOld
  BY DEF CacheInv, TableOk, BadTableIsOld, Bad
<1>. QED
  BY <1>1, CacheInit, CacheStep, PTL DEF Spec

\* Without crashes and full disks a file serves every run that has no more
\* elements than the run that wrote it.
THEOREM FileServes == Spec => []EntryPerElement
<1>1. CacheInv => EntryPerElement
  <2> SUFFICES ASSUME CacheInv, ~spoilt,
                      NEW i \in Servers, pc[i] = "added",
                      drawn[i] = <<>> \/ Len(drawn[i]) >= sneles,
                      NEW k \in 1..sneles, ~EntryFor(k, encryptData[i])
               PROVE  FALSE
    BY DEF EntryPerElement
  <2>1. file[i].exists /\ encryptData[i] = drawn[i]
    BY DEF CacheInv, TableOk, FoundOk, WholeOk, Bad
  <2>2. PICK s \in Sizes : drawn[i] \in [1..s -> Numbers]
    BY <2>1 DEF CacheInv, FileOk, AllDraws, Draws
  <2>3. s \in Nat \ {0} /\ sneles \in Nat \ {0}
    BY EncryptCacheAssumption DEF CacheInv, TypeOK
  <2>4. s >= sneles
    BY <2>2, <2>3
  <2>. QED
    BY <2>1, <2>2, <2>3, <2>4 DEF EntryFor
<1>. QED
  BY <1>1, CacheInit, CacheStep, PTL DEF Spec
=============================================================================
