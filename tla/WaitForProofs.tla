--------------------------- MODULE WaitForProofs ---------------------------
(***************************************************************************)
(* Proofs about one call site of waitFor, for any finite set of threads,   *)
(* any arrivers and any special thread.                                    *)
(***************************************************************************)
EXTENDS WaitFor, FiniteSetTheorems, TLAPS

\* The count of a set of arrivers is a number up to that of all of them, and
\* equals it only for all of them: why the special thread may trust the count.
LEMMA CountOfArrivers ==
  ASSUME NEW S \in SUBSET Arrivers
  PROVE  /\ IsFiniteSet(S)
         /\ Cardinality(S) \in 0..Cardinality(Arrivers)
         /\ Cardinality(S) = Cardinality(Arrivers) => S = Arrivers
         /\ Cardinality(S) = 0 <=> S = {}
<1>1. IsFiniteSet(Arrivers)
  BY WaitForAssumption, FS_Subset
<1>2. /\ IsFiniteSet(S)
      /\ Cardinality(S) <= Cardinality(Arrivers)
      /\ Cardinality(S) = Cardinality(Arrivers) => S = Arrivers
  BY <1>1, FS_Subset
<1>3. Cardinality(S) \in Nat /\ Cardinality(Arrivers) \in Nat
  BY <1>1, <1>2, FS_CardinalityType
<1>4. Cardinality(S) = 0 <=> S = {}
  BY <1>2, FS_EmptySet
<1> QED
  BY <1>2, <1>3, <1>4

\* The invariant holds before any thread has reached the site.
LEMMA InitIInv == Init => IInv
<1> SUFFICES ASSUME Init
             PROVE  IInv
  OBVIOUS
<1>1. arrived = {}
  BY WaitForAssumption DEF Init, arrived
<1>2. Cardinality({}) = 0 /\ Cardinality(Arrivers) \in Nat
  BY CountOfArrivers, FS_EmptySet
<1>3. pc[Special] = "work"
  BY WaitForAssumption DEF Init
<1>4. TypeOK
  BY <1>2 DEF Init, TypeOK, Labels
<1>5. FlagCountsArrivals
  BY <1>1, <1>2, <1>3 DEF Init, FlagCountsArrivals, FlagReset
<1>6. SpecialSawAll /\ NobodyEarly /\ OnlySpecialRuns
  BY <1>3, WaitForAssumption DEF Init, SpecialSawAll, NobodyEarly, OnlySpecialRuns
<1> QED
  BY <1>4, <1>5, <1>6 DEF IInv

\* Every step keeps the invariant.
LEMMA NextIInv == IInv /\ [Next]_vars => IInv'
<1> SUFFICES ASSUME IInv, [Next]_vars
             PROVE  IInv'
  OBVIOUS
<1> USE DEF IInv, Labels
<1>0. /\ Special \in Threads
      /\ Arrivers \subseteq Threads
      /\ FuncResets \in BOOLEAN
      /\ pc \in [Threads -> Labels]
  BY WaitForAssumption DEF TypeOK
<1>1. ASSUME NEW t \in Threads, Increment(t)
      PROVE  IInv'
  <2>1. /\ t \in Arrivers /\ pc[t] = "work"
        /\ pc' = [pc EXCEPT ![t] = "wait"] /\ flag' = flag + 1
    BY <1>1 DEF Increment, Goto
  <2>2. arrived' = arrived \cup {t} /\ t \notin arrived
    BY <1>0, <2>1 DEF arrived
  <2>3. /\ IsFiniteSet(arrived)
        /\ Cardinality(arrived') \in 0..Cardinality(Arrivers)
        /\ Cardinality(arrived) \in Nat
    <3>1. arrived \in SUBSET Arrivers /\ arrived' \in SUBSET Arrivers
      BY DEF arrived
    <3> QED
      BY <3>1, CountOfArrivers
  <2>4. Cardinality(arrived') = Cardinality(arrived) + 1
    BY <2>2, <2>3, FS_AddElement
  <2>5. pc[Special] \notin {"func", "reset", "left"}
    BY <2>1 DEF SpecialSawAll, arrived
  <2>6. ~FlagReset /\ ~FlagReset'
    BY <1>0, <2>1, <2>5 DEF FlagReset
  <2>7. FlagCountsArrivals'
    BY <2>1, <2>4, <2>6 DEF FlagCountsArrivals
  <2>8. TypeOK'
    BY <1>0, <2>1, <2>3, <2>6, <2>7 DEF TypeOK, FlagCountsArrivals
  <2>9. SpecialSawAll' /\ NobodyEarly' /\ OnlySpecialRuns'
    BY <1>0, <2>1, <2>5
       DEF SpecialSawAll, NobodyEarly, OnlySpecialRuns, ran
  <2> QED
    BY <2>7, <2>8, <2>9
<1>2. ASSUME NEW t \in Threads, Enter(t)
      PROVE  IInv'
  <2>1. /\ t \notin Arrivers /\ pc[t] = "work"
        /\ pc' = [pc EXCEPT ![t] = "wait"] /\ flag' = flag
    BY <1>2 DEF Enter, Goto
  <2>2. arrived' = arrived
    BY <1>0, <2>1 DEF arrived
  <2>3. FlagReset' = FlagReset /\ ran' = ran
    BY <1>0, <2>1 DEF FlagReset, ran
  <2> QED
    BY <1>0, <2>1, <2>2, <2>3
       DEF TypeOK, FlagCountsArrivals, SpecialSawAll, NobodyEarly, OnlySpecialRuns
<1>3. ASSUME NEW t \in Threads, QuitLoop(t)
      PROVE  IInv'
  <2>1. /\ t # Special /\ flag = 0 /\ pc[t] = "wait"
        /\ pc' = [pc EXCEPT ![t] = "left"] /\ flag' = flag
    BY <1>3 DEF QuitLoop, Goto
  <2>2. arrived' = arrived
    BY <1>0, <2>1 DEF arrived
  <2>3. FlagReset' = FlagReset /\ ran' = ran
    BY <1>0, <2>1 DEF FlagReset, ran
  <2>4. t \in Arrivers => ran
    <3>1. SUFFICES ASSUME t \in Arrivers
                   PROVE  FlagReset
      BY DEF FlagReset, ran
    <3>2. t \in arrived
      BY <2>1, <3>1 DEF arrived
    <3>3. arrived \in SUBSET Arrivers
      BY DEF arrived
    <3>4. Cardinality(arrived) # 0
      BY <3>2, <3>3, CountOfArrivers
    <3> QED
      BY <2>1, <3>4 DEF FlagCountsArrivals
  <2>5. NobodyEarly'
    BY <1>0, <2>1, <2>3, <2>4 DEF NobodyEarly
  <2> QED
    BY <1>0, <2>1, <2>2, <2>3, <2>5
       DEF TypeOK, FlagCountsArrivals, SpecialSawAll, OnlySpecialRuns
<1>4. ASSUME SeeAll
      PROVE  IInv'
  <2>1. /\ flag = Cardinality(Arrivers) /\ pc[Special] = "wait"
        /\ pc' = [pc EXCEPT ![Special] = "func"] /\ flag' = flag
    BY <1>4 DEF SeeAll, Goto
  <2>2. arrived' = arrived
    BY <1>0, <2>1 DEF arrived
  <2>3. ~FlagReset /\ ~FlagReset' /\ ~ran
    BY <1>0, <2>1 DEF FlagReset, ran
  <2>4. arrived = Arrivers
    <3>1. arrived \in SUBSET Arrivers
      BY DEF arrived
    <3>2. Cardinality(arrived) = Cardinality(Arrivers)
      BY <2>1, <2>3 DEF FlagCountsArrivals
    <3> QED
      BY <3>1, <3>2, CountOfArrivers
  <2>5. NobodyEarly'
    BY <1>0, <2>1, <2>3 DEF NobodyEarly
  <2> QED
    BY <1>0, <2>1, <2>2, <2>3, <2>4, <2>5
       DEF TypeOK, FlagCountsArrivals, SpecialSawAll, OnlySpecialRuns
<1>5. ASSUME CallFunc
      PROVE  IInv'
  <2>1. /\ pc[Special] = "func"
        /\ pc' = [pc EXCEPT ![Special] = "reset"]
        /\ flag' = IF FuncResets THEN 0 ELSE flag
    BY <1>5 DEF CallFunc, Goto
  <2>2. arrived' = arrived /\ arrived = Arrivers
    BY <1>0, <2>1 DEF arrived, SpecialSawAll
  <2>3. ran' /\ ~FlagReset /\ (FlagReset' <=> FuncResets)
    BY <1>0, <2>1 DEF FlagReset, ran
  <2>4. Cardinality(Arrivers) \in Nat
    BY CountOfArrivers
  <2>5. TypeOK'
    BY <1>0, <2>1, <2>4 DEF TypeOK
  <2>6. FlagCountsArrivals'
    BY <2>1, <2>2, <2>3 DEF FlagCountsArrivals
  <2> QED
    BY <1>0, <2>1, <2>2, <2>3, <2>5, <2>6
       DEF SpecialSawAll, NobodyEarly, OnlySpecialRuns
<1>6. ASSUME Reset
      PROVE  IInv'
  <2>1. /\ pc[Special] = "reset" /\ flag' = 0
        /\ pc' = [pc EXCEPT ![Special] = "left"]
    BY <1>6 DEF Reset, Goto
  <2>2. arrived' = arrived /\ arrived = Arrivers
    BY <1>0, <2>1 DEF arrived, SpecialSawAll
  <2>3. ran' /\ FlagReset'
    BY <1>0, <2>1 DEF FlagReset, ran
  <2>4. Cardinality(Arrivers) \in Nat
    BY CountOfArrivers
  <2>5. TypeOK'
    BY <1>0, <2>1, <2>4 DEF TypeOK
  <2> QED
    BY <1>0, <2>1, <2>2, <2>3, <2>5
       DEF FlagCountsArrivals, SpecialSawAll, NobodyEarly, OnlySpecialRuns
<1>7. CASE UNCHANGED vars
  BY <1>7 DEF vars, TypeOK, FlagCountsArrivals, FlagReset, SpecialSawAll,
              NobodyEarly, OnlySpecialRuns, arrived, ran
<1> QED
  BY <1>1, <1>2, <1>3, <1>4, <1>5, <1>6, <1>7 DEF Next, Step, Done

\* The counter and the labels stay in their types, the flag counts the
\* arrivals until it is reset, and nobody passes before the function has run
\* (globalFlag and waitFor, common/utils.hpp:43-106).
THEOREM Invariance == Spec => []IInv
<1> QED
  BY InitIInv, NextIInv, PTL DEF Spec
-----------------------------------------------------------------------------
\* A step of the code is a step of the rendezvous or leaves it alone.
LEMMA StepRefines == IInv /\ [Next]_vars => [Promise!Next]_(Promise!vars)
<1> SUFFICES ASSUME IInv, [Next]_vars
             PROVE  Promise!Next \/ UNCHANGED <<arrived, ran, left>>
  BY DEF Promise!vars
<1>0. /\ Special \in Threads
      /\ Arrivers \subseteq Threads
      /\ pc \in [Threads -> Labels]
  BY WaitForAssumption DEF IInv, TypeOK
<1>1. ASSUME NEW t \in Threads, Increment(t)
      PROVE  Promise!Arrive(t)
  <2>1. /\ t \in Arrivers /\ pc[t] = "work"
        /\ pc' = [pc EXCEPT ![t] = "wait"]
    BY <1>1 DEF Increment, Goto
  <2>2. arrived' = arrived \cup {t} /\ t \notin arrived /\ left' = left
    BY <1>0, <2>1 DEF arrived, left
  <2>3. ran' = ran
    BY <1>0, <2>1 DEF ran, IInv, SpecialSawAll, arrived
  <2> QED
    BY <2>1, <2>2, <2>3 DEF Promise!Arrive
<1>2. ASSUME NEW t \in Threads, Enter(t)
      PROVE  UNCHANGED <<arrived, ran, left>>
  BY <1>0, <1>2 DEF Enter, Goto, arrived, ran, left
<1>3. ASSUME NEW t \in Threads, QuitLoop(t)
      PROVE  Promise!Leave(t)
  <2>1. /\ t # Special /\ pc[t] = "wait"
        /\ pc' = [pc EXCEPT ![t] = "left"]
    BY <1>3 DEF QuitLoop, Goto
  <2>2. arrived' = arrived /\ left' = left \cup {t} /\ t \notin left
    BY <1>0, <2>1 DEF arrived, left
  <2>3. ran' = ran
    BY <1>0, <2>1 DEF ran
  <2>4. IInv'
    BY NextIInv
  <2>5. t \in Arrivers => ran
    BY <1>0, <2>1, <2>3, <2>4 DEF IInv, NobodyEarly
  <2>6. t \in Arrivers => t \in arrived
    BY <2>1 DEF arrived
  <2> QED
    BY <2>1, <2>2, <2>3, <2>5, <2>6 DEF Promise!Leave
<1>4. ASSUME SeeAll
      PROVE  UNCHANGED <<arrived, ran, left>>
  BY <1>0, <1>4 DEF SeeAll, Goto, arrived, ran, left
<1>5. ASSUME CallFunc
      PROVE  Promise!Run
  <2>1. /\ pc[Special] = "func"
        /\ pc' = [pc EXCEPT ![Special] = "reset"]
    BY <1>5 DEF CallFunc, Goto
  <2>2. arrived = Arrivers
    BY <2>1 DEF IInv, SpecialSawAll
  <2>3. arrived' = arrived /\ left' = left
    BY <1>0, <2>1 DEF arrived, left
  <2>4. ~ran /\ ran' = TRUE
    BY <1>0, <2>1 DEF ran
  <2> QED
    BY <2>2, <2>3, <2>4 DEF Promise!Run
<1>6. ASSUME Reset
      PROVE  Promise!Leave(Special)
  <2>1. /\ pc[Special] = "reset"
        /\ pc' = [pc EXCEPT ![Special] = "left"]
    BY <1>6 DEF Reset, Goto
  <2>2. arrived = Arrivers
    BY <2>1 DEF IInv, SpecialSawAll
  <2>3. /\ arrived' = arrived
        /\ left' = left \cup {Special} /\ Special \notin left
    BY <1>0, <2>1 DEF arrived, left
  <2>4. ran /\ ran' = ran
    BY <1>0, <2>1 DEF ran
  <2> QED
    BY <1>0, <2>2, <2>3, <2>4 DEF Promise!Leave
<1>7. CASE UNCHANGED vars
  BY <1>7 DEF vars, arrived, ran, left
<1> QED
  BY <1>0, <1>1, <1>2, <1>3, <1>4, <1>5, <1>6, <1>7
     DEF Next, Step, Done, Promise!Next

\* One call site of waitFor is a rendezvous, whatever the number of threads,
\* whoever is special and whether or not its function resets the flag itself
\* (waitFor, common/utils.hpp:80-106).
THEOREM Refinement == Spec => ImplementsRendezvous
<1>1. Init => Promise!Init
  <2>1. Init => arrived = {} /\ left = {}
    BY WaitForAssumption DEF Init, arrived, left
  <2>2. Init => ran = FALSE
    BY WaitForAssumption DEF Init, ran
  <2> QED
    BY <2>1, <2>2 DEF Promise!Init
<1> QED
  BY <1>1, Invariance, StepRefines, PTL DEF Spec, ImplementsRendezvous, Promise!Spec
=============================================================================
