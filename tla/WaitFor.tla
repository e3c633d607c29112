------------------------------ MODULE WaitFor ------------------------------
(***************************************************************************)
(* globalFlag and waitFor (common/utils.hpp) at one call site, used once.  *)
(*                                                                         *)
(* The threads of Arrivers execute flag++ and then call waitFor; the other *)
(* threads only call it.  One thread is special: it polls until the flag   *)
(* equals the number of arrivers, runs its function and resets the flag.   *)
(* Every other thread polls until the flag is 0.  A poll that fails is a   *)
(* stuttering step (usleep and try again), so a poll appears as a guard.   *)
(*                                                                         *)
(* FuncResets says that the function passed to waitFor itself resets the   *)
(* flag, as most call sites of SMPAQ2 do; waitFor then resets it again.    *)
(***************************************************************************)
EXTENDS Integers, FiniteSets

CONSTANTS Threads, Special, Arrivers, FuncResets

ASSUME WaitForAssumption == /\ IsFiniteSet(Threads)
                            /\ Special \in Threads
                            /\ Arrivers \subseteq Threads
                            /\ FuncResets \in BOOLEAN

VARIABLES flag,   \* globalFlag::m_Flag
          pc      \* where each thread is

vars == <<flag, pc>>

\* "work": before the site;  "wait": polling;  "func": about to call
\* funcOfSpecial;  "reset": about to call reset(0);  "left": past the site.
Labels == {"work", "wait", "func", "reset", "left"}

TypeOK == /\ flag \in 0..Cardinality(Arrivers)
          /\ pc \in [Threads -> Labels]

Init == /\ flag = 0
        /\ pc = [t \in Threads |-> "work"]

Goto(t, from, to) == pc[t] = from /\ pc' = [pc EXCEPT ![t] = to]

\* Mutant: the increment is not atomic and may be lost.
Increment_Racy(t) == /\ t \in Arrivers
                     /\ Goto(t, "work", "wait")
                     /\ flag' \in {flag, flag + 1} \ {0}

\* An arriver executes flag++, under the flag's mutex.
Increment(t) == /\ t \in Arrivers
                /\ Goto(t, "work", "wait")
                /\ flag' = flag + 1

\* A thread that does not count itself calls waitFor.
Enter(t) == /\ t \notin Arrivers
            /\ Goto(t, "work", "wait")
            /\ UNCHANGED flag

\* A non-special thread reads 0 and leaves the loop.
QuitLoop(t) == /\ t # Special
               /\ flag = 0
               /\ Goto(t, "wait", "left")
               /\ UNCHANGED flag

\* Mutant: the special thread goes on one arrival too early.
SeeAll_OffByOne == /\ flag = Cardinality(Arrivers) - 1
                   /\ Goto(Special, "wait", "func")
                   /\ UNCHANGED flag

\* The special thread reads the awaited count.
SeeAll == /\ flag = Cardinality(Arrivers)
          /\ Goto(Special, "wait", "func")
          /\ UNCHANGED flag

\* funcOfSpecial(), whose own reset of the flag comes last in it.
CallFunc == /\ Goto(Special, "func", "reset")
            /\ flag' = IF FuncResets THEN 0 ELSE flag

\* Mutant: the flag is left as it is.
Reset_Forgotten == /\ Goto(Special, "reset", "left")
                   /\ UNCHANGED flag

\* listenFlag.reset(0), and out of the loop.
Reset == /\ Goto(Special, "reset", "left")
         /\ flag' = 0

Done == /\ \A t \in Threads : pc[t] = "left"
        /\ UNCHANGED vars

Step(t) == \/ Increment(t) \/ Enter(t) \/ QuitLoop(t)
           \/ t = Special /\ (SeeAll \/ CallFunc \/ Reset)

Next == Done \/ \E t \in Threads : Step(t)

Spec == Init /\ [][Next]_vars

\* Each thread is a thread of the operating system and polls for ever.
FairSpec == Spec /\ \A t \in Threads : WF_vars(Step(t))
-----------------------------------------------------------------------------
(* What the site promises, in the variables of the code.                   *)

arrived == {t \in Arrivers : pc[t] # "work"}
ran     == pc[Special] \in {"reset", "left"}
left    == {t \in Threads : pc[t] = "left"}

Promise == INSTANCE Rendezvous

\* The site implements the rendezvous: the special thread's function runs
\* after the last arrival and before any other arriver goes on, although the
\* waiting threads only test a counter that starts at the value they wait for.
ImplementsRendezvous == Promise!Spec

\* Why it does: until the first of the resets the flag counts exactly the
\* arrivals, so it is 0 before a thread's own arrival and not after it.
FlagReset == \/ pc[Special] = "left"
             \/ pc[Special] = "reset" /\ FuncResets

FlagCountsArrivals ==
  flag = IF FlagReset THEN 0 ELSE Cardinality(arrived)

\* The special thread sees the full count only when everybody has arrived,
\* and an arriver that has left has left after the function ran.
SpecialSawAll == pc[Special] \in {"func", "reset", "left"} => arrived = Arrivers
NobodyEarly   == \A t \in Arrivers \ {Special} : pc[t] = "left" => ran
OnlySpecialRuns == \A t \in Threads \ {Special} : pc[t] \notin {"func", "reset"}

\* The inductive invariant.
IInv == /\ TypeOK
        /\ FlagCountsArrivals
        /\ SpecialSawAll
        /\ NobodyEarly
        /\ OnlySpecialRuns

\* No thread is left polling: a one-shot site lets everybody through.
EverybodyLeaves == <>(\A t \in Threads : pc[t] = "left")
=============================================================================
