----------------------------- MODULE Rendezvous -----------------------------
(***************************************************************************)
(* What one call site of waitFor promises its threads.                     *)
(*                                                                         *)
(* Every thread of Threads passes the site once.  The Arrivers announce    *)
(* themselves before they wait.  The Special thread, an arriver or not,    *)
(* runs a function once every arriver has announced itself; the other      *)
(* arrivers may go on only after the function has run.  A thread that is   *)
(* neither is a bystander: it may go on at any time.                       *)
(***************************************************************************)
CONSTANTS Threads, Special, Arrivers

VARIABLES arrived,   \* the arrivers that have announced themselves
          ran,       \* the special thread's function has run
          left       \* the threads that have gone on

vars == <<arrived, ran, left>>

Init == arrived = {} /\ ran = FALSE /\ left = {}

Arrive(t) == /\ t \in Arrivers \ arrived
             /\ arrived' = arrived \cup {t}
             /\ UNCHANGED <<ran, left>>

Run == /\ ~ran
       /\ arrived = Arrivers
       /\ ran' = TRUE
       /\ UNCHANGED <<arrived, left>>

Leave(t) == /\ t \in Threads \ left
            /\ t \in Arrivers => t \in arrived
            /\ t \in Arrivers \cup {Special} => ran
            /\ left' = left \cup {t}
            /\ UNCHANGED <<arrived, ran>>

Next == \/ Run
        \/ \E t \in Threads : Arrive(t) \/ Leave(t)

Spec == Init /\ [][Next]_vars
=============================================================================
