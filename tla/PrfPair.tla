------------------------------ MODULE PrfPair ------------------------------
(***************************************************************************)
(* The PRF calls of one channel as Smpaq1 and Smpaq2 use them: the         *)
(* receiver returns from a call once the sender is in that call too, and   *)
(* the sender returns from it after the receiver.                          *)
(***************************************************************************)
EXTENDS Naturals

VARIABLES received, sent   \* the calls that each side has returned from

vars == <<received, sent>>

Init == received = 0 /\ sent = 0

Receive == /\ received = sent
           /\ received' = received + 1
           /\ UNCHANGED sent

Send == /\ sent < received
        /\ sent' = sent + 1
        /\ UNCHANGED received

Next == Receive \/ Send

Spec == Init /\ [][Next]_vars
=============================================================================
