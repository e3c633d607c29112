------------------------------ MODULE MCSmpaq2 ------------------------------
EXTENDS Smpaq2
MCPayload == [t \in Threads |-> [k \in 1..SNELES |-> (t + k) % Word]]
=============================================================================
