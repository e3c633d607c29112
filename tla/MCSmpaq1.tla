------------------------------ MODULE MCSmpaq1 ------------------------------
EXTENDS Smpaq1
MCPayload == [t \in Threads |-> [k \in 1..SNELES |-> (t + k) % PaillierN]]
=============================================================================
