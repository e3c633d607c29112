--------------------------- MODULE MCSmpaq2Crash ---------------------------
EXTENDS Smpaq2Crash
MCPayload == [t \in Threads |-> [k \in 1..SNELES |-> (t + k) % Word]]
=============================================================================
