----------------------------- MODULE MCWaitFor -----------------------------
(* Instances of WaitFor for TLC, with the mutants its properties catch. *)
EXTENDS WaitFor
CONSTANTS t0, t1, t2, t3, t4, t5, t6

\* Sf2 of SMPAQ2, line 566: the leader (t0) and the center (t4) count, the
\* center is special, and its function resets the flag; three bystanders.
PairThreads  == {t0, t1, t2, t3, t4}
PairArrivers == {t0, t4}

\* Cf1 of SMPAQ1, line 388: everybody counts except the special thread.
RestThreads  == {t0, t1, t2, t3, t4, t5, t6}
RestArrivers == RestThreads \ {t6}
=============================================================================
