----------------------------- MODULE MCOtCalls -----------------------------
EXTENDS OtCalls

Items == {1, 2}

\* A call of the first kind, with one OT: c query elements (-c) against a row of
\* two elements, and the empty rows of the other bins.
First(c)  == {[ots |-> 1, inputs |-> q, rows |-> <<e, <<>> >>] :
                q \in [1..c -> Items], e \in [1..2 -> Items]}
\* A call of the second kind, with n = 2 OTs.
Second == {[ots |-> 2, inputs |-> q, rows |-> <<<<x>>, <<y>>>>] :
             q \in [1..2 -> Items], x \in Items, y \in Items}

\* A party's thread makes both calls, another thread the first only.
OneQuery   == {<<f, s>> : f \in First(1), s \in Second} \cup {<<f>> : f \in First(1)}
ManyQueries == {<<f, s>> : f \in First(2), s \in Second}
MCPlans     == OneQuery \cup ManyQueries
=============================================================================
