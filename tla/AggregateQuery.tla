--------------------------- MODULE AggregateQuery ---------------------------
(***************************************************************************)
(* What a run of SMPAQ promises its user: once every server has put its    *)
(* data in, the client reports, once, the sum of what the servers hold for *)
(* the element it asked about, modulo the width of the arithmetic.         *)
(***************************************************************************)
EXTENDS Integers, FiniteSetsExt, Sequences

CONSTANTS Servers, Payload, Query, Modulus

VARIABLES contributed,   \* the servers whose data is in
          reports        \* what the client has reported

vars == <<contributed, reports>>

\* Nobody contributes to an element that no server holds.
Answer ==
  MapThenSumSet(LAMBDA s : Payload[s][Query],
                {s \in Servers : Query \in DOMAIN Payload[s]}) % Modulus

Init == contributed = {} /\ reports = <<>>

Contribute(s) == /\ s \notin contributed
                 /\ contributed' = contributed \cup {s}
                 /\ UNCHANGED reports

Report == /\ contributed = Servers
          /\ reports = <<>>
          /\ reports' = <<Answer>>
          /\ UNCHANGED contributed

Next == Report \/ \E s \in Servers : Contribute(s)

Spec == Init /\ [][Next]_vars
=============================================================================
