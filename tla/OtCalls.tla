------------------------------ MODULE OtCalls ------------------------------
(***************************************************************************)
(* The PRF calls of one pair of threads over its OT channel, message by    *)
(* message (ot_receiver and ot_sender in ots/ots.cpp).                     *)
(*                                                                         *)
(* A call begins with the base OTs (MasnyRindal, which libOTe's config.h   *)
(* selects), in which each side sends before it waits for the other's      *)
(* message, and an exchange of seeds, from which both sides make the keys  *)
(* of the call.  Each side then fills its blocks from its inputs, with     *)
(* bounds checked by at(); an exception leaves the thread function and     *)
(* ends the process.  The receiver sends its corrections and returns; the  *)
(* sender waits for them and returns.  The next call uses the same         *)
(* channel.                                                                *)
(*                                                                         *)
(* A message is its kind and the number of the call it was sent in.  An    *)
(* encoding is an input under the key of its OT.                           *)
(***************************************************************************)
EXTENDS Integers, Sequences

CONSTANTS Plans   \* the sequences of calls [ots, inputs, rows] to make

ASSUME OtCallsAssumption ==
  \A plan \in Plans : \A c \in DOMAIN plan :
    /\ plan[c].ots <= Len(plan[c].inputs)
    /\ plan[c].ots <= Len(plan[c].rows)

VARIABLES
  calls,                 \* the calls that the two threads make
  rpc, spc,              \* where the receiver and the sender are
  rseed, sseed,          \* the seed that each has received last
  received, sent,        \* what the calls have returned to either side
  toSender, toReceiver   \* the channel

receiverVars == <<rpc, rseed, received>>
senderVars   == <<spc, sseed, sent>>
channel      == <<toSender, toReceiver>>
vars         == <<calls, receiverVars, senderVars, channel>>

Init == /\ calls \in Plans
        /\ rpc = "idle" /\ spc = "idle" /\ rseed = 0 /\ sseed = 0
        /\ received = <<>> /\ sent = <<>>
        /\ toSender = <<>> /\ toReceiver = <<>>

RCall == Len(received) + 1   \* the call that the receiver is in
SCall == Len(sent) + 1

Message(kind, c) == [kind |-> kind, call |-> c]
Encode(rs, ss, k, x) == <<rs, ss, k, x>>

RGoto(from, to) == rpc = from /\ rpc' = to
SGoto(from, to) == spc = from /\ spc' = to
RGets == /\ toReceiver # <<>>
         /\ toReceiver' = Tail(toReceiver)
SGets == /\ toSender # <<>>
         /\ toSender' = Tail(toSender)
RSends(kind) == toSender' = Append(toSender, Message(kind, RCall))
SSends(kind) == toReceiver' = Append(toReceiver, Message(kind, SCall))
-----------------------------------------------------------------------------
(* ot_receiver, on the client.                                             *)

\* baseOTs.send: send the base, then wait for the other side's points.
RBase == /\ RCall <= Len(calls)
         /\ RGoto("idle", "points")
         /\ RSends("base")
         /\ UNCHANGED <<calls, rseed, received, senderVars, toReceiver>>

RPoints == /\ RGoto("points", "comm")
           /\ RGets
           /\ UNCHANGED <<calls, rseed, received, senderVars, toSender>>

\* recv.init: answer the sender's commitment with a seed, take the sender's.
RComm == /\ RGoto("comm", "seed")
         /\ RGets
         /\ RSends("seed")
         /\ UNCHANGED <<calls, rseed, received, senderVars>>

RSeed == /\ RGoto("seed", "fill")
         /\ RGets
         /\ rseed' = Head(toReceiver).call
         /\ UNCHANGED <<calls, received, senderVars, toSender>>

\* More inputs than blocks: at() throws.
RThrows == /\ RGoto("fill", "dead")
           /\ Len(calls[RCall].inputs) > calls[RCall].ots
           /\ UNCHANGED <<calls, rseed, received, senderVars, channel>>

\* Mutant: the corrections are not sent.
RReturn_Silent ==
  /\ RGoto("fill", "idle")
  /\ Len(calls[RCall].inputs) <= calls[RCall].ots
  /\ received' = Append(received,
       [k \in 1..calls[RCall].ots |->
          Encode(RCall, rseed, k, calls[RCall].inputs[k])])
  /\ UNCHANGED <<calls, rseed, senderVars, channel>>

\* Encode an input per OT, send the corrections, return.
RReturn ==
  /\ RGoto("fill", "idle")
  /\ Len(calls[RCall].inputs) <= calls[RCall].ots
  /\ received' = Append(received,
       [k \in 1..calls[RCall].ots |->
          Encode(RCall, rseed, k, calls[RCall].inputs[k])])
  /\ RSends("correction")
  /\ UNCHANGED <<calls, rseed, senderVars, toReceiver>>

Receiver == RBase \/ RPoints \/ RComm \/ RSeed \/ RThrows \/ RReturn
-----------------------------------------------------------------------------
(* ot_sender, on the server.                                               *)

\* baseOTs.receive: send the points, then wait for the base.
SPoints == /\ SCall <= Len(calls)
           /\ SGoto("idle", "base")
           /\ SSends("points")
           /\ UNCHANGED <<calls, sseed, sent, receiverVars, toSender>>

\* The base has come; the first half of sender.init sends the commitment.
SBase == /\ SGoto("base", "seed")
         /\ SGets
         /\ SSends("comm")
         /\ UNCHANGED <<calls, sseed, sent, receiverVars>>

SSeed == /\ SGoto("seed", "fill")
         /\ SGets
         /\ sseed' = Head(toSender).call
         /\ SSends("seed")
         /\ UNCHANGED <<calls, sent, receiverVars>>

\* The sender's rows fit; it goes on to recvCorrection.
SFill == /\ SGoto("fill", "correction")
         /\ UNCHANGED <<calls, sseed, sent, receiverVars, channel>>

\* Mutant: the sender returns without the corrections.
SReturn_Early ==
  /\ SGoto("correction", "idle")
  /\ sent' = Append(sent,
       [k \in 1..calls[SCall].ots |->
          [m \in 1..Len(calls[SCall].rows[k]) |->
             Encode(sseed, SCall, k, calls[SCall].rows[k][m])]])
  /\ UNCHANGED <<calls, sseed, receiverVars, channel>>

\* Mutant: every row is evaluated under the key of the first OT.
SReturn_FirstKey ==
  /\ SGoto("correction", "idle")
  /\ SGets
  /\ sent' = Append(sent,
       [k \in 1..calls[SCall].ots |->
          [m \in 1..Len(calls[SCall].rows[k]) |->
             Encode(sseed, SCall, 1, calls[SCall].rows[k][m])]])
  /\ UNCHANGED <<calls, sseed, receiverVars, toReceiver>>

\* Take the corrections, evaluate the rows, return.
SReturn ==
  /\ SGoto("correction", "idle")
  /\ SGets
  /\ sent' = Append(sent,
       [k \in 1..calls[SCall].ots |->
          [m \in 1..Len(calls[SCall].rows[k]) |->
             Encode(sseed, SCall, k, calls[SCall].rows[k][m])]])
  /\ UNCHANGED <<calls, sseed, receiverVars, toReceiver>>

\* The channel of a dead receiver: recv throws when nothing is left in it.
SBroken == /\ rpc = "dead" /\ toSender = <<>>
           /\ spc \in {"base", "seed", "correction"}
           /\ spc' = "dead"
           /\ UNCHANGED <<calls, sseed, sent, receiverVars, channel>>

Sender == SPoints \/ SBase \/ SSeed \/ SFill \/ SReturn \/ SBroken
-----------------------------------------------------------------------------
Returned == RCall > Len(calls) /\ SCall > Len(calls)
Died     == rpc = "dead" /\ spc = "dead"

Ended == (Returned \/ Died) /\ UNCHANGED vars

Next == Receiver \/ Sender \/ Ended

Spec == Init /\ [][Next]_vars

\* Both threads are scheduled; the channel delivers in order.
FairSpec == Spec /\ WF_vars(Receiver) /\ WF_vars(Sender)
-----------------------------------------------------------------------------
\* No message is framed or numbered on the wire, and the receiver may be a call
\* ahead; still every message is taken in the call it was sent in, by the
\* receive it is for.
MessagesInStep ==
  /\ toReceiver # <<>> /\ rpc \in {"points", "comm", "seed"} =>
       Head(toReceiver) = Message(rpc, RCall)
  /\ toSender # <<>> /\ spc \in {"base", "seed", "correction"} =>
       Head(toSender) = Message(spc, SCall)

\* What Smpaq1 and Smpaq2 assume of two calls that have both returned: an input
\* and an element have one encoding exactly if they are equal.
EqualIffSameItem ==
  \A c \in DOMAIN received \cap DOMAIN sent : \A k \in 1..calls[c].ots :
    \A m \in DOMAIN sent[c][k] :
      received[c][k] = sent[c][k][m] <=> calls[c].inputs[k] = calls[c].rows[k][m]

\* And of the order in which the two sides return.
Pair == INSTANCE PrfPair WITH received <- Len(received), sent <- Len(sent)
ImplementsPrfPair == Pair!Spec

\* Neither side is left alone: both return from all calls, or both processes
\* end, and the latter only if some call has more inputs than OTs.
TooManyInputs == \E c \in DOMAIN calls : Len(calls[c].inputs) > calls[c].ots
EndsTogether  == <>(IF TooManyInputs THEN Died ELSE Returned)
=============================================================================
