---------------------------- MODULE OtCallsProofs ----------------------------
(***************************************************************************)
(* Proofs about OtCalls, for any calls that the two threads may make.      *)
(***************************************************************************)
EXTENDS OtCalls, SequenceTheorems, TLAPS

(* The inductive invariant: the two threads and the channel are in one of  *)
(* few configurations, all of them of one call or of two successive ones.  *)
M(kind) == Message(kind, RCall)

At(r, ss, ahead, ts, tr) ==
  /\ rpc = r /\ spc \in ss /\ Len(received) = Len(sent) + ahead
  /\ toSender = ts /\ toReceiver = tr

InStep ==
  \/ At("idle",   {"idle"}, 0, <<>>, <<>>)
  \/ At("points", {"idle"}, 0, <<M("base")>>, <<>>)
  \/ At("idle",   {"base"}, 0, <<>>, <<M("points")>>)
  \/ At("points", {"base"}, 0, <<M("base")>>, <<M("points")>>)
  \/ At("comm",   {"base"}, 0, <<M("base")>>, <<>>)
  \/ At("points", {"seed"}, 0, <<>>, <<M("points"), M("comm")>>)
  \/ At("comm",   {"seed"}, 0, <<>>, <<M("comm")>>)
  \/ At("seed",   {"seed"}, 0, <<M("seed")>>, <<>>)
  \/ At("seed",   {"fill", "correction"}, 0, <<>>, <<M("seed")>>)
  \/ At("fill",   {"fill", "correction"}, 0, <<>>, <<>>)
  \/ At("dead",   {"fill", "correction", "dead"}, 0, <<>>, <<>>)
  \/ At("idle",   {"fill", "correction"}, 1,
        <<Message("correction", SCall)>>, <<>>)
  \/ At("points", {"fill", "correction"}, 1,
        <<Message("correction", SCall), M("base")>>, <<>>)

\* Both have the seeds of the call when they make its encodings.
SeedsOk == /\ rpc = "fill" => rseed = RCall
           /\ spc \in {"fill", "correction"} => sseed = SCall

\* What the calls have returned.
Returns == /\ \E S : received \in Seq(S)
           /\ \E S : sent \in Seq(S)

ReceiverRow(c) ==
  [k \in 1..calls[c].ots |-> Encode(c, c, k, calls[c].inputs[k])]
SenderRows(c) ==
  [k \in 1..calls[c].ots |->
     [m \in 1..Len(calls[c].rows[k]) |-> Encode(c, c, k, calls[c].rows[k][m])]]

RowsOk == /\ \A c \in 1..Len(received) : received[c] = ReceiverRow(c)
          /\ \A c \in 1..Len(sent) : sent[c] = SenderRows(c)

CallsInv == InStep /\ SeedsOk /\ Returns /\ RowsOk
-----------------------------------------------------------------------------
(* Sequences.                                                              *)

\* Appending to a sequence adds one element at its end.
LEMMA AppendAny ==
  ASSUME NEW S, NEW s \in Seq(S), NEW x
  PROVE  /\ Append(s, x) \in Seq(S \cup {x})
         /\ Len(Append(s, x)) = Len(s) + 1
         /\ \A c \in 1..Len(s) : Append(s, x)[c] = s[c]
         /\ Append(s, x)[Len(s) + 1] = x
<1>1. s \in Seq(S \cup {x})
  OBVIOUS
<1>. QED
  BY <1>1

LEMMA CallsInit == Init => CallsInv
<1> SUFFICES ASSUME Init
             PROVE  CallsInv
  OBVIOUS
<1>1. received = <<>> /\ sent = <<>> /\ Len(received) = 0 /\ Len(sent) = 0
  BY DEF Init
<1>2. received \in Seq({}) /\ sent \in Seq({})
  BY <1>1
<1>. QED
  BY <1>1, <1>2 DEF Init, CallsInv, InStep, At, SeedsOk, Returns, RowsOk
-----------------------------------------------------------------------------
(* The configurations.                                                     *)

LEMMA Lengths == Returns => Len(received) \in Nat /\ Len(sent) \in Nat
BY DEF Returns

\* The channel: what one or two messages look like after a send or a receive.
LEMMA Channel ==
  ASSUME NEW a, NEW b
  PROVE  /\ Append(<<>>, a) = <<a>> /\ Append(<<a>>, b) = <<a, b>>
         /\ Tail(<<a>>) = <<>> /\ Tail(<<a, b>>) = <<b>>
         /\ Head(<<a>>) = a /\ Head(<<a, b>>) = a
<1>1. <<a>> \in Seq({a, b}) /\ <<a, b>> \in Seq({a, b})
  OBVIOUS
<1>2. Append(<<>>, a) = <<a>>
  OBVIOUS
<1>6. Append(<<a>>, b) = <<a, b>>
  <2>1. Append(<<a>>, b) \in Seq({a, b}) /\ Len(Append(<<a>>, b)) = 2
    BY <1>1
  <2>2. Append(<<a>>, b)[1] = a /\ Append(<<a>>, b)[2] = b
    BY <1>1
  <2>3. <<a, b>> \in Seq({a, b}) /\ Len(<<a, b>>) = 2
        /\ <<a, b>>[1] = a /\ <<a, b>>[2] = b
    OBVIOUS
  <2>4. \A i \in 1..2 : Append(<<a>>, b)[i] = <<a, b>>[i]
    BY <2>2, <2>3
  <2>. QED
    BY <2>1, <2>3, <2>4, SeqEqual
<1>3. Tail(<<a>>) = <<>>
  OBVIOUS
<1>4. Tail(<<a, b>>) = <<b>>
  OBVIOUS
<1>5. Head(<<a>>) = a /\ Head(<<a, b>>) = a
  OBVIOUS
<1>. QED
  BY <1>2, <1>3, <1>4, <1>5, <1>6

\* A step of the receiver before it returns leads from one to another.
LEMMA RBaseInStep ==
  ASSUME InStep, Returns, RBase PROVE InStep'
<1>1. \/ At("idle", {"idle"}, 0, <<>>, <<>>)
      \/ At("idle", {"base"}, 0, <<>>, <<M("points")>>)
      \/ At("idle", {"fill", "correction"}, 1, <<Message("correction", SCall)>>, <<>>)
  BY DEF InStep, At, RBase, RGoto
<1>2. CASE At("idle", {"idle"}, 0, <<>>, <<>>)
  <2>1. At("points", {"idle"}, 0, <<M("base")>>, <<>>)'
    BY <1>2, Channel DEF RBase, RGoto, RSends, At, M, RCall, senderVars
  <2>. QED
    BY <2>1 DEF InStep
<1>3. CASE At("idle", {"base"}, 0, <<>>, <<M("points")>>)
  <2>1. At("points", {"base"}, 0, <<M("base")>>, <<M("points")>>)'
    BY <1>3, Channel DEF RBase, RGoto, RSends, At, M, RCall, senderVars
  <2>. QED
    BY <2>1 DEF InStep
<1>4. CASE At("idle", {"fill", "correction"}, 1,
              <<Message("correction", SCall)>>, <<>>)
  <2>1. At("points", {"fill", "correction"}, 1,
           <<Message("correction", SCall), M("base")>>, <<>>)'
    BY <1>4, Channel DEF RBase, RGoto, RSends, At, M, RCall, SCall, senderVars
  <2>. QED
    BY <2>1 DEF InStep
<1>. QED
  BY <1>1, <1>2, <1>3, <1>4

LEMMA RPointsInStep ==
  ASSUME InStep, Returns, RPoints PROVE InStep'
<1>1. \/ At("points", {"base"}, 0, <<M("base")>>, <<M("points")>>)
      \/ At("points", {"seed"}, 0, <<>>, <<M("points"), M("comm")>>)
  BY DEF InStep, At, RPoints, RGoto, RGets
<1>2. CASE At("points", {"base"}, 0, <<M("base")>>, <<M("points")>>)
  <2>1. At("comm", {"base"}, 0, <<M("base")>>, <<>>)'
    BY <1>2, Channel DEF RPoints, RGoto, RGets, At, M, RCall, senderVars
  <2>. QED
    BY <2>1 DEF InStep
<1>3. CASE At("points", {"seed"}, 0, <<>>, <<M("points"), M("comm")>>)
  <2>1. At("comm", {"seed"}, 0, <<>>, <<M("comm")>>)'
    BY <1>3, Channel DEF RPoints, RGoto, RGets, At, M, RCall, senderVars
  <2>. QED
    BY <2>1 DEF InStep
<1>. QED
  BY <1>1, <1>2, <1>3

LEMMA RCommInStep ==
  ASSUME InStep, Returns, RComm PROVE InStep'
<1>1. At("comm", {"seed"}, 0, <<>>, <<M("comm")>>)
  BY DEF InStep, At, RComm, RGoto, RGets
<1>. QED
  BY <1>1, Channel
  DEF RComm, RGoto, RGets, RSends, InStep, At, M, RCall, senderVars

LEMMA RSeedInStep ==
  ASSUME InStep, Returns, RSeed PROVE InStep' /\ rseed' = RCall /\ RCall' = RCall
<1>1. At("seed", {"fill", "correction"}, 0, <<>>, <<M("seed")>>)
  BY DEF InStep, At, RSeed, RGoto, RGets
<1>. QED
  BY <1>1, Channel
  DEF RSeed, RGoto, RGets, InStep, At, M, Message, RCall, senderVars

LEMMA RThrowsInStep ==
  ASSUME InStep, Returns, RThrows PROVE InStep'
<1>1. At("fill", {"fill", "correction"}, 0, <<>>, <<>>)
  BY DEF InStep, At, RThrows, RGoto
<1>2. At("dead", {"fill", "correction", "dead"}, 0, <<>>, <<>>)'
  BY <1>1 DEF RThrows, RGoto, At, senderVars, channel
<1>. QED
  BY <1>2 DEF InStep

\* A step of the sender before it returns.
LEMMA SPointsInStep ==
  ASSUME InStep, Returns, SPoints PROVE InStep'
<1>1. \/ At("idle", {"idle"}, 0, <<>>, <<>>)
      \/ At("points", {"idle"}, 0, <<M("base")>>, <<>>)
  BY DEF InStep, At, SPoints, SGoto
<1>2. SCall = RCall
  BY <1>1, Lengths DEF At, RCall, SCall
<1>3. toReceiver' = <<M("points")>>
  BY <1>1, <1>2, Channel DEF SPoints, SSends, At, M
<1>4. CASE At("idle", {"idle"}, 0, <<>>, <<>>)
  <2>1. At("idle", {"base"}, 0, <<>>, <<M("points")>>)'
    BY <1>3, <1>4 DEF SPoints, SGoto, At, M, RCall, receiverVars
  <2>. QED
    BY <2>1 DEF InStep
<1>5. CASE At("points", {"idle"}, 0, <<M("base")>>, <<>>)
  <2>1. At("points", {"base"}, 0, <<M("base")>>, <<M("points")>>)'
    BY <1>3, <1>5 DEF SPoints, SGoto, At, M, RCall, receiverVars
  <2>. QED
    BY <2>1 DEF InStep
<1>. QED
  BY <1>1, <1>4, <1>5

LEMMA SBaseInStep ==
  ASSUME InStep, Returns, SBase PROVE InStep'
<1>1. \/ At("points", {"base"}, 0, <<M("base")>>, <<M("points")>>)
      \/ At("comm", {"base"}, 0, <<M("base")>>, <<>>)
  BY DEF InStep, At, SBase, SGoto, SGets
<1>2. SCall = RCall
  BY <1>1, Lengths DEF At, RCall, SCall
<1>3. CASE At("points", {"base"}, 0, <<M("base")>>, <<M("points")>>)
  <2>1. toReceiver' = <<M("points"), M("comm")>>
    BY <1>2, <1>3, Channel DEF SBase, SSends, At, M
  <2>2. At("points", {"seed"}, 0, <<>>, <<M("points"), M("comm")>>)'
    BY <1>3, <2>1, Channel DEF SBase, SGoto, SGets, At, M, RCall, receiverVars
  <2>. QED
    BY <2>2 DEF InStep
<1>4. CASE At("comm", {"base"}, 0, <<M("base")>>, <<>>)
  <2>1. toReceiver' = <<M("comm")>>
    BY <1>2, <1>4, Channel DEF SBase, SSends, At, M
  <2>2. At("comm", {"seed"}, 0, <<>>, <<M("comm")>>)'
    BY <1>4, <2>1, Channel DEF SBase, SGoto, SGets, At, M, RCall, receiverVars
  <2>. QED
    BY <2>2 DEF InStep
<1>. QED
  BY <1>1, <1>3, <1>4

LEMMA SSeedInStep ==
  ASSUME InStep, Returns, SSeed PROVE InStep' /\ sseed' = SCall /\ SCall' = SCall
<1>1. At("seed", {"seed"}, 0, <<M("seed")>>, <<>>)
  BY DEF InStep, At, SSeed, SGoto, SGets
<1>2. SCall = RCall
  BY <1>1, Lengths DEF At, RCall, SCall
<1>3. At("seed", {"fill", "correction"}, 0, <<>>, <<M("seed")>>)'
  BY <1>1, <1>2, Channel DEF SSeed, SGoto, SGets, SSends, At, M, RCall, receiverVars
<1>4. sseed' = SCall /\ SCall' = SCall
  BY <1>1, <1>2, Channel DEF SSeed, At, M, Message, SCall
<1>. QED
  BY <1>3, <1>4 DEF InStep

LEMMA SFillInStep ==
  ASSUME InStep, Returns, SFill PROVE InStep'
<1>1. spc = "fill" /\ spc' = "correction"
  BY DEF SFill, SGoto
<1>2. UNCHANGED <<rpc, received, sent, toSender, toReceiver>>
  BY DEF SFill, receiverVars, channel
<1>3. \A r, ahead, ts, tr : At(r, {"fill", "correction"}, ahead, ts, tr) =>
        At(r, {"fill", "correction"}, ahead, ts, tr)'
  BY <1>1, <1>2 DEF At
<1>. QED
  BY <1>1, <1>2 DEF InStep, At, M, RCall, SCall

LEMMA SBrokenInStep ==
  ASSUME InStep, Returns, SBroken PROVE InStep'
<1>1. At("dead", {"fill", "correction", "dead"}, 0, <<>>, <<>>)
  BY DEF InStep, At, SBroken
<1>2. At("dead", {"fill", "correction", "dead"}, 0, <<>>, <<>>)'
  BY <1>1 DEF SBroken, At, receiverVars, channel
<1>. QED
  BY <1>2 DEF InStep

\* The receiver returns: it is one call ahead.
LEMMA RReturnInStep ==
  ASSUME CallsInv, RReturn
  PROVE  /\ InStep'
         /\ Len(received) = Len(sent)
         /\ Len(received') = Len(received) + 1
         /\ \E S : received' \in Seq(S)
         /\ \A c \in 1..Len(received) : received'[c] = received[c]
         /\ received'[RCall] = ReceiverRow(RCall)
<1>1. At("fill", {"fill", "correction"}, 0, <<>>, <<>>)
  BY DEF InStep, At, RReturn, RGoto, CallsInv
<1>2. Len(received) = Len(sent)
  BY <1>1, Lengths DEF At, CallsInv
<1>3. received' = Append(received, ReceiverRow(RCall))
  BY <1>1 DEF RReturn, At, CallsInv, SeedsOk, ReceiverRow
<1>4. PICK S : received \in Seq(S)
  BY DEF CallsInv, Returns
<1>5. Append(received, ReceiverRow(RCall)) \in Seq(S \cup {ReceiverRow(RCall)})
  BY <1>4, AppendAny
<1>6. Len(received') = Len(received) + 1
  BY <1>3, <1>4, AppendAny
<1>7. \A c \in 1..Len(received) : received'[c] = received[c]
  BY <1>3, <1>4, AppendAny
<1>8. received'[RCall] = ReceiverRow(RCall)
  BY <1>3, <1>4, AppendAny DEF RCall
<1>9. toSender' = <<Message("correction", SCall)>>
  BY <1>1, <1>2, Channel DEF RReturn, RSends, At, RCall, SCall
<1>10. At("idle", {"fill", "correction"}, 1,
          <<Message("correction", SCall)>>, <<>>)'
  BY <1>1, <1>2, <1>6, <1>9, Lengths
  DEF RReturn, RGoto, At, SCall, senderVars, CallsInv
<1>. QED
  BY <1>2, <1>3, <1>5, <1>6, <1>7, <1>8, <1>10 DEF InStep

\* The sender returns: they have returned from the same calls.
LEMMA SReturnInStep ==
  ASSUME CallsInv, SReturn
  PROVE  /\ InStep'
         /\ Len(received) = Len(sent) + 1
         /\ Len(sent') = Len(sent) + 1
         /\ \E S : sent' \in Seq(S)
         /\ \A c \in 1..Len(sent) : sent'[c] = sent[c]
         /\ sent'[SCall] = SenderRows(SCall)
<1>1. \/ At("idle", {"fill", "correction"}, 1,
            <<Message("correction", SCall)>>, <<>>)
      \/ At("points", {"fill", "correction"}, 1,
            <<Message("correction", SCall), M("base")>>, <<>>)
  BY DEF InStep, At, SReturn, SGoto, SGets, CallsInv
<1>2. Len(received) = Len(sent) + 1
  BY <1>1 DEF At
<1>3. sent' = Append(sent, SenderRows(SCall))
  BY DEF SReturn, SGoto, CallsInv, SeedsOk, SenderRows
<1>4. PICK S : sent \in Seq(S)
  BY DEF CallsInv, Returns
<1>5. Append(sent, SenderRows(SCall)) \in Seq(S \cup {SenderRows(SCall)})
  BY <1>4, AppendAny
<1>6. Len(sent') = Len(sent) + 1
  BY <1>3, <1>4, AppendAny
<1>7. \A c \in 1..Len(sent) : sent'[c] = sent[c]
  BY <1>3, <1>4, AppendAny
<1>8. sent'[SCall] = SenderRows(SCall)
  BY <1>3, <1>4, AppendAny DEF SCall
<1>9. UNCHANGED <<rpc, received, toReceiver>> /\ spc' = "idle"
  BY DEF SReturn, SGoto, receiverVars
<1>10. Len(received)' = Len(sent)' + 0
  BY <1>2, <1>6, <1>9, Lengths DEF CallsInv
<1>11. CASE At("idle", {"fill", "correction"}, 1,
               <<Message("correction", SCall)>>, <<>>)
  <2>1. toSender' = <<>>
    BY <1>11, Channel DEF SReturn, SGets, At
  <2>2. At("idle", {"idle"}, 0, <<>>, <<>>)'
    BY <1>9, <1>10, <1>11, <2>1 DEF At
  <2>. QED
    BY <2>2, <1>2, <1>3, <1>5, <1>6, <1>7, <1>8 DEF InStep
<1>12. CASE At("points", {"fill", "correction"}, 1,
               <<Message("correction", SCall), M("base")>>, <<>>)
  <2>1. toSender' = <<M("base")>>
    BY <1>12, Channel DEF SReturn, SGets, At
  <2>2. At("points", {"idle"}, 0, <<M("base")>>, <<>>)'
    BY <1>9, <1>10, <1>12, <2>1 DEF At, M, RCall
  <2>. QED
    BY <2>2, <1>2, <1>3, <1>5, <1>6, <1>7, <1>8 DEF InStep
<1>. QED
  BY <1>1, <1>11, <1>12
-----------------------------------------------------------------------------
(* The invariant.                                                          *)

\* What is left to show for a step in which no call returns.
LEMMA NoReturn ==
  ASSUME CallsInv, UNCHANGED <<calls, received, sent>>, InStep', SeedsOk'
  PROVE  CallsInv'
<1>1. Returns'
  BY DEF CallsInv, Returns
<1>2. /\ \A c : ReceiverRow(c)' = ReceiverRow(c)
      /\ \A c : SenderRows(c)' = SenderRows(c)
  BY DEF ReceiverRow, SenderRows
<1>3. RowsOk'
  BY <1>2 DEF CallsInv, RowsOk
<1> QED
  BY <1>1, <1>3 DEF CallsInv

\* A step that returns from no call leaves the seeds of the calls in progress.
LEMMA SeedsKept ==
  ASSUME SeedsOk,
         UNCHANGED <<received, sent, rseed, sseed>>,
         rpc' = "fill" => rpc = "fill",
         spc' \in {"fill", "correction"} => spc \in {"fill", "correction"}
  PROVE  SeedsOk'
BY DEF SeedsOk, RCall, SCall

LEMMA RReturnInv == ASSUME CallsInv, RReturn PROVE CallsInv'
<1>1. UNCHANGED <<calls, rseed, spc, sseed, sent>> /\ rpc' = "idle"
  BY DEF RReturn, RGoto, senderVars
<1>2. InStep' /\ \E S : received' \in Seq(S)
  BY RReturnInStep
<1>3. SeedsOk'
  BY <1>1 DEF SeedsOk, SCall, CallsInv
<1>4. Returns'
  BY <1>1, <1>2 DEF Returns, CallsInv
<1>5. \A c \in 1..Len(received') : received'[c] = ReceiverRow(c)
  <2>1. SUFFICES ASSUME NEW c \in 1..Len(received')
                 PROVE  received'[c] = ReceiverRow(c)
    OBVIOUS
  <2>2. c \in 1..Len(received) \/ c = RCall
    BY RReturnInStep, Lengths DEF RCall, CallsInv
  <2>. QED
    BY <2>2, RReturnInStep DEF CallsInv, RowsOk
<1>6. RowsOk'
  BY <1>1, <1>5 DEF CallsInv, RowsOk, ReceiverRow, SenderRows
<1>. QED
  BY <1>2, <1>3, <1>4, <1>6 DEF CallsInv

LEMMA SReturnInv == ASSUME CallsInv, SReturn PROVE CallsInv'
<1>1. UNCHANGED <<calls, sseed, rpc, rseed, received>> /\ spc' = "idle"
  BY DEF SReturn, SGoto, receiverVars
<1>2. InStep' /\ \E S : sent' \in Seq(S)
  BY SReturnInStep
<1>3. SeedsOk'
  BY <1>1 DEF SeedsOk, RCall, CallsInv
<1>4. Returns'
  BY <1>1, <1>2 DEF Returns, CallsInv
<1>5. \A c \in 1..Len(sent') : sent'[c] = SenderRows(c)
  <2>1. SUFFICES ASSUME NEW c \in 1..Len(sent')
                 PROVE  sent'[c] = SenderRows(c)
    OBVIOUS
  <2>2. c \in 1..Len(sent) \/ c = SCall
    BY SReturnInStep, Lengths DEF SCall, CallsInv
  <2>. QED
    BY <2>2, SReturnInStep DEF CallsInv, RowsOk
<1>6. RowsOk'
  BY <1>1, <1>5 DEF CallsInv, RowsOk, ReceiverRow, SenderRows
<1>. QED
  BY <1>2, <1>3, <1>4, <1>6 DEF CallsInv

LEMMA CallsStep == CallsInv /\ [Next]_vars => CallsInv'
<1> SUFFICES ASSUME CallsInv, [Next]_vars
             PROVE  CallsInv'
  OBVIOUS
<1>. InStep /\ Returns /\ SeedsOk
  BY DEF CallsInv
<1>1. CASE RBase
  <2>1. SeedsOk'
    BY <1>1, SeedsKept DEF RBase, RGoto, senderVars
  <2>. QED
    BY <1>1, <2>1, RBaseInStep, NoReturn DEF RBase, senderVars
<1>2. CASE RPoints
  <2>1. SeedsOk'
    BY <1>2, SeedsKept DEF RPoints, RGoto, senderVars
  <2>. QED
    BY <1>2, <2>1, RPointsInStep, NoReturn DEF RPoints, senderVars
<1>3. CASE RComm
  <2>1. SeedsOk'
    BY <1>3, SeedsKept DEF RComm, RGoto, senderVars
  <2>. QED
    BY <1>3, <2>1, RCommInStep, NoReturn DEF RComm, senderVars
<1>4. CASE RSeed
  <2>1. SeedsOk'
    BY <1>4, RSeedInStep DEF RSeed, SeedsOk, SCall, senderVars
  <2>. QED
    BY <1>4, <2>1, RSeedInStep, NoReturn DEF RSeed, senderVars
<1>5. CASE RThrows
  <2>1. SeedsOk'
    BY <1>5, SeedsKept DEF RThrows, RGoto, senderVars
  <2>. QED
    BY <1>5, <2>1, RThrowsInStep, NoReturn DEF RThrows, senderVars
<1>6. CASE RReturn
  BY <1>6, RReturnInv
<1>7. CASE SBase
  <2>1. SeedsOk'
    BY <1>7, SeedsKept DEF SBase, SGoto, receiverVars
  <2>. QED
    BY <1>7, <2>1, SBaseInStep, NoReturn DEF SBase, receiverVars
<1>8. CASE SSeed
  <2>1. SeedsOk'
    BY <1>8, SSeedInStep DEF SSeed, SeedsOk, RCall, receiverVars
  <2>. QED
    BY <1>8, <2>1, SSeedInStep, NoReturn DEF SSeed, receiverVars
<1>9. CASE SFill
  <2>1. SeedsOk'
    BY <1>9, SeedsKept DEF SFill, SGoto, receiverVars
  <2>. QED
    BY <1>9, <2>1, SFillInStep, NoReturn DEF SFill, receiverVars
<1>10. CASE SReturn
  BY <1>10, SReturnInv
<1>11. CASE SBroken
  <2>1. SeedsOk'
    BY <1>11, SeedsKept DEF SBroken, receiverVars
  <2>. QED
    BY <1>11, <2>1, SBrokenInStep, NoReturn DEF SBroken, receiverVars
<1>12. CASE SPoints
  <2>1. SeedsOk'
    BY <1>12, SeedsKept DEF SPoints, SGoto, receiverVars
  <2>. QED
    BY <1>12, <2>1, SPointsInStep, NoReturn DEF SPoints, receiverVars
<1>13. CASE UNCHANGED vars
  <2>1. InStep' /\ SeedsOk'
    BY <1>13 DEF InStep, At, M, RCall, SCall, SeedsOk,
                 vars, receiverVars, senderVars, channel
  <2>. QED
    BY <1>13, <2>1, NoReturn DEF vars, receiverVars, senderVars
<1>. QED
  BY <1>1, <1>2, <1>3, <1>4, <1>5, <1>6, <1>7, <1>8, <1>9, <1>10, <1>11, <1>12,
     <1>13
  DEF Next, Receiver, Sender, Ended

LEMMA Invariance == Spec => []CallsInv
BY CallsInit, CallsStep, PTL DEF Spec
-----------------------------------------------------------------------------
(* The theorems.                                                           *)

\* Whatever calls the two threads make, every message is taken in the call it
\* was sent in, by the receive it is for (the unframed channel of ots.cpp).
THEOREM InOrder == Spec => []MessagesInStep
<1>1. CallsInv => MessagesInStep
  <2> SUFFICES ASSUME InStep, Returns
               PROVE  MessagesInStep
    BY DEF CallsInv
  <2>1. Len(received) = Len(sent) => RCall = SCall
    BY DEF RCall, SCall
  <2>2. Len(received) \in Nat /\ Len(sent) \in Nat
    BY Lengths
  <2>. QED
    BY <2>1, <2>2, Channel DEF InStep, At, M, MessagesInStep
<1>. QED
  BY <1>1, Invariance, PTL

\* Whatever items the inputs and the rows of a call hold, the values that the
\* two sides get from ot_receiver and ot_sender are equal exactly if the items
\* are.
THEOREM EqualItems == Spec => []EqualIffSameItem
<1>1. CallsInv => EqualIffSameItem
  <2> SUFFICES ASSUME CallsInv,
                      NEW c \in DOMAIN received \cap DOMAIN sent,
                      NEW k \in 1..calls[c].ots,
                      NEW m \in DOMAIN sent[c][k]
               PROVE  received[c][k] = sent[c][k][m] <=>
                        calls[c].inputs[k] = calls[c].rows[k][m]
    BY DEF EqualIffSameItem
  <2>1. c \in 1..Len(received) /\ c \in 1..Len(sent)
    BY DEF CallsInv, Returns
  <2>2. received[c][k] = Encode(c, c, k, calls[c].inputs[k])
    BY <2>1 DEF CallsInv, RowsOk, ReceiverRow
  <2>3. sent[c][k] = [i \in 1..Len(calls[c].rows[k]) |->
                        Encode(c, c, k, calls[c].rows[k][i])]
    BY <2>1 DEF CallsInv, RowsOk, SenderRows
  <2>4. sent[c][k][m] = Encode(c, c, k, calls[c].rows[k][m])
    BY <2>3
  <2>. QED
    BY <2>2, <2>4 DEF Encode
<1>. QED
  BY <1>1, Invariance, PTL

\* The message exchange of ots.cpp implements the two-step PRF calls that the
\* protocols are built from, for any calls.
THEOREM CallsRefinement == Spec => ImplementsPrfPair
<1>1. Init => Pair!Init
  BY DEF Init, Pair!Init
<1>2. CallsInv /\ [Next]_vars => [Pair!Next]_Pair!vars
  <2> SUFFICES ASSUME CallsInv, [Next]_vars
               PROVE  [Pair!Next]_Pair!vars
    OBVIOUS
  <2>1. CASE RReturn
    <3>1. UNCHANGED sent
      BY <2>1 DEF RReturn, senderVars
    <3>. QED
      BY <2>1, <3>1, RReturnInStep DEF Pair!Next, Pair!Receive, Pair!vars
  <2>2. CASE SReturn
    <3>1. UNCHANGED received /\ Len(sent) < Len(received)
      BY <2>2, SReturnInStep, Lengths DEF SReturn, receiverVars, CallsInv
    <3>. QED
      BY <2>2, <3>1, SReturnInStep DEF Pair!Next, Pair!Send, Pair!vars
  <2>3. CASE UNCHANGED <<received, sent>>
    BY <2>3 DEF Pair!vars
  <2>4. RReturn \/ SReturn \/ UNCHANGED <<received, sent>>
    BY DEF Next, Receiver, Sender, Ended, RBase, RPoints, RComm, RSeed, RThrows,
           SPoints, SBase, SSeed, SFill, SBroken, vars, receiverVars, senderVars
  <2>. QED
    BY <2>1, <2>2, <2>3, <2>4
<1>. QED
  BY <1>1, <1>2, Invariance, PTL DEF Spec, ImplementsPrfPair, Pair!Spec
=============================================================================
