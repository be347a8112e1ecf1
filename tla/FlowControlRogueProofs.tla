----------------------- MODULE FlowControlRogueProofs -----------------------
(***************************************************************************)
(* What the receiver of FlowControl guarantees whatever the peer sends.    *)
(*                                                                         *)
(* The stretches of FlowControlProofs are of no use here: a rogue frame is *)
(* not charged by anyone.  What holds is about the receiver alone.  The    *)
(* charges of the queued items add up to what was accepted and not yet     *)
(* consumed; to say so without a sum, the invariant asks for a function    *)
(* that gives the running total before each item.                          *)
(***************************************************************************)
EXTENDS FlowControlRogue, FlowControlProofs

\* A frame of either sender; the stretch of a rogue one means nothing.
AnyFrame == [first : BOOLEAN, size : Nat, id : Nat, lo : Nat, len : Nat, from : Int, to : Int]

\* The charges of the frames in s lead from lo to hi.
Sums(s, lo, hi) ==
  \E pos \in [1 .. Len(s) + 1 -> Nat] :
    /\ pos[1] = lo /\ pos[Len(s) + 1] = hi
    /\ \A i \in 1 .. Len(s) : pos[i + 1] = pos[i] + charge(s[i])
    /\ \A i \in 1 .. Len(s) + 1 : pos[i] <= hi

\* What is needed of the sender, whose window may be wrong by what the rogue
\* frames were acknowledged with.
SenderKnows ==
  /\ sndWindow \in 0 .. (Uint - 1)
  /\ charged \in Int
  /\ prevWindow \in Int
  /\ msg \in [Threads -> [id : Nat, size : Nat, lo : Nat, first : BOOLEAN]]
  /\ win \in [Threads -> 0 .. (Uint - 1)]
  /\ chunk \in [Threads -> Nat]
  /\ pc \in [Threads -> {"idle", "load", "wait", "cas", "write"}]
  /\ sent \in Seq(Nat)
  /\ \A t \in Threads : msg[t].lo <= msg[t].size /\ (pc[t] = "write" => chunk[t] <= remaining(t))
  /\ acks \in Seq([add : 0 .. (Uint - 1), from : Int, to : Int])

\* What the receiver knows of what it has accepted.
ReceiverKnows ==
  /\ frames \in Seq(AnyFrame) /\ items \in Seq(AnyFrame)
  /\ accepted \in Nat /\ consumed \in Nat /\ credited \in Nat
  /\ rcvWindow \in Nat /\ windowUpdate \in Nat /\ sendUpdate \in 0 .. (Uint - 1)
  /\ credited <= consumed /\ consumed <= accepted
  /\ rcvWindow = Window - accepted + credited
  /\ windowUpdate = consumed - credited
  /\ ~cancelled => Sums(items, consumed, accepted)

\* The inductive invariant.
RogueInv == SenderKnows /\ ReceiverKnows
-----------------------------------------------------------------------------
\* The charge of a frame.
LEMMA ChargeNat == ASSUME NEW f \in AnyFrame PROVE charge(f) \in Nat
<1>1. msgOverhead \in Nat BY Constants
<1> QED BY <1>1 DEF charge, AnyFrame

\* An item at the end of the queue adds its charge to the total.
LEMMA SumsAppend ==
  ASSUME NEW s \in Seq(AnyFrame), NEW f \in AnyFrame, NEW lo \in Nat, NEW hi \in Nat, Sums(s, lo, hi)
  PROVE  Sums(Append(s, f), lo, hi + charge(f))
<1> DEFINE n == Len(s)
<1> DEFINE c == charge(f)
<1>1. /\ n \in Nat /\ Len(Append(s, f)) = n + 1
      /\ \A i \in 1 .. n : Append(s, f)[i] = s[i]
      /\ Append(s, f)[n + 1] = f
  BY AppendFacts
<1>2. PICK pos \in [1 .. n + 1 -> Nat] :
         /\ pos[1] = lo /\ pos[n + 1] = hi
         /\ \A i \in 1 .. n : pos[i + 1] = pos[i] + charge(s[i])
         /\ \A i \in 1 .. n + 1 : pos[i] <= hi
  BY DEF Sums
<1>3. c \in Nat BY ChargeNat
<1> HIDE DEF n, c
<1> DEFINE q == [i \in 1 .. n + 2 |-> IF i = n + 2 THEN hi + c ELSE pos[i]]
<1>4. q \in [1 .. (n + 1) + 1 -> Nat]
  <2>1. \A i \in 1 .. n + 2 : (IF i = n + 2 THEN hi + c ELSE pos[i]) \in Nat BY <1>1, <1>2, <1>3
  <2> QED BY <2>1, <1>1
<1>5. q[1] = lo /\ q[(n + 1) + 1] = hi + c BY <1>1, <1>2
<1>6. \A i \in 1 .. n + 1 : q[i + 1] = q[i] + charge(Append(s, f)[i])
  <2> SUFFICES ASSUME NEW i \in 1 .. n + 1 PROVE q[i + 1] = q[i] + charge(Append(s, f)[i])
    OBVIOUS
  <2>1. CASE i = n + 1 BY <2>1, <1>1, <1>2 DEF c
  <2>2. CASE i # n + 1
    <3>1. i \in 1 .. n /\ i + 1 \in 1 .. n + 1 BY <2>2, <1>1
    <3>2. q[i + 1] = pos[i + 1] /\ q[i] = pos[i] BY <3>1, <1>1
    <3> QED BY <3>1, <3>2, <1>1, <1>2
  <2> QED BY <2>1, <2>2
<1>7. \A i \in 1 .. (n + 1) + 1 : q[i] <= hi + c
  BY <1>1, <1>2, <1>3
<1> HIDE DEF q
<1> QED BY <1>1, <1>4, <1>5, <1>6, <1>7 DEF Sums, c

\* The first item leaves with its charge.
LEMMA SumsTail ==
  ASSUME NEW s \in Seq(AnyFrame), s # <<>>, NEW lo \in Nat, NEW hi \in Nat, Sums(s, lo, hi)
  PROVE  Sums(Tail(s), lo + charge(Head(s)), hi)
<1> DEFINE n == Len(s)
<1>1. /\ n \in Nat /\ n >= 1 /\ Len(Tail(s)) = n - 1 /\ Head(s) = s[1]
      /\ \A i \in 1 .. (n - 1) : Tail(s)[i] = s[i + 1]
  BY TailFacts
<1>2. PICK pos \in [1 .. n + 1 -> Nat] :
         /\ pos[1] = lo /\ pos[n + 1] = hi
         /\ \A i \in 1 .. n : pos[i + 1] = pos[i] + charge(s[i])
         /\ \A i \in 1 .. n + 1 : pos[i] <= hi
  BY DEF Sums
<1> DEFINE q == [i \in 1 .. n |-> pos[i + 1]]
<1>3. q \in [1 .. (n - 1) + 1 -> Nat]
  <2>1. \A i \in 1 .. n : pos[i + 1] \in Nat BY <1>1, <1>2
  <2> QED BY <2>1, <1>1
<1>4. q[1] = lo + charge(Head(s)) BY <1>1, <1>2
<1>5. q[(n - 1) + 1] = hi BY <1>1, <1>2
<1>6. \A i \in 1 .. (n - 1) : q[i + 1] = q[i] + charge(Tail(s)[i])
  <2> SUFFICES ASSUME NEW i \in 1 .. (n - 1) PROVE q[i + 1] = q[i] + charge(Tail(s)[i])
    OBVIOUS
  <2>1. i + 1 \in 1 .. n /\ i \in 1 .. n BY <1>1
  <2>2. q[i + 1] = pos[(i + 1) + 1] /\ q[i] = pos[i + 1] BY <2>1
  <2> QED BY <2>1, <2>2, <1>1, <1>2
<1>7. \A i \in 1 .. (n - 1) + 1 : q[i] <= hi
  BY <1>1, <1>2
<1> HIDE DEF q
<1> QED BY <1>1, <1>3, <1>4, <1>5, <1>6, <1>7 DEF Sums

\* The first item's charge is part of what has not been consumed.
LEMMA SumsHead ==
  ASSUME NEW s \in Seq(AnyFrame), s # <<>>, NEW lo \in Nat, NEW hi \in Nat, Sums(s, lo, hi)
  PROVE  lo + charge(Head(s)) <= hi
<1>1. Len(s) \in Nat /\ Len(s) >= 1 /\ Head(s) = s[1] BY TailFacts
<1> QED BY <1>1 DEF Sums
-----------------------------------------------------------------------------
\* Arithmetic of a uint32 stays in its range.
LEMMA Wraps ==
  ASSUME NEW a \in 0 .. (Uint - 1), NEW b \in 0 .. (Uint - 1)
  PROVE  Add32(a, b) \in 0 .. (Uint - 1) /\ Sub32(a, b) \in 0 .. (Uint - 1)
  BY Constants DEF Add32, Sub32

LEMMA RogueInitInv == RogueInit => RogueInv
<1> SUFFICES ASSUME RogueInit PROVE RogueInv OBVIOUS
<1>1. NoMsg \in [id : Nat, size : Nat, lo : Nat, first : BOOLEAN] /\ NoMsg.lo <= NoMsg.size BY DEF NoMsg
<1>2. SenderKnows BY <1>1, Constants DEF RogueInit, Init, SenderKnows, NoUpdate
<1>3. Sums(items, consumed, accepted)
  <2>1. items = <<>> /\ consumed = 0 /\ accepted = 0 /\ Len(items) = 0 BY DEF RogueInit, Init
  <2> DEFINE q == [i \in 1 .. 1 |-> 0]
  <2>2. q \in [1 .. Len(items) + 1 -> Nat] /\ \A i \in 1 .. 1 : q[i] = 0 BY <2>1
  <2> HIDE DEF q
  <2> QED BY <2>1, <2>2 DEF Sums
<1>4. ReceiverKnows BY <1>3, Constants DEF RogueInit, Init, ReceiverKnows
<1> QED BY <1>2, <1>4 DEF RogueInv

\* What the receiver knows does not depend on the sender.
LEMMA ReceiverUntouched ==
  ASSUME ReceiverKnows, frames' \in Seq(AnyFrame),
         UNCHANGED <<items, accepted, consumed, credited, rcvWindow, windowUpdate, sendUpdate, cancelled>>
  PROVE  ReceiverKnows'
  BY DEF ReceiverKnows, Sums, charge

\* ... nor the sender's on the receiver.
LEMMA SenderUntouched ==
  ASSUME SenderKnows, UNCHANGED <<sndVars, prevWindow, acks, sent>>
  PROVE  SenderKnows'
  BY DEF SenderKnows, sndVars, remaining

\* The sender's own steps.
LEMMA RogueSenderInv ==
  ASSUME RogueInv, NEW t \in Threads, SenderStep(t) \/ \E n \in Sizes : send(t, n)
  PROVE  RogueInv'
<1> USE DEF sndVars, ctlVars, updVars, rcvVars, readVars
<1> DEFINE M == [id : Nat, size : Nat, lo : Nat, first : BOOLEAN]
<1>1. /\ pc \in [Threads -> {"idle", "load", "wait", "cas", "write"}]
      /\ msg \in [Threads -> M] /\ win \in [Threads -> 0 .. (Uint - 1)] /\ chunk \in [Threads -> Nat]
      /\ sndWindow \in 0 .. (Uint - 1) /\ charged \in Int /\ prevWindow \in Int /\ sent \in Seq(Nat)
      /\ acks \in Seq([add : 0 .. (Uint - 1), from : Int, to : Int])
      /\ \A u \in Threads : msg[u].lo <= msg[u].size /\ (pc[u] = "write" => chunk[u] <= remaining(u))
  BY DEF RogueInv, SenderKnows
<1>2. PICK o \in Nat : o = overhead(t) /\ o < Uint BY Constants DEF overhead
<1>3. PICK r \in Nat : r = remaining(t) BY <1>1 DEF remaining
<1>4. NoMsg \in M /\ NoMsg.lo <= NoMsg.size BY DEF NoMsg
<1>5. UNCHANGED <<items, accepted, consumed, credited, rcvWindow, windowUpdate, sendUpdate, cancelled, prevWindow, acks>>
  BY DEF SenderStep, send, LoadWindow, WakeSender, AbortSend, ReserveChunk, WriteChunk
<1>6. frames \in Seq(AnyFrame) BY DEF RogueInv, ReceiverKnows
<1>7. ASSUME Leave(t), UNCHANGED <<sndWindow, charged, sent>> PROVE SenderKnows'
  <2>1. /\ pc' \in [Threads -> {"idle", "load", "wait", "cas", "write"}] /\ msg' \in [Threads -> M]
        /\ win' \in [Threads -> 0 .. (Uint - 1)] /\ chunk' \in [Threads -> Nat]
    BY <1>1, <1>4, <1>7, Constants DEF Leave
  <2>2. ASSUME NEW u \in Threads
        PROVE  msg'[u].lo <= msg'[u].size /\ (pc'[u] = "write" => chunk'[u] <= remaining(u)')
    <3>1. CASE u = t BY <3>1, <1>1, <1>4, <1>7 DEF Leave
    <3>2. CASE u # t
      <4>1. msg'[u] = msg[u] /\ pc'[u] = pc[u] /\ chunk'[u] = chunk[u] BY <3>2, <1>1, <1>7 DEF Leave
      <4> QED BY <4>1, <1>1 DEF remaining
    <3> QED BY <3>1, <3>2
  <2> QED BY <2>1, <2>2, <1>1, <1>5, <1>7 DEF SenderKnows
<1>8. CASE \E n \in Sizes : send(t, n)
  <2>1. PICK n \in Sizes : send(t, n) BY <1>8
  <2>2. n \in Nat /\ Len(sent) \in Nat BY <1>1, FlowAssumption
  <2> DEFINE m == [id |-> Len(sent) + 1, size |-> n, lo |-> 0, first |-> TRUE]
  <2>3. m \in M /\ m.lo <= m.size BY <2>2
  <2>4. /\ pc' = [pc EXCEPT ![t] = "load"] /\ msg' = [msg EXCEPT ![t] = m] /\ sent' = Append(sent, n)
        /\ UNCHANGED <<win, chunk, sndWindow, charged, frames>>
    BY <2>1 DEF send
  <2> HIDE DEF m
  <2>5. /\ pc' \in [Threads -> {"idle", "load", "wait", "cas", "write"}] /\ msg' \in [Threads -> M]
        /\ sent' \in Seq(Nat)
    BY <2>2, <2>3, <2>4, <1>1, AppendFacts
  <2>6. ASSUME NEW u \in Threads
        PROVE  msg'[u].lo <= msg'[u].size /\ (pc'[u] = "write" => chunk'[u] <= remaining(u)')
    BY <2>3, <2>4, <1>1 DEF remaining
  <2>7. SenderKnows' BY <2>4, <2>5, <2>6, <1>1, <1>5 DEF SenderKnows
  <2> QED BY <2>4, <2>7, <1>5, <1>6, ReceiverUntouched DEF RogueInv
<1>9. CASE LoadWindow(t) \/ WakeSender(t)
  <2>1. /\ UNCHANGED <<msg, chunk, sndWindow, charged, frames, sent>>
        /\ \E q \in {"load", "wait", "cas"} : pc' = [pc EXCEPT ![t] = q]
        /\ win' = win \/ win' = [win EXCEPT ![t] = sndWindow]
    BY <1>9 DEF LoadWindow, WakeSender
  <2>2. pc' \in [Threads -> {"idle", "load", "wait", "cas", "write"}] /\ win' \in [Threads -> 0 .. (Uint - 1)]
    BY <2>1, <1>1
  <2>3. ASSUME NEW u \in Threads
        PROVE  msg'[u].lo <= msg'[u].size /\ (pc'[u] = "write" => chunk'[u] <= remaining(u)')
    <3>1. pc'[u] = "write" => pc[u] = "write" BY <2>1, <1>1
    <3> QED BY <3>1, <2>1, <1>1 DEF remaining
  <2>4. SenderKnows' BY <2>1, <2>2, <2>3, <1>1, <1>5 DEF SenderKnows
  <2> QED BY <2>1, <2>4, <1>5, <1>6, ReceiverUntouched DEF RogueInv
<1>10. CASE AbortSend(t)
  <2>1. Leave(t) /\ UNCHANGED <<sndWindow, charged, sent, frames>> BY <1>10 DEF AbortSend
  <2> QED BY <2>1, <1>5, <1>6, <1>7, ReceiverUntouched DEF RogueInv
<1>11. CASE ReserveChunk(t)
  <2>1. PICK w \in 0 .. (Uint - 1) : w = win[t] BY <1>1
  <2>2. PICK d \in Nat : d = Sub32(win[t], overhead(t)) 
    <3>1. o \in 0 .. (Uint - 1) BY <1>2, Constants
    <3>2. Sub32(w, o) \in 0 .. (Uint - 1) BY <3>1, Wraps
    <3> QED BY <3>2, <2>1, <1>2
  <2>3. PICK k \in 0 .. (Uint - 1) : k = chunkSz(t) /\ k <= r
    <3>1. chunkSz(t) = Lesser(Lesser(d, r), maxChunkSize) BY <2>2, <1>3 DEF chunkSz
    <3> QED BY <3>1, Constants DEF Lesser
  <2>4. Sub32(Sub32(sndWindow, o), k) \in 0 .. (Uint - 1)
    <3>1. o \in 0 .. (Uint - 1) BY <1>2, Constants
    <3>2. Sub32(sndWindow, o) \in 0 .. (Uint - 1) BY <3>1, <1>1, Wraps
    <3> QED BY <3>2, Wraps
  <2>5. UNCHANGED <<msg, win, frames, sent>> BY <1>11 DEF ReserveChunk
  <2>6. \/ /\ pc' = [pc EXCEPT ![t] = "write"] /\ chunk' = [chunk EXCEPT ![t] = k]
           /\ sndWindow' = Sub32(Sub32(sndWindow, o), k) /\ charged' = charged + o + k
        \/ pc' = [pc EXCEPT ![t] = "load"] /\ UNCHANGED <<sndWindow, chunk, charged>>
    BY <1>11, <1>2, <2>3 DEF ReserveChunk
  <2>7. /\ pc' \in [Threads -> {"idle", "load", "wait", "cas", "write"}] /\ chunk' \in [Threads -> Nat]
        /\ sndWindow' \in 0 .. (Uint - 1) /\ charged' \in Int
    <3>1. charged + o + k \in Int BY <1>1
    <3>2. sndWindow' \in 0 .. (Uint - 1) BY <2>4, <2>6, <1>1
    <3>3. charged' \in Int BY <3>1, <2>6, <1>1
    <3>4. pc' \in [Threads -> {"idle", "load", "wait", "cas", "write"}] BY <2>6, <1>1
    <3>5. chunk' \in [Threads -> Nat]
      <4>1. k \in Nat OBVIOUS
      <4> QED BY <4>1, <2>6, <1>1
    <3> QED BY <3>2, <3>3, <3>4, <3>5
  <2>8. ASSUME NEW u \in Threads
        PROVE  msg'[u].lo <= msg'[u].size /\ (pc'[u] = "write" => chunk'[u] <= remaining(u)')
    <3>1. remaining(u)' = remaining(u) BY <2>5 DEF remaining
    <3>2. CASE u = t BY <3>1, <3>2, <2>3, <2>5, <2>6, <1>1, <1>3
    <3>3. CASE u # t BY <3>1, <3>3, <2>5, <2>6, <1>1
    <3> QED BY <3>2, <3>3
  <2>9. SenderKnows' BY <2>5, <2>7, <2>8, <1>1, <1>5 DEF SenderKnows
  <2> QED BY <2>5, <2>9, <1>5, <1>6, ReceiverUntouched DEF RogueInv
<1>12. CASE WriteChunk(t)
  <2>1. PICK k \in Nat : k = chunk[t] /\ k <= r BY <1>1, <1>3, <1>12 DEF WriteChunk
  <2>2. msg[t] \in M /\ charged - o - k \in Int BY <1>1
  <2>3. NextFrame(t) \in AnyFrame BY <2>1, <2>2, <1>1, <1>2 DEF NextFrame, AnyFrame
  <2>4. frames' \in Seq(AnyFrame)
    <3>1. frames' = frames \/ frames' = Append(frames, NextFrame(t)) BY <1>12 DEF WriteChunk
    <3> QED BY <3>1, <2>3, <1>6, AppendFacts
  <2>5. UNCHANGED <<sndWindow, charged, sent>> BY <1>12 DEF WriteChunk
  <2>6. CASE broken \/ chunk[t] = remaining(t)
    <3>1. Leave(t) BY <1>12, <2>6 DEF WriteChunk
    <3> QED BY <3>1, <2>4, <2>5, <1>5, <1>7, ReceiverUntouched DEF RogueInv
  <2>7. CASE ~(broken \/ chunk[t] = remaining(t))
    <3>1. /\ msg' = [msg EXCEPT ![t] = [msg[t] EXCEPT !.lo = @ + chunk[t], !.first = FALSE]]
          /\ pc' = [pc EXCEPT ![t] = "load"] /\ UNCHANGED <<win, chunk>>
      BY <1>12, <2>7 DEF WriteChunk
    <3>2. msg' \in [Threads -> M] /\ pc' \in [Threads -> {"idle", "load", "wait", "cas", "write"}]
      <4>1. [msg[t] EXCEPT !.lo = @ + chunk[t], !.first = FALSE] \in M
        <5>1. chunk[t] \in Nat /\ msg[t] \in M BY <1>1
        <5>2. msg[t].lo + chunk[t] \in Nat BY <5>1
        <5> QED BY <5>1, <5>2
      <4>2. msg' = [msg EXCEPT ![t] = [msg[t] EXCEPT !.lo = @ + chunk[t], !.first = FALSE]] BY <3>1, <1>1
      <4> QED BY <4>1, <4>2, <3>1, <1>1
    <3>3. msg'[t].lo <= msg'[t].size
      <4>1. msg'[t].lo = msg[t].lo + k /\ msg'[t].size = msg[t].size
        <5>1. msg'[t] = [msg[t] EXCEPT !.lo = @ + chunk[t], !.first = FALSE] BY <3>1, <1>1
        <5> QED BY <5>1, <2>1, <2>2
      <4>2. msg[t].lo \in Nat /\ msg[t].size \in Nat /\ r = msg[t].size - msg[t].lo
        BY <2>2, <1>3 DEF remaining
      <4> QED BY <4>1, <4>2, <2>1
    <3>4. ASSUME NEW u \in Threads
          PROVE  msg'[u].lo <= msg'[u].size /\ (pc'[u] = "write" => chunk'[u] <= remaining(u)')
      <4>1. CASE u = t BY <4>1, <3>1, <3>3, <1>1
      <4>2. CASE u # t
        <5>1. msg'[u] = msg[u] /\ pc'[u] = pc[u] /\ chunk'[u] = chunk[u] BY <4>2, <3>1, <1>1
        <5> QED BY <5>1, <1>1 DEF remaining
      <4> QED BY <4>1, <4>2
    <3>5. SenderKnows' BY <3>1, <3>2, <3>4, <2>5, <1>1, <1>5 DEF SenderKnows
    <3> QED BY <3>5, <2>4, <1>5, ReceiverUntouched DEF RogueInv
  <2> QED BY <2>6, <2>7
<1> QED BY <1>8, <1>9, <1>10, <1>11, <1>12 DEF SenderStep

\* updateWindow, and the sender's window that wraps around.
LEMMA RogueUpdateInv == ASSUME RogueInv, AddWindow \/ SignalSender PROVE RogueInv'
<1> USE DEF sndVars, ctlVars, updVars, rcvVars, readVars
<1> DEFINE A == [add : 0 .. (Uint - 1), from : Int, to : Int]
<1>1. acks \in Seq(A) /\ sndWindow \in 0 .. (Uint - 1) /\ prevWindow \in Int BY DEF RogueInv, SenderKnows
<1>2. UNCHANGED <<items, accepted, consumed, credited, rcvWindow, windowUpdate, sendUpdate, cancelled, frames>>
  BY DEF AddWindow, SignalSender
<1>3. ReceiverKnows' BY <1>2, ReceiverUntouched DEF RogueInv, ReceiverKnows
<1>4. CASE AddWindow
  <2>1. acks # <<>> /\ acks' = Tail(acks) BY <1>4 DEF AddWindow
  <2>2. acks' \in Seq(A) /\ Head(acks) \in A BY <2>1, <1>1, TailFacts
  <2>3. Add32(sndWindow, Head(acks).add) \in 0 .. (Uint - 1) BY <2>2, <1>1, Wraps
  <2>4. sndWindow' \in 0 .. (Uint - 1) /\ prevWindow' \in Int BY <1>1, <1>4, <2>3 DEF AddWindow
  <2>5. UNCHANGED <<pc, msg, win, chunk, charged, sent>> BY <1>4 DEF AddWindow
  <2>6. SenderKnows' BY <2>2, <2>4, <2>5 DEF RogueInv, SenderKnows, remaining
  <2> QED BY <2>6, <1>3 DEF RogueInv
<1>5. CASE SignalSender
  <2>1. prevWindow' \in Int /\ UNCHANGED <<pc, msg, win, chunk, charged, sent, sndWindow, acks>>
    BY <1>5 DEF SignalSender, NoUpdate
  <2>2. SenderKnows' BY <2>1 DEF RogueInv, SenderKnows, remaining
  <2> QED BY <2>2, <1>3 DEF RogueInv
<1> QED BY <1>4, <1>5

\* accept takes only what fits the window.
LEMMA RogueAcceptInv == ASSUME RogueInv, accept PROVE RogueInv'
<1> USE DEF sndVars, ctlVars, updVars, rcvVars, readVars
<1>0. /\ accepted \in Nat /\ consumed \in Nat /\ credited \in Nat /\ rcvWindow \in Nat
      /\ consumed <= accepted /\ rcvWindow = Window - accepted + credited
  BY DEF RogueInv, ReceiverKnows
<1>1. frames \in Seq(AnyFrame) /\ items \in Seq(AnyFrame) BY DEF RogueInv, ReceiverKnows
<1>2. frames # <<>> /\ frames' = Tail(frames) BY DEF accept
<1>3. frames' \in Seq(AnyFrame) /\ Head(frames) \in AnyFrame BY <1>1, <1>2, TailFacts
<1>4. UNCHANGED <<sndVars, prevWindow, acks, sent, consumed, credited, windowUpdate, sendUpdate, cancelled>>
  BY Zenon DEF accept
<1>5. SenderKnows' BY <1>4, SenderUntouched DEF RogueInv
<1>6. CASE UNCHANGED <<items, accepted, rcvWindow>>
  BY <1>3, <1>4, <1>5, <1>6, ReceiverUntouched DEF RogueInv
<1>7. CASE ~UNCHANGED <<items, accepted, rcvWindow>>
  <2> DEFINE f == Head(frames)
  <2>1. /\ Fits(f) /\ rcvWindow' = Sub32(rcvWindow, charge(f)) /\ accepted' = accepted + charge(f)
        /\ items' = Append(items, f)
    BY <1>7 DEF accept, Enqueue
  <2> HIDE DEF f
  <2>2. PICK k \in Nat : k = charge(f) /\ k <= rcvWindow BY <2>1, <1>3, ChargeNat DEF Fits, f
  <2>3. rcvWindow' = rcvWindow - k /\ accepted' = accepted + k BY <2>1, <2>2, <1>0 DEF Sub32
  <2>4. items' \in Seq(AnyFrame) BY <2>1, <1>1, <1>3, AppendFacts DEF f
  <2>5. ~cancelled => Sums(items', consumed, accepted')
    BY <2>1, <1>0, <1>1, <1>3, SumsAppend DEF RogueInv, ReceiverKnows, f
  <2>6. /\ accepted' \in Nat /\ rcvWindow' \in Nat /\ consumed <= accepted'
        /\ rcvWindow' = Window - accepted' + credited
    BY <2>2, <2>3, <1>0, Constants
  <2>7. (~cancelled => Sums(items, consumed, accepted))' BY <2>5, <1>4 DEF Sums, charge
  <2>8. ReceiverKnows' BY <2>4, <2>6, <2>7, <1>3, <1>4 DEF RogueInv, ReceiverKnows
  <2> QED BY <2>8, <1>5 DEF RogueInv
<1> QED BY <1>6, <1>7

\* dequeue consumes what was accepted, and credits what it has consumed.
LEMMA RogueDequeueInv == ASSUME RogueInv, dequeue PROVE RogueInv'
<1> USE DEF sndVars, ctlVars, updVars, rcvVars, readVars
<1>1. frames \in Seq(AnyFrame) /\ items \in Seq(AnyFrame) BY DEF RogueInv, ReceiverKnows
<1>0. /\ accepted \in Nat /\ consumed \in Nat /\ credited \in Nat /\ rcvWindow \in Nat
      /\ windowUpdate \in Nat /\ sendUpdate \in 0 .. (Uint - 1)
      /\ credited <= consumed /\ consumed <= accepted
      /\ rcvWindow = Window - accepted + credited /\ windowUpdate = consumed - credited
  BY DEF RogueInv, ReceiverKnows
<1>2. UNCHANGED <<sndVars, prevWindow, acks, sent, frames, accepted, cancelled>> BY DEF dequeue
<1>3. SenderKnows' BY <1>2, SenderUntouched DEF RogueInv
<1>4. CASE cancelled \/ items = <<>>
  <2>1. UNCHANGED <<items, consumed, credited, rcvWindow, windowUpdate, sendUpdate>> BY <1>4 DEF dequeue
  <2> QED BY <2>1, <1>1, <1>2, <1>3, ReceiverUntouched DEF RogueInv
<1>5. CASE ~cancelled /\ items # <<>>
  <2> DEFINE f == Head(items)
  <2>1. TakeItem(f) BY <1>5 DEF dequeue
  <2>2. f \in AnyFrame /\ items' = Tail(items) /\ items' \in Seq(AnyFrame)
    BY <2>1, <1>1, <1>5, TailFacts DEF TakeItem
  <2>3. Sums(items, consumed, accepted) BY <1>5 DEF RogueInv, ReceiverKnows
  <2>4. Sums(Tail(items), consumed + charge(f), accepted) /\ consumed + charge(f) <= accepted
    BY <2>3, <1>0, <1>1, <1>5, SumsTail, SumsHead
  <2> HIDE DEF f
  <2>5. PICK k \in Nat : k = charge(f) /\ consumed + k <= accepted BY <2>2, <2>4, ChargeNat
  <2> DEFINE n == windowUpdate + k
  <2>6. n \in Nat /\ n < Uint /\ rcvWindow + n <= Window BY <2>5, <1>0, Constants
  <2>7. Add32(windowUpdate, charge(f)) = n /\ Add32(rcvWindow, n) = rcvWindow + n
    BY <2>5, <2>6, <1>0, Constants DEF Add32
  <2>8. n = consumed + k - credited BY <1>0
  <2> HIDE DEF n
  <2>9. /\ consumed' = consumed + k
        /\ \/ /\ rcvWindow' = rcvWindow + n /\ credited' = credited + n /\ sendUpdate' = n /\ windowUpdate' = 0
           \/ windowUpdate' = n /\ UNCHANGED <<rcvWindow, credited, sendUpdate>>
    BY <2>1, <2>5, <2>7 DEF TakeItem
  <2>10. /\ consumed' \in Nat /\ credited' \in Nat /\ rcvWindow' \in Nat /\ windowUpdate' \in Nat
         /\ sendUpdate' \in 0 .. (Uint - 1) /\ credited' <= consumed' /\ consumed' <= accepted
         /\ rcvWindow' = Window - accepted + credited' /\ windowUpdate' = consumed' - credited'
    <3>1. CASE /\ rcvWindow' = rcvWindow + n /\ credited' = credited + n
               /\ sendUpdate' = n /\ windowUpdate' = 0
      BY <3>1, <2>5, <2>6, <2>8, <2>9, <1>0, Constants
    <3>2. CASE windowUpdate' = n /\ rcvWindow' = rcvWindow /\ credited' = credited /\ sendUpdate' = sendUpdate
      BY <3>2, <2>5, <2>6, <2>8, <2>9, <1>0, Constants
    <3> QED BY <3>1, <3>2, <2>9
  <2>11. Sums(items', consumed', accepted) BY <2>2, <2>4, <2>5, <2>9
  <2>12. (~cancelled => Sums(items, consumed, accepted))' BY <2>11, <1>2 DEF Sums, charge
  <2>13. ReceiverKnows' BY <2>2, <2>10, <2>12, <1>0, <1>1, <1>2 DEF ReceiverKnows
  <2> QED BY <2>13, <1>3 DEF RogueInv
<1> QED BY <1>4, <1>5

\* The remaining steps of the reader and of the stream's end.
LEMMA RogueOtherInv ==
  ASSUME RogueInv,
         \/ CloseSend \/ CancelContext \/ BreakTunnel \/ EndStream \/ Abandon \/ close \/ cancel
         \/ SendAck \/ FailRead \/ UNCHANGED vars
  PROVE  RogueInv'
<1> USE DEF sndVars, ctlVars, updVars, rcvVars, readVars
<1>1. /\ frames \in Seq(AnyFrame) /\ items \in Seq(AnyFrame) /\ sendUpdate \in 0 .. (Uint - 1)
      /\ acks \in Seq([add : 0 .. (Uint - 1), from : Int, to : Int]) /\ credited \in Nat
  BY DEF RogueInv, SenderKnows, ReceiverKnows
<1>2. CASE CloseSend \/ CancelContext \/ BreakTunnel \/ EndStream \/ Abandon \/ close \/ UNCHANGED vars
  <2>1. /\ UNCHANGED <<items, accepted, consumed, credited, rcvWindow, windowUpdate, sendUpdate, cancelled, frames>>
        /\ UNCHANGED <<sndVars, prevWindow, acks, sent>>
    BY <1>2 DEF CloseSend, CancelContext, BreakTunnel, EndStream, Abandon, close, vars
  <2> QED BY <2>1, <1>1, ReceiverUntouched, SenderUntouched DEF RogueInv
<1>3. CASE SendAck
  <2> DEFINE a == [add |-> sendUpdate, from |-> credited - sendUpdate, to |-> credited]
  <2>1. a \in [add : 0 .. (Uint - 1), from : Int, to : Int] BY <1>1
  <2>2. acks' = acks \/ acks' = Append(acks, a) BY <1>3 DEF SendAck
  <2> HIDE DEF a
  <2>3. acks' \in Seq([add : 0 .. (Uint - 1), from : Int, to : Int])
    <3> DEFINE A == [add : 0 .. (Uint - 1), from : Int, to : Int]
    <3>1. acks \in Seq(A) /\ a \in A BY <1>1, <2>1
    <3> HIDE DEF A
    <3>2. Append(acks, a) \in Seq(A) BY <3>1, AppendFacts
    <3>3. acks' \in Seq(A) BY <3>1, <3>2, <2>2
    <3> QED BY <3>3 DEF A
  <2>4. /\ UNCHANGED <<items, accepted, consumed, credited, rcvWindow, windowUpdate, cancelled, frames>>
        /\ UNCHANGED <<sndVars, prevWindow, sent>> /\ sendUpdate' = 0
    BY <1>3 DEF SendAck
  <2>5. SenderKnows' BY <2>3, <2>4 DEF RogueInv, SenderKnows, remaining
  <2>6. sendUpdate' \in 0 .. (Uint - 1) BY <2>4, Constants
  <2>7. (~cancelled => Sums(items, consumed, accepted))'
    BY <2>4 DEF RogueInv, ReceiverKnows, Sums, charge
  <2>8. ReceiverKnows' BY <2>4, <2>6, <2>7 DEF RogueInv, ReceiverKnows
  <2> QED BY <2>5, <2>8 DEF RogueInv
<1>4. CASE cancel \/ FailRead
  <2>1. /\ UNCHANGED <<accepted, consumed, credited, rcvWindow, windowUpdate, sendUpdate, frames>>
        /\ UNCHANGED <<sndVars, prevWindow, acks, sent>>
    BY <1>4 DEF cancel, FailRead
  <2>5. (~cancelled' => ~cancelled /\ items' = items) /\ (items' = items \/ items' = <<>>)
    BY <1>4, Zenon DEF cancel, FailRead
  <2>2. items' \in Seq(AnyFrame)
    <3>1. <<>> \in Seq(AnyFrame) OBVIOUS
    <3> QED BY <3>1, <2>5, <1>1
  <2>3. (~cancelled => Sums(items, consumed, accepted))'
    BY <2>1, <2>5 DEF RogueInv, ReceiverKnows, Sums, charge
  <2>4. ReceiverKnows' BY <2>1, <2>2, <2>3 DEF RogueInv, ReceiverKnows
  <2> QED BY <2>1, <2>4, SenderUntouched DEF RogueInv
<1> QED BY <1>2, <1>3, <1>4

\* A frame of the rogue peer changes nothing but what is in flight.
LEMMA RogueFrameInv ==
  ASSUME RogueInv, NEW first \in BOOLEAN, NEW size \in RogueSizes, NEW len \in RogueSizes,
         RogueFrame(first, size, len)
  PROVE  RogueInv'
<1> USE DEF sndVars, ctlVars, updVars, rcvVars, readVars
<1> DEFINE f == [first |-> first, size |-> IF first THEN size ELSE 0, id |-> 0, lo |-> 0, len |-> len,
                 from |-> charged, to |-> charged]
<1>1. charged \in Int /\ frames \in Seq(AnyFrame) BY DEF RogueInv, SenderKnows, ReceiverKnows
<1>2. f \in AnyFrame BY <1>1, RogueAssumption DEF AnyFrame
<1>3. frames' = Append(frames, f) BY DEF RogueFrame
<1> HIDE DEF f
<1>4. frames' \in Seq(AnyFrame) BY <1>1, <1>2, <1>3, AppendFacts
<1>5. UNCHANGED <<items, accepted, consumed, credited, rcvWindow, windowUpdate, sendUpdate, cancelled,
                  sndVars, prevWindow, acks, sent>>
  BY DEF RogueFrame
<1> QED BY <1>4, <1>5, ReceiverUntouched, SenderUntouched DEF RogueInv

LEMMA RogueNextInv == RogueInv /\ [RogueNext]_rogueVars => RogueInv'
<1> SUFFICES ASSUME RogueInv, [RogueNext]_rogueVars PROVE RogueInv' OBVIOUS
<1>1. CASE UNCHANGED rogueVars BY <1>1, RogueOtherInv DEF rogueVars
<1>2. CASE \E first \in BOOLEAN, size, len \in RogueSizes : RogueFrame(first, size, len)
  BY <1>2, RogueFrameInv
<1>3. CASE Next
  BY <1>3, RogueSenderInv, RogueUpdateInv, RogueAcceptInv, RogueDequeueInv, RogueOtherInv DEF Next
<1> QED BY <1>1, <1>2, <1>3 DEF RogueNext

\* Whatever a peer sends, accept and dequeue account for every byte of the
\* window, so that it bounds the receiver's queue.
THEOREM QueueBounded == RogueSpec => []QueueWithinWindow
<1>1. RogueInit => RogueInv BY RogueInitInv
<1>2. RogueInv /\ [RogueNext]_rogueVars => RogueInv' BY RogueNextInv
<1>3. RogueInv => QueueWithinWindow
  BY Constants DEF RogueInv, ReceiverKnows, QueueWithinWindow
<1> QED BY <1>1, <1>2, <1>3, PTL DEF RogueSpec
=============================================================================
