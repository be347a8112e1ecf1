-------------------------- MODULE FlowControlRogue --------------------------
(***************************************************************************)
(* The receiver of FlowControl facing a peer that does not keep to the     *)
(* protocol: between the frames of a real sender it also sends frames that *)
(* ignore the window and the framing of messages.                          *)
(***************************************************************************)
EXTENDS FlowControl

CONSTANTS
  RogueSizes,       \* sizes a rogue frame may carry or announce
  MaxRogue          \* bound: number of rogue frames

ASSUME RogueAssumption == RogueSizes \subseteq Nat /\ MaxRogue \in Nat

VARIABLE rogue      \* number of rogue frames sent

rogueVars == <<vars, rogue>>

RogueInit == Init /\ rogue = 0

RogueFrame(first, size, len) ==
  /\ ~broken /\ ~endSent
  /\ rogue < MaxRogue
  /\ rogue' = rogue + 1
  /\ frames' = Append(frames, [first |-> first, size |-> IF first THEN size ELSE 0, id |-> 0, lo |-> 0,
                               len |-> len, from |-> charged, to |-> charged])
  /\ UNCHANGED <<sndVars, ctlVars, updVars, rcvVars, readVars, acks, sent>>

RogueNext ==
  \/ Next /\ UNCHANGED rogue
  \/ \E first \in BOOLEAN, size, len \in RogueSizes : RogueFrame(first, size, len)

\* The receive loop and the reader keep running.
RogueSpec ==
  /\ RogueInit /\ [][RogueNext]_rogueVars
  /\ WF_rogueVars((accept \/ close) /\ UNCHANGED rogue)
  /\ WF_rogueVars((dequeue \/ SendAck \/ FailRead) /\ UNCHANGED rogue)

\* Whatever the peer sends, the queue never holds more than the window, so a
\* slow reader's memory is bounded: accept, dequeue and the window they share
\* always account for every byte.
QueueWithinWindow ==
  /\ accepted - consumed <= Window
  /\ rcvWindow + (accepted - credited) = Window

\* A peer that exceeds the window, or sends a malformed message, makes the
\* stream end: the receiver is closed and the reader told, never left waiting.
RogueStreamEnds == rejected \/ readErr ~> closed /\ rd = "done"
=============================================================================
