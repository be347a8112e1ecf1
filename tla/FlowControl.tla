---------------------------- MODULE FlowControl ----------------------------
(***************************************************************************)
(* Flow control of one direction of one tunneled stream: a sender at one   *)
(* end of the tunnel, a receiver at the other (flow_control.go), and the   *)
(* loop that puts the chunks of a message back together (readMsgLocked).   *)
(* Sender and receiver are the same code for requests (client to server)   *)
(* and for responses (server to client).  The loop is that of the client;  *)
(* the server's has the same way with chunks, but after a cancel it may    *)
(* return an empty message where the client's returns an error (Tunnel).   *)
(*                                                                         *)
(* The actors are the goroutines that call send, the receive loop of the   *)
(* sending end (it applies window updates), the receive loop of the        *)
(* receiving end (it accepts frames) and the goroutine that reads.  A step *)
(* ends at each access to memory another actor also uses: the atomic       *)
(* currentWindow of the sender, the windowUpdates channel, the sections    *)
(* under the receiver's mutex, and the two directions of the tunnel.       *)
(***************************************************************************)
EXTENDS Integers, Sequences

CONSTANTS
  Threads,      \* goroutines that call send on this stream
  NoThread,     \* none of them
  Revision,     \* protocol revision the stream uses
  Window,       \* initialWindowSize of the receiving end
  MaxChunk,     \* maxChunkSize of the sending end
  MinUpdate,    \* minWindowUpdateSize of the receiving end
  Uint,         \* number of values of a uint32
  Sizes,        \* message sizes the application may send
  MaxMsgs,      \* bound: number of messages the application sends
  Faults        \* which of the failures below can happen

\* The bytes charged for each message in addition to its data.
messageOverhead(revision) == IF revision >= 2 THEN 5 ELSE 0

minWindowSize(revision) == messageOverhead(revision) + 1

msgOverhead == messageOverhead(Revision)

\* A window smaller than minWindowSize is refused when the stream is created,
\* and initOptions replaces a zero chunk or update size.
ASSUME FlowAssumption ==
  /\ NoThread \notin Threads
  /\ Revision \in {1, 2}
  /\ Uint \in Nat
  /\ Window \in minWindowSize(Revision) .. (Uint - 1)
  /\ MaxChunk \in Nat \ {0}
  /\ MinUpdate \in Nat \ {0}
  /\ Sizes \subseteq 0 .. (Uint - 1)
  /\ MaxMsgs \in Nat
  /\ Faults \subseteq {"context", "tunnel", "cancel", "abandon"}

Lesser(a, b) == IF a <= b THEN a ELSE b

\* What newSender and newReceiver make of the options.
maxChunkSize == Lesser(MaxChunk, Window)
minUpdateSize == Lesser(MinUpdate, Window)

\* uint32 addition and subtraction.
Add32(a, b) == IF a + b >= Uint THEN a + b - Uint ELSE a + b
Sub32(a, b) == IF a >= b THEN a - b ELSE a - b + Uint

NoUpdate == -1      \* the receive loop of the sending end is not in updateWindow
NoMessage == -1     \* msgLen of a reader that is between two messages

VARIABLES
  mu,               \* sender.mu: the thread that is in send, or NoThread
  pc,               \* where each thread is in send
  msg,              \* each thread's message: its number, size and bytes sent so far
  win,              \* windowSz, as each thread loaded it
  chunk,            \* chunkSz, as each thread reserved it
  sndWindow,        \* sender.currentWindow
  windowUpdates,    \* whether the channel of capacity one holds a token
  ctxDone,          \* the sender's context is done
  prevWindow,       \* prevWindow of the updateWindow in progress, or NoUpdate
  frames,           \* the tunnel, from sender to receiver
  acks,             \* the tunnel, from receiver to sender: window updates
  endSent,          \* the sending end has half-closed (or closed) the stream
  broken,           \* the tunnel has failed
  rcvWindow,        \* receiver.currentWindow
  windowUpdate,     \* receiver.windowUpdate: consumed and not yet acknowledged
  items,            \* receiver.items
  abandoned,        \* the receiving end has finished the stream early
  ended,            \* the stream's halfClosed (server) or done (client) is set
  closed,           \* receiver.closed
  cancelled,        \* receiver.cancelled
  rejected,         \* accept has returned errFlowControlWindowExceeded
  rd,               \* where the reader is
  sendUpdate,       \* update the reader has to send, or zero
  msgLen,           \* msgLen of readMsgLocked
  buf,              \* b of readMsgLocked: which message the data is of, and its length
  readErr,          \* readMsgLocked has met a malformed message

  sent,             \* history: the sizes of the messages given to send
  delivered,        \* history: the messages returned by readMsgLocked
  charged,          \* history: all that the sender has taken from its window
  returned,         \* history: all that updateWindow has put back
  accepted,         \* history: all that accept has taken from its window
  consumed,         \* history: all that dequeue has taken from the queue
  credited          \* history: all that dequeue has put back

sndVars  == <<mu, pc, msg, win, chunk, sndWindow, windowUpdates, charged>>
ctlVars  == <<ctxDone, broken, endSent>>
updVars  == <<prevWindow, returned>>
rcvVars  == <<rcvWindow, items, abandoned, ended, closed, cancelled, rejected, accepted>>
readVars == <<rd, sendUpdate, windowUpdate, msgLen, buf, readErr, delivered, consumed, credited>>
vars == <<sndVars, ctlVars, updVars, rcvVars, readVars, frames, acks, sent>>

(***************************************************************************)
(* A data frame: the first chunk of a message carries the size of the      *)
(* whole message.  The data itself is the bytes lo+1..lo+len of message    *)
(* id.  from and to are history: where the frame's charge lies in all that *)
(* the sender has ever charged.  A window update carries the same history. *)
(***************************************************************************)
Frame == [first : BOOLEAN, size : Nat, id : Nat, lo : Nat, len : Nat, from : Nat, to : Nat]
Ack   == [add : Nat, from : Nat, to : Nat]

\* receiver.charge
charge(f) == f.len + (IF f.first THEN msgOverhead ELSE 0)

NoMsg == [id |-> 0, size |-> 0, lo |-> 0, first |-> TRUE]
Empty == [id |-> 0, len |-> 0]

SenderTypes ==
  /\ mu \in Threads \cup {NoThread}
  /\ pc \in [Threads -> {"idle", "load", "wait", "cas", "write"}]
  /\ msg \in [Threads -> [id : Nat, size : Nat, lo : Nat, first : BOOLEAN]]
  /\ win \in [Threads -> Nat]
  /\ chunk \in [Threads -> Nat]
  /\ sndWindow \in 0 .. Window
  /\ windowUpdates \in BOOLEAN
  /\ ctxDone \in BOOLEAN
  /\ prevWindow \in Nat \cup {NoUpdate}

TunnelTypes ==
  /\ frames \in Seq(Frame)
  /\ acks \in Seq(Ack)
  /\ endSent \in BOOLEAN
  /\ broken \in BOOLEAN

ReceiverTypes ==
  /\ rcvWindow \in 0 .. Window
  /\ items \in Seq(Frame)
  /\ abandoned \in BOOLEAN
  /\ ended \in BOOLEAN
  /\ closed \in BOOLEAN
  /\ cancelled \in BOOLEAN
  /\ rejected \in BOOLEAN

ReaderTypes ==
  /\ windowUpdate \in Nat
  /\ rd \in {"ready", "wait", "woken", "update", "failed", "done"}
  /\ sendUpdate \in Nat
  /\ msgLen \in Nat \cup {NoMessage}
  /\ buf \in [id : Nat, len : Nat]
  /\ readErr \in BOOLEAN

HistoryTypes ==
  /\ sent \in Seq(Nat)
  /\ delivered \in Seq([id : Nat, len : Nat])
  /\ charged \in Nat
  /\ returned \in Nat
  /\ accepted \in Nat
  /\ consumed \in Nat
  /\ credited \in Nat

TypeOK == SenderTypes /\ TunnelTypes /\ ReceiverTypes /\ ReaderTypes /\ HistoryTypes

Init ==
  /\ mu = NoThread
  /\ pc = [t \in Threads |-> "idle"]
  /\ msg = [t \in Threads |-> NoMsg]
  /\ win = [t \in Threads |-> 0]
  /\ chunk = [t \in Threads |-> 0]
  /\ sndWindow = Window
  /\ windowUpdates = FALSE
  /\ prevWindow = NoUpdate
  /\ ctxDone = FALSE /\ broken = FALSE /\ endSent = FALSE
  /\ frames = <<>> /\ acks = <<>> /\ items = <<>>
  /\ rcvWindow = Window
  /\ windowUpdate = 0
  /\ abandoned = FALSE /\ ended = FALSE /\ closed = FALSE /\ cancelled = FALSE /\ rejected = FALSE
  /\ rd = "ready"
  /\ sendUpdate = 0
  /\ msgLen = NoMessage
  /\ buf = Empty
  /\ readErr = FALSE
  /\ sent = <<>> /\ delivered = <<>>
  /\ charged = 0 /\ returned = 0 /\ accepted = 0 /\ consumed = 0 /\ credited = 0
-----------------------------------------------------------------------------
(***************************************************************************)
(* The sending end: send, and its callers' other means to end the stream.  *)
(***************************************************************************)
\* Bytes of the message that are still to be sent: len(data).
remaining(t) == msg[t].size - msg[t].lo

\* The first chunk of a message also pays the overhead.
overhead(t) == IF msg[t].first THEN msgOverhead ELSE 0

\* Mutant: any window that pays the overhead will do.
needed_OverheadOnly(t) == overhead(t)

\* Mutant: the overhead is forgotten.
needed_NoOverhead(t) == 1

\* The smallest window in which the next chunk can be sent.
needed(t) == LET n == overhead(t) + Lesser(remaining(t), 1) IN IF n >= 1 THEN n ELSE 1

\* The thread returns from send and releases sender.mu.
Leave(t) ==
  /\ mu' = NoThread
  /\ pc' = [pc EXCEPT ![t] = "idle"]
  /\ msg' = [msg EXCEPT ![t] = NoMsg]
  /\ win' = [win EXCEPT ![t] = 0]
  /\ chunk' = [chunk EXCEPT ![t] = 0]

Unlocked == mu = NoThread

\* A call of send acquires sender.mu.  The application does not send after it
\* has half-closed the stream (the contract of grpc.ClientStream).
send(t, n) ==
  /\ pc[t] = "idle"
  /\ Unlocked
  /\ ~endSent
  /\ Len(sent) < MaxMsgs
  /\ mu' = t
  /\ pc' = [pc EXCEPT ![t] = "load"]
  /\ msg' = [msg EXCEPT ![t] = [id |-> Len(sent) + 1, size |-> n, lo |-> 0, first |-> TRUE]]
  /\ sent' = Append(sent, n)
  /\ UNCHANGED <<win, chunk, sndWindow, windowUpdates, charged, ctlVars, updVars, rcvVars, readVars,
                 frames, acks>>

\* windowSz := currentWindow.Load(), and whether that is enough.
LoadWindow(t) ==
  /\ pc[t] = "load"
  /\ win' = [win EXCEPT ![t] = sndWindow]
  /\ pc' = [pc EXCEPT ![t] = IF sndWindow < needed(t) THEN "wait" ELSE "cas"]
  /\ UNCHANGED <<mu, msg, chunk, sndWindow, windowUpdates, charged, ctlVars, updVars, rcvVars, readVars,
                 frames, acks, sent>>

\* case <-s.windowUpdates
WakeSender(t) ==
  /\ pc[t] = "wait"
  /\ windowUpdates
  /\ windowUpdates' = FALSE
  /\ pc' = [pc EXCEPT ![t] = "load"]
  /\ UNCHANGED <<mu, msg, win, chunk, sndWindow, charged, ctlVars, updVars, rcvVars, readVars,
                 frames, acks, sent>>

\* Mutant: the wait for window ignores the context.
AbortSend_Ignored(t) == FALSE

\* case <-s.ctx.Done()
AbortSend(t) ==
  /\ pc[t] = "wait"
  /\ ctxDone
  /\ Leave(t)
  /\ UNCHANGED <<sndWindow, windowUpdates, charged, ctlVars, updVars, rcvVars, readVars,
                 frames, acks, sent>>

\* chunkSz, for the window the thread has loaded.
chunkSz(t) == Lesser(Lesser(Sub32(win[t], overhead(t)), remaining(t)), maxChunkSize)

\* CompareAndSwap reserves room for a chunk, or the loop starts again.
ReserveChunk(t) ==
  /\ pc[t] = "cas"
  /\ IF sndWindow = win[t]
       THEN /\ sndWindow' = Sub32(Sub32(sndWindow, overhead(t)), chunkSz(t))
            /\ chunk' = [chunk EXCEPT ![t] = chunkSz(t)]
            /\ charged' = charged + overhead(t) + chunkSz(t)
            /\ pc' = [pc EXCEPT ![t] = "write"]
       ELSE /\ pc' = [pc EXCEPT ![t] = "load"]
            /\ UNCHANGED <<sndWindow, chunk, charged>>
  /\ UNCHANGED <<mu, msg, win, windowUpdates, ctlVars, updVars, rcvVars, readVars, frames, acks, sent>>

\* The frame that sendFunc writes to the tunnel.
NextFrame(t) ==
  [first |-> msg[t].first, size |-> IF msg[t].first THEN msg[t].size ELSE 0,
   id |-> msg[t].id, lo |-> msg[t].lo, len |-> chunk[t],
   from |-> charged - overhead(t) - chunk[t], to |-> charged]

\* sendFunc: write the chunk to the tunnel; leave after the last one or on error.
WriteChunk(t) ==
  /\ pc[t] = "write"
  /\ frames' = IF broken THEN frames ELSE Append(frames, NextFrame(t))
  /\ IF broken \/ chunk[t] = remaining(t)
       THEN Leave(t)
       ELSE /\ msg' = [msg EXCEPT ![t] = [msg[t] EXCEPT !.lo = @ + chunk[t], !.first = FALSE]]
            /\ pc' = [pc EXCEPT ![t] = "load"]
            /\ UNCHANGED <<mu, win, chunk>>
  /\ UNCHANGED <<sndWindow, windowUpdates, charged, ctlVars, updVars, rcvVars, readVars, acks, sent>>

\* CloseSend of the client, or the end of the server's handler: both hold the
\* stream's writeMu, so no send is in progress.
CloseSend ==
  /\ mu = NoThread
  /\ ~endSent
  /\ endSent' = TRUE
  /\ UNCHANGED <<ctxDone, broken, sndVars, updVars, rcvVars, readVars, frames, acks, sent>>

\* The stream's context at the sending end is cancelled or times out.
CancelContext ==
  /\ "context" \in Faults
  /\ ~ctxDone
  /\ ctxDone' = TRUE
  /\ UNCHANGED <<broken, endSent, sndVars, updVars, rcvVars, readVars, frames, acks, sent>>

\* The tunnel fails: frames in flight are lost and every later Send fails.
BreakTunnel ==
  /\ "tunnel" \in Faults
  /\ ~broken
  /\ broken' = TRUE
  /\ UNCHANGED <<ctxDone, endSent, sndVars, updVars, rcvVars, readVars, frames, acks, sent>>

\* updateWindow, called by the receive loop: first the atomic addition.
AddWindow ==
  /\ ~broken
  /\ prevWindow = NoUpdate
  /\ acks # <<>>
  /\ acks' = Tail(acks)
  /\ IF Head(acks).add = 0
       THEN UNCHANGED <<sndWindow, prevWindow, returned>>
       ELSE /\ sndWindow' = Add32(sndWindow, Head(acks).add)
            /\ prevWindow' = sndWindow
            /\ returned' = returned + Head(acks).add
  /\ UNCHANGED <<mu, pc, msg, win, chunk, windowUpdates, charged, ctlVars, rcvVars, readVars, frames, sent>>

\* The window may have been too small to send anything.
TooSmall_OnlyZero(w) == w = 0       \* mutant: forgets the overhead
TooSmall(w) == w <= msgOverhead

\* then, if the window was too small, the token (dropped if there is one).
SignalSender ==
  /\ prevWindow # NoUpdate
  /\ windowUpdates' = (windowUpdates \/ TooSmall(prevWindow))
  /\ prevWindow' = NoUpdate
  /\ UNCHANGED <<mu, pc, msg, win, chunk, sndWindow, charged, ctlVars, returned, rcvVars, readVars,
                 frames, acks, sent>>
-----------------------------------------------------------------------------
(***************************************************************************)
(* The receiving end.  cond.Signal and cond.Broadcast both wake the one    *)
(* reader that readMu lets in.                                             *)
(***************************************************************************)
WakeReader_Never == rd' = rd        \* mutant: no signal
WakeReader == rd' = IF items = <<>> /\ rd = "wait" THEN "woken" ELSE rd

Fits_OffByOne(f) == charge(f) <= rcvWindow + 1      \* mutant
Fits(f) == charge(f) <= rcvWindow

Enqueue_Front(f) == items' = <<f>> \o items         \* mutant: the wrong end
Enqueue(f) == items' = Append(items, f)

\* A goroutine is in finishStream or halfClose, before receiver.close.  It is
\* the receive loop itself when accept has failed.
Closing == ended /\ ~closed

accept ==
  /\ ~broken /\ ~(rejected /\ Closing)
  /\ frames # <<>>
  /\ frames' = Tail(frames)
  /\ LET f == Head(frames) IN
     CASE closed -> UNCHANGED <<rcvVars, rd>>
       [] ~closed /\ ~Fits(f) ->
            /\ rejected' = TRUE /\ ended' = TRUE
            /\ UNCHANGED <<rcvWindow, items, abandoned, closed, cancelled, accepted, rd>>
       [] ~closed /\ Fits(f) ->
            /\ rcvWindow' = Sub32(rcvWindow, charge(f))
            /\ accepted' = accepted + charge(f)
            /\ Enqueue(f)
            /\ WakeReader
            /\ UNCHANGED <<abandoned, ended, closed, cancelled, rejected>>
  /\ UNCHANGED <<sndVars, ctlVars, updVars, acks, sent, sendUpdate, windowUpdate, msgLen, buf, readErr,
                 delivered, consumed, credited>>

\* The end of the stream arrives behind the data: halfClose or finishStream
\* sets the stream's error before it closes the receiver.
EndStream ==
  /\ ~broken
  /\ endSent /\ frames = <<>> /\ ~ended
  /\ ended' = TRUE
  /\ UNCHANGED <<rcvWindow, items, abandoned, closed, cancelled, rejected, accepted,
                 sndVars, ctlVars, updVars, readVars, frames, acks, sent>>

\* The receiving end finishes the stream while data may still come: the
\* server's handler returns, or the client's context is done.
Abandon ==
  /\ "abandon" \in Faults
  /\ ~ended
  /\ ended' = TRUE
  /\ abandoned' = TRUE
  /\ UNCHANGED <<rcvWindow, items, closed, cancelled, rejected, accepted,
                 sndVars, ctlVars, updVars, readVars, frames, acks, sent>>

close ==
  /\ Closing
  /\ closed' = TRUE
  /\ WakeReader
  /\ UNCHANGED <<rcvWindow, items, abandoned, ended, cancelled, rejected, accepted, sndVars, ctlVars, updVars,
                 frames, acks, sent, sendUpdate, windowUpdate, msgLen, buf, readErr,
                 delivered, consumed, credited>>

\* The stream's context at the receiving end is done: serveStream's goroutine
\* cancels the receiver, or (client) cancelStream does after finishing.
cancel ==
  /\ "cancel" \in Faults
  /\ ~cancelled
  /\ cancelled' = TRUE
  /\ WakeReader
  /\ items' = <<>>
  /\ UNCHANGED <<rcvWindow, abandoned, ended, closed, rejected, accepted, sndVars, ctlVars, updVars,
                 frames, acks, sent, sendUpdate, windowUpdate, msgLen, buf, readErr,
                 delivered, consumed, credited>>

\* Mutant: updates are saved up however small the window has become.
doSend_SavesUp(newWindowUpdate) == newWindowUpdate >= minUpdateSize

\* Whether to acknowledge now, given what is unacknowledged.
doSend(newWindowUpdate) ==
  \/ newWindowUpdate >= minUpdateSize
  \/ msgOverhead > 0 /\ newWindowUpdate > 0 /\ rcvWindow <= msgOverhead

\* Mutant: the update is sent, but the receiver's own window is not restored.
TakeItem_Uncredited(f) ==
  LET newWindowUpdate == Add32(windowUpdate, charge(f)) IN
  /\ items' = Tail(items)
  /\ consumed' = consumed + charge(f)
  /\ UNCHANGED rcvWindow
  /\ credited' = IF doSend(newWindowUpdate) THEN credited + newWindowUpdate ELSE credited
  /\ sendUpdate' = IF doSend(newWindowUpdate) THEN newWindowUpdate ELSE sendUpdate
  /\ windowUpdate' = IF doSend(newWindowUpdate) THEN 0 ELSE newWindowUpdate

\* dequeue takes the first item and accounts for it.
TakeItem(f) ==
  LET newWindowUpdate == Add32(windowUpdate, charge(f)) IN
  /\ items' = Tail(items)
  /\ consumed' = consumed + charge(f)
  /\ IF doSend(newWindowUpdate)
       THEN /\ rcvWindow' = Add32(rcvWindow, newWindowUpdate)
            /\ credited' = credited + newWindowUpdate
            /\ sendUpdate' = newWindowUpdate
            /\ windowUpdate' = 0
       ELSE /\ windowUpdate' = newWindowUpdate
            /\ UNCHANGED <<rcvWindow, credited, sendUpdate>>

\* b with the data of one more frame, which must continue the same message.
Extend(f) ==
  IF msgLen = NoMessage
    THEN [id |-> IF f.lo = 0 THEN f.id ELSE 0, len |-> f.len]
    ELSE [id |-> IF f.id = buf.id /\ f.lo = buf.len THEN f.id ELSE 0, len |-> buf.len + f.len]

\* Mutant: the size of the chunk is taken for that of the message.
Expect_ChunkOnly(f) == IF f.first THEN f.len ELSE msgLen

\* The length readMsgLocked expects once it has seen this frame.
Expect(f) == IF f.first THEN f.size ELSE msgLen

\* An envelope inside a message, data without an envelope, or too much data.
Malformed(f) == (f.first <=> (msgLen # NoMessage)) \/ Extend(f).len > Expect(f)

\* One turn of the loop of readMsgLocked with the item from dequeue.
ReadItem(f) ==
  /\ readErr' = Malformed(f)
  /\ IF Malformed(f) \/ Extend(f).len = Expect(f)
       THEN msgLen' = NoMessage /\ buf' = Empty
       ELSE msgLen' = Expect(f) /\ buf' = Extend(f)
  /\ delivered' = IF ~Malformed(f) /\ Extend(f).len = Expect(f)
                    THEN Append(delivered, Extend(f)) ELSE delivered

dequeue ==
  /\ rd \in {"ready", "woken"}
  /\ IF ~cancelled /\ items # <<>>
       THEN /\ TakeItem(Head(items))
            /\ ReadItem(Head(items))
            /\ rd' = IF doSend(Add32(windowUpdate, charge(Head(items)))) THEN "update"
                     ELSE IF Malformed(Head(items)) THEN "failed" ELSE "ready"
       ELSE /\ rd' = IF cancelled \/ closed THEN "done" ELSE "wait"
            /\ UNCHANGED <<rcvWindow, items, sendUpdate, windowUpdate, msgLen, buf,
                           readErr, delivered, consumed, credited>>
  /\ UNCHANGED <<abandoned, ended, closed, cancelled, rejected, accepted, sndVars, ctlVars, updVars, frames, acks, sent>>

\* The deferred call of updateWindow, once the receiver's mutex is released:
\* nothing is sent when the stream is known to bring no more data.
SendAck ==
  /\ rd = "update"
  /\ acks' = IF ended \/ broken THEN acks
             ELSE Append(acks, [add |-> sendUpdate, from |-> credited - sendUpdate, to |-> credited])
  /\ sendUpdate' = 0
  /\ rd' = IF readErr THEN "failed" ELSE "ready"
  /\ UNCHANGED <<windowUpdate, msgLen, buf, readErr, delivered, consumed, credited,
                 rcvVars, sndVars, ctlVars, updVars, frames, sent>>

\* RecvMsg finishes the stream after a malformed message, if nobody has yet:
\* cancelStream.  (The server's finishStream cancels the stream's context, and
\* with it the receiver.)
FailRead ==
  /\ rd = "failed"
  /\ rd' = "done"
  /\ ended' = TRUE
  /\ closed' = TRUE
  /\ cancelled' = (cancelled \/ ~ended)
  /\ items' = IF ended THEN items ELSE <<>>
  /\ UNCHANGED <<rcvWindow, abandoned, rejected, accepted, sendUpdate, windowUpdate, msgLen, buf, readErr,
                 delivered, consumed, credited, sndVars, ctlVars, updVars, frames, acks, sent>>
-----------------------------------------------------------------------------
SenderStep(t) ==
  LoadWindow(t) \/ WakeSender(t) \/ AbortSend(t) \/ ReserveChunk(t) \/ WriteChunk(t)

Next ==
  \/ \E t \in Threads, n \in Sizes : send(t, n)
  \/ \E t \in Threads : SenderStep(t)
  \/ CloseSend \/ CancelContext \/ BreakTunnel
  \/ AddWindow \/ SignalSender
  \/ accept \/ EndStream \/ Abandon \/ close \/ cancel
  \/ dequeue \/ SendAck \/ FailRead

Spec == Init /\ [][Next]_vars

(***************************************************************************)
(* Fairness: the goroutines of the library run, the tunnel delivers, and   *)
(* the application keeps calling RecvMsg.  Nothing makes the application   *)
(* send or close, and no failure has to happen.                            *)
(***************************************************************************)
Fairness ==
  /\ \A t \in Threads : WF_vars(SenderStep(t))
  /\ WF_vars(AddWindow) /\ WF_vars(SignalSender)
  /\ WF_vars(accept) /\ WF_vars(EndStream) /\ WF_vars(close)
  /\ WF_vars(dequeue) /\ WF_vars(SendAck) /\ WF_vars(FailRead)

FairSpec == Spec /\ Fairness
-----------------------------------------------------------------------------
(***************************************************************************)
(* Safety.                                                                 *)
(***************************************************************************)
\* A sender that follows its own window never makes accept fail with
\* errFlowControlWindowExceeded: whatever has been acknowledged, is in flight
\* or waits in the queue, the next frame fits the receiver's window.
NeverRejected ==
  /\ ~rejected
  /\ frames # <<>> /\ ~closed /\ ~broken => charge(Head(frames)) <= rcvWindow

\* A sender that waits for window although there is enough for it has a token
\* in windowUpdates, or updateWindow is about to put it there.
NoLostWakeup ==
  \A t \in Threads :
    pc[t] = "wait" /\ sndWindow >= needed(t) =>
      windowUpdates \/ (prevWindow # NoUpdate /\ prevWindow <= msgOverhead)

\* Nothing is on its way and nobody works, so nothing more would happen
\* unless the sender itself can go on.
Quiescent ==
  /\ frames = <<>> /\ acks = <<>> /\ items = <<>>
  /\ rd = "wait" /\ prevWindow = NoUpdate
  /\ ~ended /\ ~cancelled /\ ~broken

\* dequeue never withholds so much of the window that sender and receiver
\* wait for each other, however small the updates it is allowed to save up.
NoStall ==
  \A t \in Threads : pc[t] = "wait" /\ Quiescent => windowUpdates /\ sndWindow >= needed(t)

\* The reader sleeps in cond.Wait only while there is nothing for it to do:
\* accept, close and cancel signal although they do so only when the queue is
\* empty.
ReaderAwake == rd = "wait" => items = <<>> /\ ~closed /\ ~cancelled

\* Since revision two an empty message is charged as well, so the window also
\* bounds the number of frames that are in flight or queued.
FramesBounded == Revision >= 2 => Len(frames) + Len(items) <= Window

\* Messages come out whole, unmixed and in the order in which they were sent.
\* Only after send has given up on one (its context is done, or the tunnel
\* failed) may messages be missing or cut short; then RecvMsg reports it.
DeliveredInOrder ==
  /\ \A i \in 1 .. Len(delivered) :
       /\ delivered[i].id \in 1 .. Len(sent)
       /\ delivered[i].len = sent[delivered[i].id]
       /\ i > 1 => delivered[i - 1].id < delivered[i].id
  /\ ~ctxDone /\ ~broken =>
       ~readErr /\ \A i \in 1 .. Len(delivered) : delivered[i].id = i

(***************************************************************************)
(* Liveness.                                                               *)
(***************************************************************************)
\* One of the failures that may end the stream early has happened.
Failed == ctxDone \/ broken \/ cancelled \/ abandoned

\* Every send returns, unless the receiving end gave the stream up (then the
\* sender's context will be cancelled, which is another module's matter).
SendReturns ==
  \A t \in Threads : pc[t] # "idle" ~> pc[t] = "idle" \/ (Failed /\ ~ctxDone)

\* The stream the application sees: see MessageStream.
Stream == INSTANCE MessageStream WITH
  got <- delivered,
  failed <- Failed

StreamSpec == Stream!Spec
=============================================================================
