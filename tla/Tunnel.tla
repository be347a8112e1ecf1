------------------------------- MODULE Tunnel -------------------------------
(***************************************************************************)
(* The life of the streams (RPCs) that share one tunnel: how they are      *)
(* created, finished, cancelled and timed out at both ends, and how the    *)
(* tunnel itself closes or fails (tunnel_client.go, tunnel_server.go).     *)
(*                                                                         *)
(* The tunnel is a forward or a reverse one; they differ in how they end.  *)
(* A tunnel is one gRPC stream, that is two reliable FIFO channels of      *)
(* limited capacity on which Send blocks.  At each end one goroutine, the  *)
(* receive loop, reads frames and dispatches them to streams; many others  *)
(* send.  Flow control and the chunks of a message are the matter of       *)
(* FlowControl: here a message is one frame.  Requests are small enough    *)
(* never to wait for window (nor to be acknowledged); a response takes one *)
(* unit of a window of RespWindow, acknowledged when it is read.           *)
(***************************************************************************)
EXTENDS Integers, Sequences, FiniteSets

CONSTANTS
  MaxStreams,     \* bound: streams the client creates, in any scenario
  Cap,            \* frames the transport buffers in each direction
  RespWindow,     \* flow control window for responses, in messages
  Scenarios       \* what Init may choose from

(***************************************************************************)
(* A scenario.  dir: the direction of the tunnel; streams, req, resp:      *)
(* bounds on the streams the client creates and on the request and         *)
(* response messages of one; client, server: which sides stream, in the    *)
(* StreamDesc the client calls with and in the one the server has          *)
(* registered; faults: which of the failures below can happen.             *)
(***************************************************************************)
Scenario ==
  [dir : {"forward", "reverse"}, streams : 0 .. MaxStreams, req : Nat, resp : Nat,
   client : SUBSET {"client", "server"}, server : SUBSET {"client", "server"},
   faults : SUBSET {"cancel", "timeout", "close", "break", "reject", "creds", "error", "stop"}]

ASSUME TunnelAssumption ==
  /\ MaxStreams \in Nat
  /\ Cap \in Nat \ {0} /\ RespWindow \in Nat \ {0}
  /\ \A x \in Scenarios : x \in Scenario

Ids == 1 .. MaxStreams
Nil == "nil"                        \* no error
Errors == {Nil, "EOF", "status", "canceled", "multiple"}

VARIABLES
  scn,            \* the scenario
  lastStreamID,   \* tunnelChannel.lastStreamID
  streams,        \* tunnelChannel.streams
  finished,       \* tunnelChannel.finished
  closer,         \* where Close ("user") and the receive loop ("loop") are in close
  cli,            \* the tunnelClientStream of each ID, and its creation
  svrStreams,     \* tunnelServer.streams
  lastSeen,       \* tunnelServer.lastSeen
  isClosing,      \* what tunnelServer.isClosing returns
  srv,            \* the tunnelServerStream of each ID
  c2s, s2c,       \* the tunnel: frames from client to server and back
  sendClosed,     \* the client's half of the tunnel has ended
  stopped,        \* the server's half has: Stop of a reverse tunnel server
  ended,          \* serve has returned
  broken,         \* the tunnel has failed
  protoErr        \* an end has met a "protocol error" that ends the tunnel

vars == <<scn, lastStreamID, streams, finished, closer, cli, svrStreams, lastSeen, isClosing, srv,
          c2s, s2c, sendClosed, stopped, ended, broken, protoErr>>
clientVars == <<lastStreamID, streams, finished, closer, cli>>
serverVars == <<svrStreams, lastSeen, isClosing, srv>>
netVars == <<sendClosed, stopped, ended, broken, protoErr>>

Reverse == scn.dir = "reverse"

(***************************************************************************)
(* A client stream.  new: has newStream returned it; ctx: its context is   *)
(* done; watch: the goroutine that waits for that; done: st.done; fin, by: *)
(* how far finishStream is and who runs it; headers, trailers: what the    *)
(* stream knows of them; doneSignal; items, closed, cancelled: receiver;   *)
(* rd, n, err: where RecvMsg is, how many messages it has, readErr; got:   *)
(* messages RecvMsg returned; half, sent: halfClosed, numSent; cancel: the *)
(* goroutine that sends the cancel frame.                                  *)
(***************************************************************************)
ClientStream ==
  [new : {"none", "alloc", "open", "failed"}, ctx : BOOLEAN, watch : BOOLEAN,
   done : Errors,
   fin : {"no", "remove", "meta", "close", "ctx", "cancel", "end"}, by : {"none", "loop", "watch", "reader"},
   headers : {"no", "none", "some"}, trailers : BOOLEAN, doneSignal : BOOLEAN,
   items : Nat, closed : BOOLEAN, cancelled : BOOLEAN,
   rd : {"ready", "update", "second", "update2", "failed"}, err : Errors,
   got : Nat, half : BOOLEAN, sent : Nat, cancel : {"no", "pending", "sent"}]

NewClientStream ==
  [new |-> "none", ctx |-> FALSE, watch |-> FALSE, done |-> Nil, fin |-> "no", by |-> "none",
   headers |-> "no", trailers |-> FALSE, doneSignal |-> FALSE, items |-> 0, closed |-> FALSE,
   cancelled |-> FALSE, rd |-> "ready", err |-> Nil, got |-> 0, half |-> FALSE, sent |-> 0, cancel |-> "no"]

(***************************************************************************)
(* A server stream.  ctx; half: st.halfClosed; items, closed, cancelled:   *)
(* receiver; h: where the handler is; second, err: whether readMsg looks   *)
(* for a second message, readErr; took, got: messages taken from the queue *)
(* and returned by RecvMsg; locked: the handler holds writeMu; credit: the *)
(* sender's window; sentHeaders, finished: st.closed; numSent; wrote:      *)
(* responses written; fin: how far the receive loop and the handler are in *)
(* finishStream (or halfClose, when lock is FALSE); close, stat: the       *)
(* goroutine that sends headers and the close frame, and its status.       *)
(***************************************************************************)
Finish == [pc : {"no", "cancel", "remove", "half", "close", "lock"},
           err : Errors, lock : BOOLEAN]
NoFinish == [pc |-> "no", err |-> Nil, lock |-> FALSE]
Actors == {"loop", "handler"}

ServerStream ==
  [ctx : BOOLEAN, half : Errors,
   items : Nat, closed : BOOLEAN, cancelled : BOOLEAN,
   h : {"none", "run", "dequeue", "headers", "window", "write", "failed", "returned", "gone"},
   second : BOOLEAN, err : Errors, took : Nat, got : Nat,
   locked : BOOLEAN, credit : Nat, sentHeaders : BOOLEAN, finished : BOOLEAN, numSent : Nat, wrote : Nat,
   fin : [Actors -> Finish], close : {"no", "headers", "close", "sent"}, stat : {Nil, "status"}]

NewServerStream ==
  [ctx |-> FALSE, half |-> Nil, items |-> 0, closed |-> FALSE, cancelled |-> FALSE, h |-> "none",
   second |-> FALSE, err |-> Nil, took |-> 0, got |-> 0, locked |-> FALSE, credit |-> RespWindow,
   sentHeaders |-> FALSE, finished |-> FALSE, numSent |-> 0, wrote |-> 0,
   fin |-> [w \in Actors |-> NoFinish], close |-> "no", stat |-> Nil]

ClientFrame == [kind : {"new", "msg", "half", "cancel", "update"}, id : Ids]
ServerFrame == [kind : {"headers", "msg", "close"}, id : Ids, stat : {Nil, "status"}]

TypeOK ==
  /\ scn \in Scenarios
  /\ lastStreamID \in 0 .. MaxStreams /\ lastSeen \in -1 .. MaxStreams
  /\ streams \subseteq Ids /\ svrStreams \subseteq Ids
  /\ closer \in [{"user", "loop"} -> {"no", "teardown", "section", "end"}]
  /\ cli \in [Ids -> ClientStream]
  /\ srv \in [Ids -> ServerStream]
  /\ c2s \in Seq(ClientFrame) /\ s2c \in Seq(ServerFrame)
  /\ {finished, isClosing, sendClosed, stopped, ended, broken, protoErr} \subseteq BOOLEAN

Init ==
  /\ scn \in Scenarios
  /\ lastStreamID = 0 /\ streams = {} /\ finished = FALSE
  /\ closer = [w \in {"user", "loop"} |-> "no"]
  /\ cli = [s \in Ids |-> NewClientStream]
  /\ svrStreams = {} /\ lastSeen = -1 /\ isClosing = FALSE
  /\ srv = [s \in Ids |-> NewServerStream]
  /\ c2s = <<>> /\ s2c = <<>>
  /\ sendClosed = FALSE /\ stopped = FALSE /\ ended = FALSE /\ broken = FALSE /\ protoErr = FALSE
-----------------------------------------------------------------------------
(***************************************************************************)
(* The transport.  Send blocks while the buffer is full and fails once the *)
(* stream has ended; a stream that has broken loses what is in flight.     *)
(* The wrapper of a reverse server's stream drops what is sent after Stop  *)
(* has half-closed it.                                                     *)
(***************************************************************************)
ClientSendFails == broken \/ ended \/ sendClosed
ServerSendFails == broken \/ ended \/ stopped

SendToServer(kind, s) ==
  /\ ClientSendFails \/ Len(c2s) < Cap
  /\ c2s' = IF ClientSendFails THEN c2s ELSE Append(c2s, [kind |-> kind, id |-> s])

SendToClient(kind, s, stat) ==
  /\ ServerSendFails \/ Len(s2c) < Cap
  /\ s2c' = IF ServerSendFails THEN s2c ELSE Append(s2c, [kind |-> kind, id |-> s, stat |-> stat])

\* The network fails.  The contexts of all server streams derive from that of
\* the tunnel; those of client streams do not.
Break ==
  /\ "break" \in scn.faults
  /\ ~broken /\ ~ended
  /\ broken' = TRUE
  /\ c2s' = <<>> /\ s2c' = <<>>
  /\ srv' = [s \in Ids |-> [srv[s] EXCEPT !.ctx = @ \/ srv[s].h # "none"]]
  /\ UNCHANGED <<scn, clientVars, svrStreams, lastSeen, isClosing, sendClosed, stopped, ended, protoErr>>
-----------------------------------------------------------------------------
(***************************************************************************)
(* Client: creating streams.                                               *)
(***************************************************************************)
CreationUnlocked_Always == TRUE     \* mutant: newStream does not take streamCreation

\* Nobody holds streamCreation.
CreationUnlocked == \A s \in Ids : cli[s].new # "alloc"

\* newStream locks streamCreation; allocateStream runs under c.mu.  Preparing
\* the stream may fail (per-RPC credentials) when its ID is already taken.
allocateStream(ok) ==
  /\ CreationUnlocked
  /\ ~finished
  /\ lastStreamID < scn.streams
  /\ ok \/ "creds" \in scn.faults
  /\ lastStreamID' = lastStreamID + 1
  /\ cli' = [cli EXCEPT ![lastStreamID + 1].new = IF ok THEN "alloc" ELSE "failed"]
  /\ streams' = IF ok THEN streams \cup {lastStreamID + 1} ELSE streams
  /\ UNCHANGED <<scn, finished, closer, serverVars, netVars, c2s, s2c>>

\* newStream sends the frame that creates the stream, then starts the
\* goroutine that waits for its context; or it removes the stream again.
SendNewStream(s) ==
  /\ cli[s].new = "alloc"
  /\ SendToServer("new", s)
  /\ cli' = [cli EXCEPT ![s] = [cli[s] EXCEPT !.new = IF ClientSendFails THEN "failed" ELSE "open",
                                              !.watch = ~ClientSendFails]]
  /\ streams' = IF ClientSendFails THEN streams \ {s} ELSE streams
  /\ UNCHANGED <<scn, lastStreamID, finished, closer, serverVars, netVars, s2c>>

\* The application cancels the context of an RPC, or its deadline passes.
CancelContext(s) ==
  /\ "cancel" \in scn.faults
  /\ cli[s].new \in {"alloc", "open"} /\ ~cli[s].ctx
  /\ cli' = [cli EXCEPT ![s].ctx = TRUE]
  /\ UNCHANGED <<scn, lastStreamID, streams, finished, closer, serverVars, netVars, c2s, s2c>>

(***************************************************************************)
(* Client: finishing a stream.  The first caller to set done runs the rest *)
(* of finishStream; cancelStream then cancels the receiver and tells the   *)
(* server.                                                                 *)
(***************************************************************************)
\* The stream once who has called finishStream with the given error.
finishStream(s, who, err) ==
  IF cli[s].done # Nil THEN cli[s]
  ELSE [cli[s] EXCEPT !.done = err, !.fin = "remove", !.by = who]

\* c.removeStream
FinishRemove(s) ==
  /\ cli[s].fin = "remove"
  /\ streams' = streams \ {s}
  /\ cli' = [cli EXCEPT ![s].fin = "meta"]
  /\ UNCHANGED <<scn, lastStreamID, finished, closer, serverVars, netVars, c2s, s2c>>

\* The section under metaMu.  Only a close frame, which the receive loop
\* handles, brings trailers.
FinishMeta(s) ==
  /\ cli[s].fin = "meta"
  /\ cli' = [cli EXCEPT ![s] = [cli[s] EXCEPT !.fin = "close", !.doneSignal = TRUE,
                                              !.trailers = (cli[s].by = "loop"),
                                              !.headers = IF @ = "no" THEN "none" ELSE @]]
  /\ UNCHANGED <<scn, lastStreamID, streams, finished, closer, serverVars, netVars, c2s, s2c>>

\* Mutant: the receiver is closed before the trailers are published.
FinishClose_Early(s) ==
  /\ cli[s].fin = "remove"
  /\ cli' = [cli EXCEPT ![s] = [cli[s] EXCEPT !.fin = "meta", !.closed = TRUE]]
  /\ UNCHANGED <<scn, lastStreamID, streams, finished, closer, serverVars, netVars, c2s, s2c>>

\* The deferred receiver.close.
FinishClose(s) ==
  /\ cli[s].fin = "close"
  /\ cli' = [cli EXCEPT ![s] = [cli[s] EXCEPT !.fin = "ctx", !.closed = TRUE]]
  /\ UNCHANGED <<scn, lastStreamID, streams, finished, closer, serverVars, netVars, c2s, s2c>>

\* The deferred cancellation of the stream's context.
FinishContext(s) ==
  /\ cli[s].fin = "ctx"
  /\ cli' = [cli EXCEPT ![s] =
       [cli[s] EXCEPT !.fin = IF cli[s].by = "loop" THEN "end" ELSE "cancel", !.ctx = TRUE]]
  /\ UNCHANGED <<scn, lastStreamID, streams, finished, closer, serverVars, netVars, c2s, s2c>>

\* Mutant: the server is not told.
FinishCancel_Silent(s) ==
  /\ cli[s].fin = "cancel"
  /\ cli' = [cli EXCEPT ![s] = [cli[s] EXCEPT !.fin = "end", !.cancelled = TRUE, !.items = 0]]
  /\ UNCHANGED <<scn, lastStreamID, streams, finished, closer, serverVars, netVars, c2s, s2c>>

\* cancelStream, after finishStream: receiver.cancel, and a goroutine that
\* sends the cancel frame.
FinishCancel(s) ==
  /\ cli[s].fin = "cancel"
  /\ cli' = [cli EXCEPT ![s] =
       [cli[s] EXCEPT !.fin = "end", !.cancelled = TRUE, !.items = 0, !.cancel = "pending"]]
  /\ UNCHANGED <<scn, lastStreamID, streams, finished, closer, serverVars, netVars, c2s, s2c>>

SendCancel(s) ==
  /\ cli[s].cancel = "pending"
  /\ SendToServer("cancel", s)
  /\ cli' = [cli EXCEPT ![s].cancel = "sent"]
  /\ UNCHANGED <<scn, lastStreamID, streams, finished, closer, serverVars, netVars, s2c>>

\* Mutant: the receiver is cancelled although the stream has finished.
Watch_AlwaysCancels(s) ==
  /\ cli[s].watch /\ cli[s].ctx
  /\ cli' = [cli EXCEPT ![s] = [finishStream(s, "watch", "canceled") EXCEPT
                                  !.watch = FALSE,
                                  !.cancelled = @ \/ cli[s].fin = "end",
                                  !.items = IF cli[s].fin = "end" THEN 0 ELSE @]]
  /\ UNCHANGED <<scn, lastStreamID, streams, finished, closer, serverVars, netVars, c2s, s2c>>

\* The goroutine that newStream started: once the context is done it calls
\* cancelStream, which does nothing if the stream has finished.
Watch(s) ==
  /\ cli[s].watch /\ cli[s].ctx
  /\ cli' = [cli EXCEPT ![s] = [finishStream(s, "watch", "canceled") EXCEPT !.watch = FALSE]]
  /\ UNCHANGED <<scn, lastStreamID, streams, finished, closer, serverVars, netVars, c2s, s2c>>
-----------------------------------------------------------------------------
(***************************************************************************)
(* Client: the application's calls on a stream.                            *)
(***************************************************************************)
\* The application sends only until it half-closes the stream.
ClientSendMsg(s) ==
  /\ cli[s].new = "open" /\ ~cli[s].half
  /\ cli[s].sent < IF "client" \in scn.client THEN scn.req ELSE 1
  /\ SendToServer("msg", s)
  /\ cli' = [cli EXCEPT ![s].sent = @ + 1]
  /\ UNCHANGED <<scn, lastStreamID, streams, finished, closer, serverVars, netVars, s2c>>

CloseSend(s) ==
  /\ cli[s].new = "open" /\ ~cli[s].half
  /\ ~cli[s].doneSignal
  /\ SendToServer("half", s)
  /\ cli' = [cli EXCEPT ![s].half = TRUE]
  /\ UNCHANGED <<scn, lastStreamID, streams, finished, closer, serverVars, netVars, s2c>>

\* RecvMsg takes a message from the queue, or learns of the end.  A method
\* that is not server-streaming then looks for a second message, whose
\* presence is an error that cancels the stream.
ClientRecvMsg(s) ==
  /\ cli[s].new = "open" /\ cli[s].err = Nil
  /\ cli[s].rd \in {"ready", "second"}
  /\ \/ /\ ~cli[s].cancelled /\ cli[s].items > 0
        /\ cli' = [cli EXCEPT ![s] =
             [cli[s] EXCEPT !.items = @ - 1, !.rd = IF @ = "ready" THEN "update" ELSE "update2"]]
     \/ /\ cli[s].cancelled \/ (cli[s].items = 0 /\ cli[s].closed)
        /\ cli' = [cli EXCEPT ![s] =
             [cli[s] EXCEPT !.err = cli[s].done, !.rd = "ready",
                            !.got = IF cli[s].rd = "second" /\ cli[s].done = "EOF" THEN @ + 1 ELSE @]]
  /\ UNCHANGED <<scn, lastStreamID, streams, finished, closer, serverVars, netVars, c2s, s2c>>

\* The window update of dequeue, sent unless the stream is done.
ClientAck(s) ==
  /\ cli[s].rd \in {"update", "update2"}
  /\ IF cli[s].done = Nil THEN SendToServer("update", s) ELSE UNCHANGED c2s
  /\ cli' = [cli EXCEPT ![s] =
       [cli[s] EXCEPT !.rd = CASE @ = "update" /\ "server" \in scn.client -> "ready"
                               [] @ = "update" /\ "server" \notin scn.client -> "second"
                               [] @ = "update2" -> "failed",
                      !.got = IF cli[s].rd = "update" /\ "server" \in scn.client THEN @ + 1 ELSE @]]
  /\ UNCHANGED <<scn, lastStreamID, streams, finished, closer, serverVars, netVars, s2c>>

\* RecvMsg cancels the stream because of a second response.
ClientReadFails(s) ==
  /\ cli[s].rd = "failed"
  /\ cli' = [cli EXCEPT ![s] = [finishStream(s, "reader", "multiple") EXCEPT
                                  !.rd = "ready", !.err = "multiple"]]
  /\ UNCHANGED <<scn, lastStreamID, streams, finished, closer, serverVars, netVars, c2s, s2c>>
-----------------------------------------------------------------------------
(***************************************************************************)
(* Client: the channel, its receive loop and close.                        *)
(***************************************************************************)
\* Mutant: the loop waits until a message has been read.
ClientLoopFree_Blocks ==
  /\ closer["loop"] = "no"
  /\ \A s \in Ids : (cli[s].by = "loop" => cli[s].fin = "end") /\ cli[s].items = 0

\* The receive loop runs, and is not inside finishStream.
ClientLoopFree ==
  /\ closer["loop"] = "no"
  /\ \A s \in Ids : cli[s].by = "loop" => cli[s].fin = "end"

\* What acceptServerFrame does to the stream.
acceptServerFrame(f) ==
  LET st == cli[f.id] IN
  CASE f.kind = "headers" -> [st EXCEPT !.headers = IF @ = "no" THEN "some" ELSE @]
    [] f.kind = "close" -> finishStream(f.id, "loop", IF f.stat = Nil THEN "EOF" ELSE "status")
    [] f.kind = "msg" -> [st EXCEPT !.items = IF st.closed THEN @ ELSE @ + 1]

\* One turn of recvLoop: frames for a stream that is gone are dropped, those
\* for one that never was end the tunnel.
ClientRecv ==
  /\ ClientLoopFree
  /\ s2c # <<>>
  /\ s2c' = Tail(s2c)
  /\ LET f == Head(s2c) IN
     /\ cli' = IF f.id \in streams THEN [cli EXCEPT ![f.id] = acceptServerFrame(f)] ELSE cli
     /\ protoErr' = (protoErr \/ f.id > lastStreamID)
     /\ closer' = IF f.id > lastStreamID THEN [closer EXCEPT !["loop"] = "teardown"] ELSE closer
  /\ UNCHANGED <<scn, lastStreamID, streams, finished, serverVars, sendClosed, stopped, ended, broken, c2s>>

\* Recv fails: the tunnel is broken, or the server has ended it.  (A reverse
\* server that is through with a tunnel cancels it.)
ClientRecvEnd ==
  /\ ClientLoopFree
  /\ broken \/ ((ended \/ stopped) /\ s2c = <<>>) \/ (ended /\ Reverse)
  /\ closer' = [closer EXCEPT !["loop"] = "teardown"]
  /\ UNCHANGED <<scn, lastStreamID, streams, finished, cli, serverVars, netVars, c2s, s2c>>

\* The application calls Close.
Close ==
  /\ "close" \in scn.faults
  /\ closer["user"] = "no"
  /\ closer' = [closer EXCEPT !["user"] = "teardown"]
  /\ UNCHANGED <<scn, lastStreamID, streams, finished, cli, serverVars, netVars, c2s, s2c>>

\* close begins with tearDown, which half-closes the tunnel's own stream; that
\* of a reverse tunnel only takes it off the lists (see ReverseChannels).
CloseTearDown(w) ==
  /\ closer[w] = "teardown"
  /\ closer' = [closer EXCEPT ![w] = "section"]
  /\ sendClosed' = (sendClosed \/ ~Reverse)
  /\ UNCHANGED <<scn, lastStreamID, streams, finished, cli, serverVars, stopped, ended, broken, protoErr, c2s, s2c>>

\* Mutant: the streams are dropped but not cancelled.
CloseSection_Forgets(w) ==
  /\ closer[w] = "section"
  /\ closer' = [closer EXCEPT ![w] = "end"]
  /\ finished' = TRUE
  /\ streams' = {}
  /\ UNCHANGED <<scn, lastStreamID, cli, serverVars, netVars, c2s, s2c>>

\* The rest of close, under c.mu: cancel the context of every stream.
CloseSection(w) ==
  /\ closer[w] = "section"
  /\ closer' = [closer EXCEPT ![w] = "end"]
  /\ finished' = TRUE
  /\ streams' = {}
  /\ cli' = [s \in Ids |-> [cli[s] EXCEPT !.ctx = @ \/ (~finished /\ s \in streams)]]
  /\ UNCHANGED <<scn, lastStreamID, serverVars, netVars, c2s, s2c>>

\* Mutant: openReverseTunnel waits until its stream ends.
HangUp_StreamEnd ==
  /\ Reverse /\ ended /\ ~sendClosed
  /\ sendClosed' = TRUE
  /\ UNCHANGED <<scn, clientVars, serverVars, stopped, ended, broken, protoErr, c2s, s2c>>

\* A reverse tunnel ends when openReverseTunnel returns, once its channel is
\* closed.
HangUp ==
  /\ Reverse /\ finished /\ ~sendClosed
  /\ sendClosed' = TRUE
  /\ UNCHANGED <<scn, clientVars, serverVars, stopped, ended, broken, protoErr, c2s, s2c>>
-----------------------------------------------------------------------------
(***************************************************************************)
(* Server: the receive loop.                                               *)
(***************************************************************************)
\* serve runs, and is not inside halfClose or finishStream.
ServerLoopFree == ~ended /\ \A s \in Ids : srv[s].fin["loop"].pc = "no"

\* Mutant: the ID of a stream that is rejected is not recorded.
Seen_Accepted(id, accepted) == IF accepted THEN id ELSE lastSeen
Seen_Next(id, accepted) == id + 1   \* mutant: off by one
\* lastSeen is set before any check that rejects only this stream.
Seen(id, accepted) == id

\* createStream registers the stream and starts its handler, or rejects it
\* (the server is closing, the method is unknown), which a goroutine reports.
createStream(id, accepted) ==
  /\ accepted => ~isClosing
  /\ ~accepted => isClosing \/ "reject" \in scn.faults
  /\ lastSeen' = Seen(id, accepted)
  /\ svrStreams' = IF accepted THEN svrStreams \cup {id} ELSE svrStreams
  /\ srv' = IF accepted THEN [srv EXCEPT ![id] = [srv[id] EXCEPT !.h = "run", !.ctx = broken]]
            ELSE [srv EXCEPT ![id] = [srv[id] EXCEPT !.close = "close", !.stat = "status"]]

\* What acceptClientFrame does to the stream: halfClose and finishStream go on
\* in the steps below.
acceptClientFrame(f) ==
  LET st == srv[f.id] IN
  CASE f.kind = "half" -> [st EXCEPT !.fin["loop"] = [pc |-> "half", err |-> "EOF", lock |-> FALSE]]
    [] f.kind = "cancel" -> [st EXCEPT !.fin["loop"] = [pc |-> "cancel", err |-> "canceled", lock |-> TRUE]]
    [] f.kind = "update" -> [st EXCEPT !.credit = @ + 1]
    [] f.kind = "msg" -> [st EXCEPT !.items = IF st.closed THEN @ ELSE @ + 1]

\* serve returns: the contexts of all its streams are cancelled.
EndServe ==
  /\ ended' = TRUE
  /\ srv' = [s \in Ids |-> [srv[s] EXCEPT !.ctx = @ \/ srv[s].h # "none"]]

\* One turn of the loop in serve.
ServerRecv ==
  /\ ServerLoopFree
  /\ c2s # <<>>
  /\ c2s' = Tail(c2s)
  /\ LET f == Head(c2s) IN
     \/ /\ f.kind = "new" /\ f.id > lastSeen /\ f.id \notin svrStreams
        /\ \E accepted \in BOOLEAN : createStream(f.id, accepted)
        /\ UNCHANGED <<ended, protoErr>>
     \/ /\ f.kind # "new" /\ (f.id \in svrStreams \/ f.id <= lastSeen)
        /\ srv' = IF f.id \in svrStreams THEN [srv EXCEPT ![f.id] = acceptClientFrame(f)] ELSE srv
        /\ UNCHANGED <<svrStreams, lastSeen, ended, protoErr>>
     \/ /\ IF f.kind = "new" THEN f.id <= lastSeen \/ f.id \in svrStreams
                             ELSE f.id \notin svrStreams /\ f.id > lastSeen
        /\ protoErr' = TRUE
        /\ EndServe
        /\ UNCHANGED <<svrStreams, lastSeen>>
  /\ UNCHANGED <<scn, clientVars, isClosing, sendClosed, stopped, broken, s2c>>

\* Recv fails or reports the end of the client's half of the tunnel.
ServerRecvEnd ==
  /\ ServerLoopFree
  /\ broken \/ (sendClosed /\ c2s = <<>>)
  /\ EndServe
  /\ UNCHANGED <<scn, clientVars, svrStreams, lastSeen, isClosing, sendClosed, stopped, broken, protoErr, c2s, s2c>>

\* InitiateShutdown, or GracefulStop of a reverse tunnel server.
InitiateShutdown ==
  /\ "reject" \in scn.faults
  /\ ~isClosing
  /\ isClosing' = TRUE
  /\ UNCHANGED <<scn, clientVars, svrStreams, lastSeen, srv, netVars, c2s, s2c>>

\* Stop of a reverse tunnel server: no more RPCs, and the half-close that makes
\* the other end hang up.
Stop ==
  /\ "stop" \in scn.faults
  /\ Reverse /\ ~stopped /\ ~ended
  /\ isClosing' = TRUE /\ stopped' = TRUE
  /\ UNCHANGED <<scn, clientVars, svrStreams, lastSeen, srv, sendClosed, ended, broken, protoErr, c2s, s2c>>
-----------------------------------------------------------------------------
(***************************************************************************)
(* Server: finishing a stream.  The receive loop (a cancel frame) and the  *)
(* handler (its end, or a RecvMsg that fails) may do so at the same time.  *)
(***************************************************************************)
At(s, w, pc) == srv[s].fin[w].pc = pc

\* The handler continues after a failed RecvMsg, and is gone after its end.
AfterFinish(st, w) ==
  [st EXCEPT !.fin[w] = NoFinish,
             !.h = CASE w = "handler" /\ st.h = "failed" -> "run"
                     [] w = "handler" /\ st.h = "returned" -> "gone"
                     [] OTHER -> @]

\* Mutant: the stream's context is left alone until the stream is closed.
StopCancel_Late(s, w) ==
  /\ At(s, w, "cancel")
  /\ srv' = [srv EXCEPT ![s].fin[w].pc = "remove"]
  /\ UNCHANGED <<scn, clientVars, svrStreams, lastSeen, isClosing, netVars, c2s, s2c>>

\* st.cancel
StopCancel(s, w) ==
  /\ At(s, w, "cancel")
  /\ srv' = [srv EXCEPT ![s] = [srv[s] EXCEPT !.fin[w].pc = "remove", !.ctx = TRUE]]
  /\ UNCHANGED <<scn, clientVars, svrStreams, lastSeen, isClosing, netVars, c2s, s2c>>

\* st.svr.removeStream
StopRemove(s, w) ==
  /\ At(s, w, "remove")
  /\ svrStreams' = svrStreams \ {s}
  /\ srv' = [srv EXCEPT ![s].fin[w].pc = "half"]
  /\ UNCHANGED <<scn, clientVars, lastSeen, isClosing, netVars, c2s, s2c>>

\* halfClose: the first caller sets halfClosed and goes on to close the receiver.
halfClose(s, w) ==
  /\ At(s, w, "half")
  /\ LET fin == srv[s].fin[w]
         first == srv[s].half = Nil
         err == IF fin.err = Nil THEN "EOF" ELSE fin.err IN
     srv' = [srv EXCEPT ![s] =
       IF first THEN [srv[s] EXCEPT !.half = err, !.fin[w].pc = "close"]
       ELSE IF fin.lock THEN [srv[s] EXCEPT !.fin[w].pc = "lock"] ELSE AfterFinish(srv[s], w)]
  /\ UNCHANGED <<scn, clientVars, svrStreams, lastSeen, isClosing, netVars, c2s, s2c>>

\* receiver.close
StopClose(s, w) ==
  /\ At(s, w, "close")
  /\ LET st == [srv[s] EXCEPT !.closed = TRUE, !.fin[w].pc = "lock"] IN
     srv' = [srv EXCEPT ![s] = IF srv[s].fin[w].lock THEN st ELSE AfterFinish(st, w)]
  /\ UNCHANGED <<scn, clientVars, svrStreams, lastSeen, isClosing, netVars, c2s, s2c>>

\* Mutant: the stream may be closed twice.
AlreadyClosed_Never(s) == FALSE
AlreadyClosed(s) == srv[s].finished

\* The section under writeMu, which starts the goroutine that sends the
\* headers, if they have not been sent, and the close frame.
StopSection(s, w) ==
  /\ At(s, w, "lock")
  /\ ~srv[s].locked
  /\ srv' = [srv EXCEPT ![s] = AfterFinish(
       IF AlreadyClosed(s) THEN srv[s]
       ELSE [srv[s] EXCEPT !.finished = TRUE, !.sentHeaders = TRUE,
                           !.close = IF srv[s].sentHeaders THEN "close" ELSE "headers",
                           !.stat = IF srv[s].fin[w].err = Nil THEN Nil ELSE "status"], w)]
  /\ UNCHANGED <<scn, clientVars, svrStreams, lastSeen, isClosing, netVars, c2s, s2c>>

\* The goroutine started by finishStream, or by serve for a rejected stream.
SendClose(s) ==
  /\ srv[s].close \in {"headers", "close"}
  /\ SendToClient(srv[s].close, s, srv[s].stat)
  /\ srv' = [srv EXCEPT ![s].close = IF @ = "headers" THEN "close" ELSE "sent"]
  /\ UNCHANGED <<scn, clientVars, svrStreams, lastSeen, isClosing, netVars, c2s>>

\* The stream's deadline (its grpc-timeout) passes.
Timeout(s) ==
  /\ "timeout" \in scn.faults
  /\ srv[s].h # "none" /\ ~srv[s].ctx
  /\ srv' = [srv EXCEPT ![s].ctx = TRUE]
  /\ UNCHANGED <<scn, clientVars, svrStreams, lastSeen, isClosing, netVars, c2s, s2c>>

\* The goroutine of serveStream that cancels the receiver with the context.
CancelReceiver(s) ==
  /\ srv[s].ctx /\ ~srv[s].cancelled
  /\ srv' = [srv EXCEPT ![s] = [srv[s] EXCEPT !.cancelled = TRUE, !.items = 0]]
  /\ UNCHANGED <<scn, clientVars, svrStreams, lastSeen, isClosing, netVars, c2s, s2c>>
-----------------------------------------------------------------------------
(***************************************************************************)
(* Server: the handler, a goroutine that receives, sends and returns as it *)
(* likes.                                                                  *)
(***************************************************************************)
HandlerStep(s, st) ==
  /\ srv' = [srv EXCEPT ![s] = st]
  /\ UNCHANGED <<scn, clientVars, svrStreams, lastSeen, isClosing, netVars, c2s>>

\* RecvMsg, up to the check of the context.
RecvMsg(s) ==
  /\ srv[s].h = "run" /\ srv[s].err = Nil
  /\ HandlerStep(s, IF srv[s].ctx THEN [srv[s] EXCEPT !.err = "canceled"]
                    ELSE [srv[s] EXCEPT !.h = "dequeue"])
  /\ UNCHANGED s2c

\* RecvMsg returns an error; one caused by bad input finishes the stream.
ReadFails(st, err, bad) ==
  [st EXCEPT !.err = err, !.second = FALSE, !.h = IF bad THEN "failed" ELSE "run",
             !.fin["handler"] = IF bad THEN [pc |-> "cancel", err |-> err, lock |-> TRUE] ELSE @]

\* readMsgLocked has a message: RecvMsg returns it or, unless the method is
\* client-streaming, calls readMsgLocked again (which checks the context).
HaveMessage(st) ==
  CASE st.second -> ReadFails(st, "multiple", TRUE)
    [] ~st.second /\ "client" \in scn.server -> [st EXCEPT !.h = "run", !.got = @ + 1]
    [] ~st.second /\ "client" \notin scn.server /\ st.ctx -> ReadFails(st, "canceled", FALSE)
    [] ~st.second /\ "client" \notin scn.server /\ ~st.ctx -> [st EXCEPT !.second = TRUE]

\* dequeue returned no item: the error is that of halfClosed, if there is one.
NoItem(st) ==
  CASE st.half = Nil -> HaveMessage(st)
    [] st.half = "EOF" /\ st.second -> [st EXCEPT !.h = "run", !.err = "EOF", !.second = FALSE, !.got = @ + 1]
    [] st.half # Nil /\ ~(st.half = "EOF" /\ st.second) -> ReadFails(st, st.half, FALSE)

\* The rest of RecvMsg, once there is an item, an end or a cancellation.
Dequeue(s) ==
  /\ srv[s].h = "dequeue"
  /\ \/ /\ ~srv[s].cancelled /\ srv[s].items > 0
        /\ HandlerStep(s, HaveMessage([srv[s] EXCEPT !.items = @ - 1, !.took = @ + 1]))
     \/ /\ srv[s].cancelled \/ (srv[s].items = 0 /\ srv[s].closed)
        /\ HandlerStep(s, NoItem(srv[s]))
  /\ UNCHANGED s2c

HeadersDue_Never(s) == FALSE        \* mutant: only finishStream sends headers
HeadersDue(s) == ~srv[s].sentHeaders

\* SendMsg locks writeMu.
SendMsg(s) ==
  /\ srv[s].h = "run" /\ ~srv[s].locked
  /\ srv[s].numSent < IF "server" \in scn.server THEN scn.resp ELSE 1
  /\ HandlerStep(s, [srv[s] EXCEPT !.locked = TRUE,
                                   !.h = IF HeadersDue(s) THEN "headers" ELSE "window",
                                   !.numSent = IF HeadersDue(s) THEN @ ELSE @ + 1])
  /\ UNCHANGED s2c

\* sendHeadersLocked
SendHeaders(s) ==
  /\ srv[s].h = "headers"
  /\ SendToClient("headers", s, Nil)
  /\ HandlerStep(s, [srv[s] EXCEPT !.sentHeaders = TRUE,
                                   !.locked = ~ServerSendFails,
                                   !.h = IF ServerSendFails THEN "run" ELSE "window",
                                   !.numSent = IF ServerSendFails THEN @ ELSE @ + 1])

\* sender.send takes room from the window, or waits for it until the context
\* is done.
TakeWindow(s) ==
  /\ srv[s].h = "window"
  /\ \/ /\ srv[s].credit > 0
        /\ HandlerStep(s, [srv[s] EXCEPT !.credit = @ - 1, !.h = "write"])
     \/ /\ srv[s].credit = 0 /\ srv[s].ctx
        /\ HandlerStep(s, [srv[s] EXCEPT !.h = "run", !.locked = FALSE])
  /\ UNCHANGED s2c

WriteMsg(s) ==
  /\ srv[s].h = "write"
  /\ SendToClient("msg", s, Nil)
  /\ HandlerStep(s, [srv[s] EXCEPT !.h = "run", !.locked = FALSE, !.wrote = @ + 1])

\* The handler returns; serveStream finishes the stream.
Return(s, err) ==
  /\ srv[s].h = "run"
  /\ err = Nil \/ "error" \in scn.faults
  /\ HandlerStep(s, [srv[s] EXCEPT !.h = "returned",
                                   !.fin["handler"] = [pc |-> "cancel", err |-> err, lock |-> TRUE]])
  /\ UNCHANGED s2c
-----------------------------------------------------------------------------
FinishStep(s) ==
  FinishRemove(s) \/ FinishMeta(s) \/ FinishClose(s) \/ FinishContext(s) \/ FinishCancel(s)

StopStep(s, w) ==
  StopCancel(s, w) \/ StopRemove(s, w) \/ halfClose(s, w) \/ StopClose(s, w) \/ StopSection(s, w)

\* Steps of the handler inside the library.
HandlerLibStep(s) == Dequeue(s) \/ SendHeaders(s) \/ TakeWindow(s) \/ WriteMsg(s)

ApplicationStep(s) ==
  \/ CancelContext(s) \/ ClientSendMsg(s) \/ CloseSend(s) \/ ClientRecvMsg(s)
  \/ RecvMsg(s) \/ SendMsg(s) \/ \E err \in {Nil, "status"} : Return(s, err)

Next ==
  \/ Break \/ Close \/ InitiateShutdown \/ Stop \/ HangUp
  \/ \E ok \in BOOLEAN : allocateStream(ok)
  \/ \E s \in Ids :
       \/ ApplicationStep(s)
       \/ SendNewStream(s) \/ Watch(s) \/ FinishStep(s) \/ SendCancel(s)
       \/ ClientAck(s) \/ ClientReadFails(s)
       \/ \E w \in Actors : StopStep(s, w)
       \/ SendClose(s) \/ Timeout(s) \/ CancelReceiver(s) \/ HandlerLibStep(s)
  \/ ClientRecv \/ ClientRecvEnd
  \/ \E w \in {"user", "loop"} : CloseTearDown(w) \/ CloseSection(w)
  \/ ServerRecv \/ ServerRecvEnd

Spec == Init /\ [][Next]_vars

(***************************************************************************)
(* Fairness: the library's goroutines run and the transport delivers.      *)
(* Nothing makes the application call anything, read what has arrived, or  *)
(* return from a handler.                                                  *)
(***************************************************************************)
Fairness ==
  /\ \A s \in Ids :
       /\ WF_vars(SendNewStream(s)) /\ WF_vars(Watch(s)) /\ WF_vars(FinishStep(s)) /\ WF_vars(SendCancel(s))
       /\ \A w \in Actors : WF_vars(StopStep(s, w))
       /\ WF_vars(SendClose(s)) /\ WF_vars(CancelReceiver(s)) /\ WF_vars(HandlerLibStep(s))
  /\ WF_vars(ClientRecv) /\ WF_vars(ClientRecvEnd)
  /\ \A w \in {"user", "loop"} : WF_vars(CloseTearDown(w)) /\ WF_vars(CloseSection(w))
  /\ WF_vars(ServerRecv) /\ WF_vars(ServerRecvEnd) /\ WF_vars(HangUp)

FairSpec == Spec /\ Fairness
-----------------------------------------------------------------------------
(***************************************************************************)
(* Safety.                                                                 *)
(***************************************************************************)
\* Two ends that run this code never make each other's getStream or
\* createStream report a protocol error, which would end the tunnel with all
\* its streams: IDs arrive in order, and late frames for streams that were
\* rejected, cancelled or finished are told from frames for unknown ones.
NoProtocolError == ~protoErr

\* When RecvMsg of the client has reported the end of the stream, the reason
\* is set, Trailer returns the trailers that came with it, Header does not
\* block, and a later CloseSend is a no-op.
EndIsPublished ==
  \A s \in Ids : cli[s].err # Nil =>
    /\ cli[s].done # Nil
    /\ cli[s].err = "multiple" \/ (cli[s].doneSignal /\ cli[s].headers # "no")
    /\ cli[s].err \in {"EOF", "status"} => cli[s].trailers

\* The server reports the outcome of a stream at most once.
Outcomes(s) == Cardinality({i \in 1 .. Len(s2c) : s2c[i].kind = "close" /\ s2c[i].id = s})
               + (IF srv[s].close \in {"headers", "close"} THEN 1 ELSE 0)
ClosedOnce ==
  \A s \in Ids : Outcomes(s) + (IF cli[s].done \in {"EOF", "status"} THEN 1 ELSE 0) <= 1

\* RecvMsg of a server-side stream returns no message that did not come from
\* the queue ("if stream is canceled, return context error", readMsgLocked).
NoPhantomMessage == \A s \in Ids : srv[s].got <= srv[s].took

\* Each stream is an RPC as its callers understand it (module Rpc): the server
\* decides its result once, the client is told that result unless its own
\* context was done or the responses are too many; it has the headers before
\* any response of an RPC that has not failed, and is told of success only
\* after every response, although the end of a stream cancels the very context
\* that discards its queue.
Call(s) == INSTANCE Rpc WITH
  wrote <- srv[s].wrote,
  result <- IF srv[s].close = "no" THEN "none" ELSE IF srv[s].stat = Nil THEN "ok" ELSE "error",
  cancelled <- cli[s].ctx, headers <- cli[s].headers # "no", got <- cli[s].got, end <- cli[s].err
RpcSpec ==
  /\ \A s \in Ids : Call(s)!Init
  /\ [][\A s \in Ids : [Call(s)!Next]_(Call(s)!vars)]_vars

(***************************************************************************)
(* Liveness.                                                               *)
(***************************************************************************)
TunnelDown == broken \/ ended \/ sendClosed \/ stopped \/ finished

\* Once a handler has returned the client learns of it, whether or not the
\* application reads any stream, however full the transport.
StatusArrives ==
  \A s \in Ids : srv[s].h = "returned" ~> cli[s].done # Nil

\* Once the context of an RPC is done at the client, the RPC finishes there
\* and the context of its handler is cancelled.
CancelArrives ==
  \A s \in Ids : cli[s].new = "open" /\ cli[s].ctx ~>
    cli[s].fin = "end" /\ (srv[s].h # "none" => srv[s].ctx)

\* When the tunnel is closed or stopped by one end, or fails, both ends come to
\* know, and every RPC on it ends, at both ends.
TunnelEndsStreams ==
  TunnelDown ~> /\ finished /\ ended
                /\ \A s \in Ids : /\ cli[s].new = "open" => cli[s].doneSignal
                                  /\ srv[s].h # "none" => srv[s].ctx
=============================================================================
