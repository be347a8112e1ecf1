---------------------------- MODULE TunnelProofs ----------------------------
(***************************************************************************)
(* The safety of the streams of a tunnel, for any number of streams, any   *)
(* capacity of the transport and window, and any set of scenarios: the     *)
(* invariants of Tunnel, and that each stream implements Rpc.              *)
(***************************************************************************)
EXTENDS Tunnel, FiniteSetTheorems, TLAPS

Frames(q) == 1 .. Len(q)

\* The stream has failed at the server: the caller may be told, and given
\* responses before it knows the headers.
Failed(s) == srv[s].close # "no" /\ srv[s].stat = "status"
Succeeded(s) == srv[s].close # "no" /\ srv[s].stat = Nil

\* A frame of the given kind for stream s is on its way to the client.
OnItsWay(kind, s) == \E i \in Frames(s2c) : s2c[i].kind = kind /\ s2c[i].id = s

\* Responses on their way, and those that RecvMsg has or is about to return.
Msgs(q, s) == {i \in Frames(q) : q[i].kind = "msg" /\ q[i].id = s}
Taken(st) ==
  st.got + (CASE st.rd = "ready" -> 0
              [] st.rd \in {"update", "second"} -> 1
              [] st.rd \in {"update2", "failed"} -> 2)
Arrived(s) == Taken(cli[s]) + cli[s].items + Cardinality(Msgs(s2c, s))

(***************************************************************************)
(* The inductive invariant.                                                *)
(***************************************************************************)
\* streamCreation: one stream at a time is between its allocation and its frame,
\* the latest, and nothing else is done to a stream before it is open.
CreationOf(s) ==
  /\ s > lastStreamID <=> cli[s].new = "none"
  /\ cli[s].new = "alloc" => s = lastStreamID
  /\ s \in streams => cli[s].new \in {"alloc", "open"}
  /\ cli[s].new # "open" =>
       /\ ~cli[s].watch /\ cli[s].rd = "ready" /\ cli[s].fin = "no" /\ cli[s].cancel = "no"
       /\ cli[s].items = 0 /\ cli[s].got = 0
Creation ==
  /\ lastStreamID <= scn.streams
  /\ \A s \in Ids : CreationOf(s)

\* finishStream of the client: who runs it, and what is set by when.
FinishingOf(s) ==
  /\ cli[s].done = Nil <=> cli[s].fin = "no"
  /\ cli[s].done = Nil <=> cli[s].by = "none"
  /\ cli[s].done \in {"EOF", "status"} <=> cli[s].by = "loop"
  /\ cli[s].done = "canceled" => cli[s].ctx
  /\ cli[s].done = "multiple" => cli[s].err # Nil
  /\ cli[s].fin \notin {"no", "remove"} => s \notin streams
  /\ cli[s].fin \in {"close", "ctx", "cancel", "end"} =>
       /\ cli[s].doneSignal /\ cli[s].headers # "no"
       /\ cli[s].by = "loop" => cli[s].trailers
  /\ cli[s].closed => cli[s].fin \in {"ctx", "cancel", "end"}
  /\ cli[s].fin = "cancel" => cli[s].by # "loop"
  /\ cli[s].cancelled => cli[s].fin = "end" /\ cli[s].by # "loop"
  /\ cli[s].err # Nil =>
       /\ cli[s].rd = "ready" /\ cli[s].done # Nil
       /\ cli[s].err = "multiple" \/ (cli[s].err = cli[s].done /\ cli[s].fin \in {"ctx", "cancel", "end"})
Finishing == \A s \in Ids : FinishingOf(s)

\* The server sees the IDs in order: a frame that creates a stream comes before
\* the others of the stream, and after those that create earlier streams.
Requests ==
  /\ \A s \in Ids : cli[s].new \in {"none", "alloc"} => s > lastSeen
  /\ \A i \in Frames(c2s) :
       /\ cli[c2s[i].id].new = "open"
       /\ c2s[i].kind = "new" => c2s[i].id > lastSeen
       /\ c2s[i].kind # "new" =>
            \/ c2s[i].id <= lastSeen
            \/ \E j \in 1 .. i - 1 : c2s[j].kind = "new" /\ c2s[j].id = c2s[i].id
  /\ \A i, j \in Frames(c2s) : i < j /\ c2s[i].kind = "new" /\ c2s[j].kind = "new" => c2s[i].id < c2s[j].id
  /\ \A s \in Ids : cli[s].new = "open" /\ ~ClientSendFails =>
       s <= lastSeen \/ \E i \in Frames(c2s) : c2s[i].kind = "new" /\ c2s[i].id = s

\* A stream the server has not heard of, or has rejected, has no handler.
Registered ==
  \A s \in Ids :
    /\ s > lastSeen => srv[s].h = "none" /\ srv[s].close = "no" /\ s \notin svrStreams
    /\ s \in svrStreams => srv[s].h # "none"
    /\ srv[s].h = "none" =>
         /\ \A w \in Actors : srv[s].fin[w].pc = "no"
         /\ srv[s].wrote = 0 /\ ~srv[s].sentHeaders /\ ~srv[s].finished
    /\ srv[s].h # "none" \/ srv[s].close # "no" => cli[s].new = "open"

\* finishStream of the server: only the end of a handler can be a success, and
\* the handler is gone with it.
Outcome ==
  \A s \in Ids :
    /\ srv[s].h # "none" => (srv[s].close # "no" <=> srv[s].finished)
    /\ srv[s].h = "none" => ~Succeeded(s)
    /\ Succeeded(s) => srv[s].h = "gone"
    /\ srv[s].h \in {"window", "write"} => srv[s].sentHeaders
    /\ srv[s].fin["loop"].pc # "no" => srv[s].fin["loop"].err # Nil
    /\ srv[s].fin["handler"].pc # "no" =>
         \/ srv[s].h = "returned"
         \/ srv[s].h = "failed" /\ srv[s].fin["handler"].err # Nil

\* Frames to the client: one close frame, with the outcome the server decided,
\* after which a stream that succeeded has no response.
Responses ==
  /\ \A i \in Frames(s2c) :
       LET f == s2c[i] IN
       /\ srv[f.id].h # "none" \/ srv[f.id].close # "no"
       /\ f.kind = "close" =>
            /\ srv[f.id].close = "sent" /\ srv[f.id].stat = f.stat
            /\ cli[f.id].done \notin {"EOF", "status"}
            /\ \A j \in Frames(s2c) : s2c[j].kind = "close" /\ s2c[j].id = f.id => j = i
            /\ f.stat = Nil => \A j \in Frames(s2c) : s2c[j].kind = "msg" /\ s2c[j].id = f.id => j < i
  /\ \A s \in Ids :
       /\ cli[s].done = "EOF" => srv[s].close = "sent" /\ srv[s].stat = Nil /\ ~OnItsWay("msg", s)
       /\ cli[s].done = "status" => srv[s].close = "sent" /\ srv[s].stat = "status"

\* Headers go before responses, unless the stream has failed, or the client has
\* forgotten it and drops both.
HeadersLeadOf(s) ==
  /\ cli[s].items > 0 \/ cli[s].rd # "ready" => cli[s].headers # "no" \/ Failed(s)
  /\ s \in streams /\ cli[s].headers = "no" /\ ~Failed(s) =>
       /\ \A i \in Frames(s2c) : s2c[i].kind = "msg" /\ s2c[i].id = s =>
            \E j \in 1 .. i - 1 : s2c[j].kind = "headers" /\ s2c[j].id = s
       /\ srv[s].sentHeaders /\ srv[s].h # "gone" /\ ~ServerSendFails => OnItsWay("headers", s)
HeadersLead == \A s \in Ids : HeadersLeadOf(s)

\* No response is made up, and none is lost while the stream may still succeed.
CountedOf(s) ==
  /\ Arrived(s) <= srv[s].wrote
  /\ /\ s \in streams /\ cli[s].done = Nil
     /\ ~ServerSendFails \/ (Succeeded(s) /\ OnItsWay("close", s))
     => Arrived(s) = srv[s].wrote
  /\ cli[s].done = "EOF" /\ cli[s].err = Nil => Arrived(s) = srv[s].wrote
Counted == \A s \in Ids : CountedOf(s)

IInv ==
  /\ TypeOK /\ NoProtocolError
  /\ Creation /\ Finishing /\ Requests /\ Registered /\ Outcome /\ Responses /\ HeadersLead /\ Counted
-----------------------------------------------------------------------------
(***************************************************************************)
(* The steps by the end that takes them: a step of one end leaves the      *)
(* state of the other alone.                                               *)
(***************************************************************************)
ClientStreamStep(s) ==
  \/ SendNewStream(s) \/ CancelContext(s) \/ Watch(s) \/ FinishStep(s) \/ SendCancel(s)
  \/ ClientSendMsg(s) \/ CloseSend(s) \/ ClientRecvMsg(s) \/ ClientAck(s) \/ ClientReadFails(s)
ChannelStep ==
  \/ \E ok \in BOOLEAN : allocateStream(ok)
  \/ ClientRecv \/ ClientRecvEnd \/ Close
  \/ \E w \in {"user", "loop"} : CloseTearDown(w) \/ CloseSection(w)

ServerStreamStep(s) ==
  \/ \E w \in Actors : StopStep(s, w)
  \/ SendClose(s) \/ Timeout(s) \/ CancelReceiver(s) \/ HandlerLibStep(s)
  \/ RecvMsg(s) \/ SendMsg(s) \/ \E err \in {Nil, "status"} : Return(s, err)
ServeStep == ServerRecv \/ ServerRecvEnd \/ InitiateShutdown \/ Stop \/ HangUp \/ Break

LEMMA Steps ==
  ASSUME Next
  PROVE  \/ ChannelStep \/ ServeStep
         \/ \E s \in Ids : ClientStreamStep(s) \/ ServerStreamStep(s)
BY DEF Next, ApplicationStep, ClientStreamStep, ChannelStep, ServerStreamStep, ServeStep

LEMMA ServerSide ==
  ASSUME ServeStep \/ \E s \in Ids : ServerStreamStep(s)
  PROVE  UNCHANGED <<scn, lastStreamID, streams, finished, closer, cli>>
<1>. USE DEF clientVars
<1>1. CASE ServeStep
  BY <1>1 DEF ServeStep, ServerRecv, ServerRecvEnd, InitiateShutdown, Stop, HangUp, Break
<1>2. ASSUME NEW s \in Ids, ServerStreamStep(s)
      PROVE  UNCHANGED <<scn, lastStreamID, streams, finished, closer, cli>>
  BY <1>2 DEF ServerStreamStep, StopStep, StopCancel, StopRemove, halfClose, StopClose, StopSection, SendClose, Timeout,
     CancelReceiver, HandlerLibStep, Dequeue, SendHeaders, TakeWindow, WriteMsg, RecvMsg, SendMsg, Return, HandlerStep
<1>. QED  BY <1>1, <1>2

LEMMA ClientSide ==
  ASSUME ChannelStep \/ \E s \in Ids : ClientStreamStep(s)
  PROVE  UNCHANGED <<scn, svrStreams, lastSeen, isClosing, srv, stopped, ended, broken>>
<1>. USE DEF serverVars, netVars
<1>1. CASE ChannelStep
  BY <1>1 DEF ChannelStep, allocateStream, ClientRecv, ClientRecvEnd, Close, CloseTearDown, CloseSection
<1>2. ASSUME NEW s \in Ids, ClientStreamStep(s)
      PROVE  UNCHANGED <<scn, svrStreams, lastSeen, isClosing, srv, stopped, ended, broken>>
  BY <1>2 DEF ClientStreamStep, FinishStep, SendNewStream, CancelContext, Watch, FinishRemove, FinishMeta, FinishClose,
     FinishContext, FinishCancel, SendCancel, ClientSendMsg, CloseSend, ClientRecvMsg, ClientAck, ClientReadFails
<1>. QED  BY <1>1, <1>2

LEMMA ServerStreamSide ==
  ASSUME NEW s \in Ids, ServerStreamStep(s)
  PROVE  /\ UNCHANGED <<lastSeen, isClosing, c2s, sendClosed, stopped, ended, broken, protoErr>>
         /\ svrStreams' \subseteq svrStreams
BY DEF ServerStreamStep, StopStep, StopCancel, StopRemove, halfClose, StopClose, StopSection, SendClose, Timeout,
   CancelReceiver, HandlerLibStep, Dequeue, SendHeaders, TakeWindow, WriteMsg, RecvMsg, SendMsg, Return, HandlerStep, netVars

LEMMA ClientStreamSide ==
  ASSUME NEW s \in Ids, ClientStreamStep(s)
  PROVE  /\ UNCHANGED <<lastStreamID, finished, closer, s2c, sendClosed, protoErr>>
         /\ streams' \subseteq streams
BY DEF ClientStreamStep, FinishStep, SendNewStream, CancelContext, Watch, FinishRemove, FinishMeta, FinishClose, netVars,
   FinishContext, FinishCancel, SendCancel, ClientSendMsg, CloseSend, ClientRecvMsg, ClientAck, ClientReadFails
-----------------------------------------------------------------------------
(***************************************************************************)
(* Sequences and the transport.                                            *)
(***************************************************************************)
LEMMA AppendFacts ==
  ASSUME NEW S, NEW q \in Seq(S), NEW e \in S
  PROVE  /\ Append(q, e) \in Seq(S) /\ Len(q) \in Nat /\ Len(Append(q, e)) = Len(q) + 1
         /\ \A i \in Frames(q) : Append(q, e)[i] = q[i]
         /\ Append(q, e)[Len(q) + 1] = e
BY DEF Frames

LEMMA TailFacts ==
  ASSUME NEW S, NEW q \in Seq(S), q # <<>>
  PROVE  /\ Tail(q) \in Seq(S) /\ Len(Tail(q)) = Len(q) - 1 /\ Len(q) \in Nat /\ Len(q) > 0
         /\ Head(q) \in S /\ Head(q) = q[1] /\ 1 \in Frames(q)
         /\ \A i \in Frames(Tail(q)) : Tail(q)[i] = q[i + 1] /\ i + 1 \in Frames(q)
BY DEF Frames

LEMMA SendToServerType ==
  ASSUME c2s \in Seq(ClientFrame), NEW s \in Ids, NEW k \in {"new", "msg", "half", "cancel", "update"},
         SendToServer(k, s)
  PROVE  c2s' \in Seq(ClientFrame)
<1>1. [kind |-> k, id |-> s] \in ClientFrame
  BY DEF ClientFrame
<1>2. Append(c2s, [kind |-> k, id |-> s]) \in Seq(ClientFrame)
  BY <1>1, AppendFacts
<1>. QED  BY <1>2 DEF SendToServer

LEMMA SendToClientType ==
  ASSUME s2c \in Seq(ServerFrame), NEW s \in Ids, NEW k \in {"headers", "msg", "close"}, NEW x \in {Nil, "status"},
         SendToClient(k, s, x)
  PROVE  s2c' \in Seq(ServerFrame)
<1>1. [kind |-> k, id |-> s, stat |-> x] \in ServerFrame
  BY DEF ServerFrame
<1>2. Append(s2c, [kind |-> k, id |-> s, stat |-> x]) \in Seq(ServerFrame)
  BY <1>1, AppendFacts
<1>. QED  BY <1>2 DEF SendToClient
-----------------------------------------------------------------------------
(***************************************************************************)
(* Types.                                                                  *)
(***************************************************************************)
LEMMA finishStreamFacts ==
  ASSUME cli \in [Ids -> ClientStream], NEW s \in Ids,
         NEW who \in {"none", "loop", "watch", "reader"}, NEW e \in Errors
  PROVE  LET f == finishStream(s, who, e) IN
         /\ f \in ClientStream
         /\ cli[s].done # Nil => f = cli[s]
         /\ cli[s].done = Nil => f.done = e /\ f.fin = "remove" /\ f.by = who
         /\ f.new = cli[s].new /\ f.ctx = cli[s].ctx /\ f.watch = cli[s].watch /\ f.headers = cli[s].headers
         /\ f.trailers = cli[s].trailers /\ f.doneSignal = cli[s].doneSignal /\ f.items = cli[s].items
         /\ f.closed = cli[s].closed /\ f.cancelled = cli[s].cancelled /\ f.rd = cli[s].rd /\ f.err = cli[s].err
         /\ f.got = cli[s].got /\ f.cancel = cli[s].cancel
<1> DEFINE f == finishStream(s, who, e)
<1>1. PICK st \in ClientStream : st = cli[s]
  OBVIOUS
<1>2. CASE st.done # Nil
  BY <1>1, <1>2, Zenon DEF finishStream
<1>3. CASE st.done = Nil
  <2>1. f = [st EXCEPT !.done = e, !.fin = "remove", !.by = who]
    BY <1>1, <1>3, Zenon DEF finishStream
  <2>2. f \in ClientStream
    BY <2>1 DEF ClientStream
  <2>3. f.done = e /\ f.fin = "remove" /\ f.by = who /\ f.new = st.new /\ f.headers = st.headers
        /\ f.items = st.items /\ f.rd = st.rd /\ f.err = st.err /\ f.got = st.got /\ f.cancel = st.cancel
    BY <2>1 DEF ClientStream
  <2>4. /\ f.ctx = st.ctx /\ f.watch = st.watch /\ f.trailers = st.trailers
        /\ f.doneSignal = st.doneSignal /\ f.closed = st.closed /\ f.cancelled = st.cancelled
    BY <2>1 DEF ClientStream
  <2>. HIDE DEF f
  <2>. QED  BY <1>1, <1>3, <2>2, <2>3, <2>4, Zenon DEF f
<1>. QED  BY <1>2, <1>3

LEMMA ClientRecords ==
  ASSUME NEW st \in ClientStream, NEW b \in BOOLEAN, NEW c \in BOOLEAN, NEW n \in Nat,
         NEW new \in {"none", "alloc", "open", "failed"}, NEW headers \in {"no", "none", "some"},
         NEW rd \in {"ready", "update", "second", "update2", "failed"}
  PROVE  /\ [st EXCEPT !.new = new, !.watch = b] \in ClientStream
         /\ [st EXCEPT !.fin = "close", !.doneSignal = b, !.trailers = c, !.headers = headers] \in ClientStream
         /\ [st EXCEPT !.rd = rd, !.got = n] \in ClientStream
<1>1. [st EXCEPT !.new = new, !.watch = b] \in ClientStream
  BY DEF ClientStream
<1>2. [st EXCEPT !.fin = "close", !.doneSignal = b, !.trailers = c, !.headers = headers] \in ClientStream
  BY DEF ClientStream
<1>3. [st EXCEPT !.rd = rd, !.got = n] \in ClientStream
  BY DEF ClientStream
<1>. QED  BY <1>1, <1>2, <1>3

LEMMA ClientType ==
  ASSUME TypeOK, Next
  PROVE  cli' \in [Ids -> ClientStream]
<1>0. cli \in [Ids -> ClientStream]
  BY DEF TypeOK
<1>a. PICK yes \in BOOLEAN : yes = TRUE
  OBVIOUS
<1>b. PICK no \in BOOLEAN : no = FALSE
  OBVIOUS
<1>c. Nil \in Errors /\ "EOF" \in Errors /\ "status" \in Errors /\ "canceled" \in Errors /\ "multiple" \in Errors
  BY DEF Errors
<1>1. ASSUME NEW ok \in BOOLEAN, allocateStream(ok)
      PROVE  cli' \in [Ids -> ClientStream]
  <2>1. PICK x \in {"none", "alloc", "open", "failed"} : x = IF ok THEN "alloc" ELSE "failed"
    OBVIOUS
  <2>9. lastStreamID + 1 \in Ids
    BY <1>1, TunnelAssumption DEF allocateStream, TypeOK, Scenario, Ids
  <2>2. cli' = [cli EXCEPT ![lastStreamID + 1] = [cli[lastStreamID + 1] EXCEPT !.new = x]]
    BY <1>1, <2>1, Zenon DEF allocateStream
  <2>3. [cli[lastStreamID + 1] EXCEPT !.new = x] \in ClientStream
    BY <1>0, <2>9 DEF ClientStream
  <2>. QED  BY <1>0, <2>2, <2>3
<1>2. ASSUME NEW s \in Ids, SendNewStream(s)
      PROVE  cli' \in [Ids -> ClientStream]
  <2>1. PICK b \in BOOLEAN : b = ~ClientSendFails
    BY Zenon
  <2>2. PICK x \in {"none", "alloc", "open", "failed"} : x = IF ClientSendFails THEN "failed" ELSE "open"
    OBVIOUS
  <2>3. cli' = [cli EXCEPT ![s] = [cli[s] EXCEPT !.new = x, !.watch = b]]
    BY <1>2, <2>1, <2>2, Zenon DEF SendNewStream
  <2>4. [cli[s] EXCEPT !.new = x, !.watch = b] \in ClientStream
    BY <1>0, ClientRecords
  <2>. QED  BY <1>0, <2>3, <2>4
<1>3. ASSUME NEW s \in Ids, CancelContext(s) \/ FinishClose(s) \/ FinishContext(s) \/ FinishCancel(s)
      PROVE  cli' \in [Ids -> ClientStream]
  <2>1. PICK x \in {"no", "remove", "meta", "close", "ctx", "cancel", "end"} : x = IF cli[s].by = "loop" THEN "end" ELSE "cancel"
    OBVIOUS
  <2>2. \/ cli' = [cli EXCEPT ![s] = [cli[s] EXCEPT !.ctx = yes]]
        \/ cli' = [cli EXCEPT ![s] = [cli[s] EXCEPT !.fin = "ctx", !.closed = yes]]
        \/ cli' = [cli EXCEPT ![s] = [cli[s] EXCEPT !.fin = x, !.ctx = yes]]
        \/ cli' = [cli EXCEPT ![s] = [cli[s] EXCEPT !.fin = "end", !.cancelled = yes, !.items = 0, !.cancel = "pending"]]
    BY <1>3, <1>a, <2>1, Zenon DEF CancelContext, FinishClose, FinishContext, FinishCancel
  <2>3. PICK st \in ClientStream : st = cli[s]
    BY <1>0
  <2>4. [st EXCEPT !.ctx = yes] \in ClientStream
    BY DEF ClientStream
  <2>5. [st EXCEPT !.fin = "ctx", !.closed = yes] \in ClientStream
    BY DEF ClientStream
  <2>6. [st EXCEPT !.fin = x, !.ctx = yes] \in ClientStream
    BY DEF ClientStream
  <2>7. \A n \in Nat : [st EXCEPT !.fin = "end", !.cancelled = yes, !.items = n, !.cancel = "pending"] \in ClientStream
    BY DEF ClientStream
  <2>8. [st EXCEPT !.fin = "end", !.cancelled = yes, !.items = 0, !.cancel = "pending"] \in ClientStream
    BY <2>7
  <2>. QED  BY <1>0, <2>2, <2>3, <2>4, <2>5, <2>6, <2>8
<1>31. ASSUME NEW s \in Ids, FinishRemove(s) \/ SendCancel(s) \/ ClientSendMsg(s)
      PROVE  cli' \in [Ids -> ClientStream]
  BY <1>0, <1>31 DEF FinishRemove, SendCancel, ClientSendMsg, ClientStream
<1>4. ASSUME NEW s \in Ids, FinishMeta(s)
      PROVE  cli' \in [Ids -> ClientStream]
  <2>1. PICK b \in BOOLEAN : b = (cli[s].by = "loop")
    BY Zenon
  <2>2. PICK x \in {"no", "none", "some"} : x = IF cli[s].headers = "no" THEN "none" ELSE cli[s].headers
    BY <1>0 DEF ClientStream
  <2>3. cli' = [cli EXCEPT ![s] = [cli[s] EXCEPT !.fin = "close", !.doneSignal = yes, !.trailers = b, !.headers = x]]
    BY <1>4, <1>a, <2>1, <2>2, Zenon DEF FinishMeta
  <2>4. [cli[s] EXCEPT !.fin = "close", !.doneSignal = yes, !.trailers = b, !.headers = x] \in ClientStream
    BY <1>0, ClientRecords
  <2>. QED  BY <1>0, <2>3, <2>4
<1>5. ASSUME NEW s \in Ids, Watch(s) \/ ClientReadFails(s)
      PROVE  cli' \in [Ids -> ClientStream]
  <2>1. PICK f \in ClientStream : f = finishStream(s, "watch", "canceled")
    BY <1>0, <1>c, finishStreamFacts
  <2>2. PICK g \in ClientStream : g = finishStream(s, "reader", "multiple")
    BY <1>0, <1>c, finishStreamFacts
  <2>3. [f EXCEPT !.watch = no] \in ClientStream /\ [g EXCEPT !.rd = "ready", !.err = "multiple"] \in ClientStream
    BY <1>c DEF ClientStream
  <2>4. \/ cli' = [cli EXCEPT ![s] = [f EXCEPT !.watch = no]]
        \/ cli' = [cli EXCEPT ![s] = [g EXCEPT !.rd = "ready", !.err = "multiple"]]
    BY <1>5, <1>b, <2>1, <2>2, Zenon DEF Watch, ClientReadFails
  <2>. QED  BY <1>0, <2>3, <2>4
<1>6. ASSUME NEW s \in Ids, CloseSend(s)
      PROVE  cli' \in [Ids -> ClientStream]
  <2>1. cli' = [cli EXCEPT ![s].half = yes]
    BY <1>6, <1>a, Zenon DEF CloseSend
  <2>. QED  BY <1>0, <2>1 DEF ClientStream
<1>61. ASSUME NEW s \in Ids, ClientRecvMsg(s)
      PROVE  cli' \in [Ids -> ClientStream]
  <2>0. PICK st \in ClientStream : st = cli[s]
    BY <1>0
  <2>1. CASE cli' = [cli EXCEPT ![s] =
               [cli[s] EXCEPT !.items = @ - 1, !.rd = IF @ = "ready" THEN "update" ELSE "update2"]]
             /\ cli[s].items > 0
    <3>1. PICK n \in Nat : n = st.items - 1
      BY <2>0, <2>1 DEF ClientStream
    <3>2. PICK x \in {"ready", "update", "second", "update2", "failed"} : x = IF st.rd = "ready" THEN "update" ELSE "update2"
      OBVIOUS
    <3>3. cli' = [cli EXCEPT ![s] = [st EXCEPT !.items = n, !.rd = x]]
      BY <2>0, <2>1, <3>1, <3>2, Zenon
    <3>4. [st EXCEPT !.items = n, !.rd = x] \in ClientStream
      BY DEF ClientStream
    <3>. QED  BY <1>0, <3>3, <3>4
  <2>2. CASE cli' = [cli EXCEPT ![s] =
               [cli[s] EXCEPT !.err = cli[s].done, !.rd = "ready",
                              !.got = IF cli[s].rd = "second" /\ cli[s].done = "EOF" THEN @ + 1 ELSE @]]
    <3>1. PICK n \in Nat : n = IF st.rd = "second" /\ st.done = "EOF" THEN st.got + 1 ELSE st.got
      BY DEF ClientStream
    <3>2. cli' = [cli EXCEPT ![s] = [st EXCEPT !.err = st.done, !.rd = "ready", !.got = n]]
      BY <2>0, <2>2, <3>1, Zenon
    <3>3. [st EXCEPT !.err = st.done, !.rd = "ready", !.got = n] \in ClientStream
      BY DEF ClientStream
    <3>. QED  BY <1>0, <3>2, <3>3
  <2>. QED  BY <1>61, <2>1, <2>2 DEF ClientRecvMsg
<1>7. ASSUME NEW s \in Ids, ClientAck(s)
      PROVE  cli' \in [Ids -> ClientStream]
  <2>1. PICK x \in {"ready", "update", "second", "update2", "failed"} :
          x = CASE cli[s].rd = "update" /\ "server" \in scn.client -> "ready"
                [] cli[s].rd = "update" /\ "server" \notin scn.client -> "second"
                [] cli[s].rd = "update2" -> "failed"
    BY <1>7 DEF ClientAck
  <2>2. PICK n \in Nat : n = IF cli[s].rd = "update" /\ "server" \in scn.client THEN cli[s].got + 1 ELSE cli[s].got
    BY <1>0 DEF ClientStream
  <2>3. cli' = [cli EXCEPT ![s] = [cli[s] EXCEPT !.rd = x, !.got = n]]
    BY <1>7, <2>1, <2>2, Zenon DEF ClientAck
  <2>4. [cli[s] EXCEPT !.rd = x, !.got = n] \in ClientStream
    BY <1>0, ClientRecords
  <2>. QED  BY <1>0, <2>3, <2>4
<1>8. ASSUME ClientRecv
      PROVE  cli' \in [Ids -> ClientStream]
  <2> DEFINE f == Head(s2c)
  <2>1. f \in ServerFrame
    BY <1>8, TailFacts DEF ClientRecv, TypeOK
  <2>2. f.id \in Ids /\ f.kind \in {"headers", "msg", "close"}
    BY <2>1 DEF ServerFrame
  <2>3. acceptServerFrame(f) \in ClientStream
    <3>1. finishStream(f.id, "loop", IF f.stat = Nil THEN "EOF" ELSE "status") \in ClientStream
      BY <1>0, <1>c, <2>2, finishStreamFacts
    <3>2. cli[f.id] \in ClientStream
      BY <1>0, <2>2
    <3>3. [cli[f.id] EXCEPT !.headers = IF @ = "no" THEN "some" ELSE @] \in ClientStream
          /\ [cli[f.id] EXCEPT !.items = IF cli[f.id].closed THEN @ ELSE @ + 1] \in ClientStream
      BY <3>2 DEF ClientStream
    <3>. QED  BY <2>2, <3>1, <3>3 DEF acceptServerFrame
  <2>. QED  BY <1>0, <1>8, <2>2, <2>3 DEF ClientRecv
<1>9. ASSUME NEW w, CloseSection(w)
      PROVE  cli' \in [Ids -> ClientStream]
  <2>1. ASSUME NEW s \in Ids
        PROVE  [cli[s] EXCEPT !.ctx = @ \/ (~finished /\ s \in streams)] \in ClientStream
    <3>1. PICK b \in BOOLEAN : b = (cli[s].ctx \/ (~finished /\ s \in streams))
      BY Zenon
    <3>2. [cli[s] EXCEPT !.ctx = b] \in ClientStream
      BY <1>0 DEF ClientStream
    <3>. QED  BY <3>1, <3>2, Zenon
  <2>. QED  BY <1>9, <2>1 DEF CloseSection
<1>10. CASE ServeStep \/ (\E s \in Ids : ServerStreamStep(s)) \/ ClientRecvEnd \/ Close
             \/ \E w \in {"user", "loop"} : CloseTearDown(w)
  BY <1>0, <1>10, ServerSide DEF ClientRecvEnd, Close, CloseTearDown
<1>. QED
  BY <1>1, <1>2, <1>3, <1>31, <1>4, <1>5, <1>6, <1>61, <1>7, <1>8, <1>9, <1>10, Steps
     DEF ChannelStep, ClientStreamStep, FinishStep

HandlerPCs == {"none", "run", "dequeue", "headers", "window", "write", "failed", "returned", "gone"}

LEMMA FinishRecords ==
  ASSUME NEW fin \in [Actors -> Finish], NEW w \in Actors, NEW e \in Errors, NEW b \in BOOLEAN,
         NEW pc \in {"no", "cancel", "remove", "half", "close", "lock"}
  PROVE  /\ [fin EXCEPT ![w].pc = pc] \in [Actors -> Finish]
         /\ [fin EXCEPT ![w] = [pc |-> pc, err |-> e, lock |-> b]] \in [Actors -> Finish]
         /\ [fin EXCEPT ![w] = NoFinish] \in [Actors -> Finish]
         /\ fin[w].err \in Errors
<1>0. fin[w] \in Finish
  OBVIOUS
<1>1. [fin[w] EXCEPT !.pc = pc] \in Finish /\ fin[w].err \in Errors
  BY <1>0 DEF Finish
<1>2. [pc |-> pc, err |-> e, lock |-> b] \in Finish
  BY DEF Finish
<1>3. NoFinish \in Finish
  BY DEF NoFinish, Finish, Errors
<1>. QED  BY <1>1, <1>2, <1>3

LEMMA AfterFinishType ==
  ASSUME NEW st \in ServerStream, NEW w \in Actors
  PROVE  AfterFinish(st, w) \in ServerStream
<1>1. PICK fin \in [Actors -> Finish] : fin = [st.fin EXCEPT ![w] = NoFinish]
  BY FinishRecords DEF ServerStream, Errors
<1>2. PICK h \in HandlerPCs : h = CASE w = "handler" /\ st.h = "failed" -> "run"
                                    [] w = "handler" /\ st.h = "returned" -> "gone"
                                    [] OTHER -> st.h
  BY DEF ServerStream, HandlerPCs
<1>3. AfterFinish(st, w) = [st EXCEPT !.fin = fin, !.h = h]
  BY <1>1, <1>2, Zenon DEF AfterFinish
<1>4. [st EXCEPT !.fin = fin, !.h = h] \in ServerStream
  BY DEF ServerStream, HandlerPCs
<1>. QED  BY <1>3, <1>4

LEMMA ReadFailsType ==
  ASSUME NEW st \in ServerStream, NEW e \in Errors, NEW bad \in BOOLEAN
  PROVE  ReadFails(st, e, bad) \in ServerStream
<1>1. PICK fin \in [Actors -> Finish] : fin = IF bad THEN [st.fin EXCEPT !["handler"] = [pc |-> "cancel", err |-> e, lock |-> TRUE]]
                                                     ELSE st.fin
  <2>1. st.fin \in [Actors -> Finish]
    BY DEF ServerStream
  <2>2. [st.fin EXCEPT !["handler"] = [pc |-> "cancel", err |-> e, lock |-> TRUE]] \in [Actors -> Finish]
    BY <2>1, FinishRecords DEF Actors
  <2>. QED  BY <2>1, <2>2
<1>2. PICK h \in HandlerPCs : h = IF bad THEN "failed" ELSE "run"
  BY DEF HandlerPCs
<1>3. PICK no \in BOOLEAN : no = FALSE
  OBVIOUS
<1>4. ReadFails(st, e, bad) = [st EXCEPT !.err = e, !.second = no, !.h = h, !.fin = fin]
  <2>1. CASE bad
    BY <1>1, <1>2, <1>3, <2>1, Zenon DEF ReadFails
  <2>2. CASE ~bad
    <3>1. fin = st.fin /\ h = "run"
      BY <1>1, <1>2, <2>2
    <3>2. [st.fin EXCEPT !["handler"] = st.fin["handler"]] = st.fin
      BY DEF ServerStream, Actors
    <3>. QED  BY <1>3, <2>2, <3>1, <3>2, Zenon DEF ReadFails
  <2>. QED  BY <2>1, <2>2
<1>5. [st EXCEPT !.err = e, !.second = no, !.h = h, !.fin = fin] \in ServerStream
  BY DEF ServerStream, HandlerPCs
<1>. QED  BY <1>4, <1>5

LEMMA HaveMessageType ==
  ASSUME NEW st \in ServerStream
  PROVE  HaveMessage(st) \in ServerStream
<1>1. PICK yes \in BOOLEAN : yes = TRUE
  OBVIOUS
<1>2. /\ ReadFails(st, "multiple", TRUE) \in ServerStream
      /\ ReadFails(st, "canceled", FALSE) \in ServerStream
  BY ReadFailsType DEF Errors
<1>3. PICK n \in Nat : n = st.got + 1
  BY DEF ServerStream
<1>4. [st EXCEPT !.h = "run", !.got = n] \in ServerStream /\ [st EXCEPT !.second = yes] \in ServerStream
  BY DEF ServerStream
<1>5. [st EXCEPT !.h = "run", !.got = @ + 1] \in ServerStream /\ [st EXCEPT !.second = TRUE] \in ServerStream
  BY <1>1, <1>3, <1>4, Zenon
<1>6. st.second \in BOOLEAN /\ st.ctx \in BOOLEAN
  BY DEF ServerStream
<1>. QED  BY <1>2, <1>5, <1>6, Zenon DEF HaveMessage

LEMMA NoItemType ==
  ASSUME NEW st \in ServerStream
  PROVE  NoItem(st) \in ServerStream
<1>1. PICK no \in BOOLEAN : no = FALSE
  OBVIOUS
<1>2. PICK n \in Nat : n = st.got + 1
  BY DEF ServerStream
<1>3. PICK e \in Errors : e = "EOF"
  BY DEF Errors
<1>4. [st EXCEPT !.h = "run", !.err = e, !.second = no, !.got = n] \in ServerStream
  BY DEF ServerStream
<1>5. [st EXCEPT !.h = "run", !.err = "EOF", !.second = FALSE, !.got = @ + 1] \in ServerStream
  BY <1>1, <1>2, <1>3, <1>4, Zenon
<1>6. st.half \in Errors
  BY DEF ServerStream
<1>7. HaveMessage(st) \in ServerStream /\ ReadFails(st, st.half, FALSE) \in ServerStream
  BY <1>6, HaveMessageType, ReadFailsType
<1>. QED  BY <1>5, <1>7, Zenon DEF NoItem

LEMMA StopType ==
  ASSUME srv \in [Ids -> ServerStream], NEW s \in Ids, NEW w \in Actors, StopStep(s, w)
  PROVE  srv' \in [Ids -> ServerStream]
<1>0. PICK st \in ServerStream : st = srv[s]
  OBVIOUS
<1>a. PICK yes \in BOOLEAN : yes = TRUE
  OBVIOUS
<1>f. st.fin \in [Actors -> Finish]
  BY DEF ServerStream
<1>1. CASE StopCancel(s, w) \/ StopRemove(s, w)
  <2>1. PICK fin \in [Actors -> Finish] : fin = [st.fin EXCEPT ![w].pc = "remove"]
    BY <1>f, FinishRecords DEF Errors
  <2>2. PICK fin2 \in [Actors -> Finish] : fin2 = [st.fin EXCEPT ![w].pc = "half"]
    BY <1>f, FinishRecords DEF Errors
  <2>3. [st EXCEPT !.fin = fin, !.ctx = yes] \in ServerStream /\ [st EXCEPT !.fin = fin2] \in ServerStream
    BY DEF ServerStream
  <2>4. srv' = [srv EXCEPT ![s] = [st EXCEPT !.fin = fin, !.ctx = yes]] \/ srv' = [srv EXCEPT ![s] = [st EXCEPT !.fin = fin2]]
    BY <1>0, <1>1, <1>a, <2>1, <2>2, Zenon DEF StopCancel, StopRemove
  <2>. QED  BY <2>3, <2>4
<1>2. CASE halfClose(s, w)
  <2>1. PICK fin \in [Actors -> Finish] : fin = [st.fin EXCEPT ![w].pc = "close"]
    BY <1>f, FinishRecords DEF Errors
  <2>2. PICK fin2 \in [Actors -> Finish] : fin2 = [st.fin EXCEPT ![w].pc = "lock"]
    BY <1>f, FinishRecords DEF Errors
  <2>3. st.fin[w].err \in Errors
    BY <1>f DEF Finish
  <2>4. PICK e \in Errors : e = IF st.fin[w].err = Nil THEN "EOF" ELSE st.fin[w].err
    BY <2>3 DEF Errors
  <2>5. [st EXCEPT !.half = e, !.fin = fin] \in ServerStream /\ [st EXCEPT !.fin = fin2] \in ServerStream
    BY DEF ServerStream
  <2>6. AfterFinish(st, w) \in ServerStream
    BY AfterFinishType
  <2>7. \/ srv' = [srv EXCEPT ![s] = [st EXCEPT !.half = e, !.fin = fin]]
        \/ srv' = [srv EXCEPT ![s] = [st EXCEPT !.fin = fin2]]
        \/ srv' = [srv EXCEPT ![s] = AfterFinish(st, w)]
    <3>1. [st EXCEPT !.half = e].fin = st.fin
      BY DEF ServerStream
    <3>. QED  BY <1>0, <1>2, <2>1, <2>2, <2>4, <3>1, Zenon DEF halfClose
  <2>. QED  BY <2>5, <2>6, <2>7
<1>3. CASE StopClose(s, w)
  <2>1. PICK fin \in [Actors -> Finish] : fin = [st.fin EXCEPT ![w].pc = "lock"]
    BY <1>f, FinishRecords DEF Errors
  <2>2. PICK x \in ServerStream : x = [st EXCEPT !.closed = yes, !.fin = fin]
    <3>1. [st EXCEPT !.closed = yes, !.fin = fin] \in ServerStream
      BY DEF ServerStream
    <3>. QED  BY <3>1
  <2>3. srv' = [srv EXCEPT ![s] = x] \/ srv' = [srv EXCEPT ![s] = AfterFinish(x, w)]
    BY <1>0, <1>3, <1>a, <2>1, <2>2, Zenon DEF StopClose
  <2>. QED  BY <2>2, <2>3, AfterFinishType
<1>4. CASE StopSection(s, w)
  <2>1. PICK close \in {"no", "headers", "close", "sent"} : close = IF st.sentHeaders THEN "close" ELSE "headers"
    OBVIOUS
  <2>2. PICK stat \in {Nil, "status"} : stat = IF st.fin[w].err = Nil THEN Nil ELSE "status"
    OBVIOUS
  <2>3. PICK x \in ServerStream : x = [st EXCEPT !.finished = yes, !.sentHeaders = yes, !.close = close, !.stat = stat]
    <3>1. [st EXCEPT !.finished = yes, !.sentHeaders = yes, !.close = close, !.stat = stat] \in ServerStream
      BY DEF ServerStream
    <3>. QED  BY <3>1
  <2>4. srv' = [srv EXCEPT ![s] = AfterFinish(st, w)] \/ srv' = [srv EXCEPT ![s] = AfterFinish(x, w)]
    BY <1>0, <1>4, <1>a, <2>1, <2>2, <2>3, Zenon DEF StopSection
  <2>. QED  BY <2>4, AfterFinishType
<1>. QED  BY <1>1, <1>2, <1>3, <1>4 DEF StopStep

LEMMA HandlerType ==
  ASSUME srv \in [Ids -> ServerStream], NEW s \in Ids,
         HandlerLibStep(s) \/ RecvMsg(s) \/ SendMsg(s) \/ \E err \in {Nil, "status"} : Return(s, err)
  PROVE  srv' \in [Ids -> ServerStream]
<1>0. PICK st \in ServerStream : st = srv[s]
  OBVIOUS
<1>a. PICK yes \in BOOLEAN : yes = TRUE
  OBVIOUS
<1>b. PICK no \in BOOLEAN : no = FALSE
  OBVIOUS
<1>c. Nil \in Errors /\ "EOF" \in Errors /\ "status" \in Errors /\ "canceled" \in Errors /\ "multiple" \in Errors
  BY DEF Errors
<1>1. CASE Dequeue(s)
  <2>1. CASE st.items > 0 /\ srv' = [srv EXCEPT ![s] = HaveMessage([st EXCEPT !.items = @ - 1, !.took = @ + 1])]
    <3>1. PICK m \in Nat : m = st.items - 1
      BY <2>1 DEF ServerStream
    <3>2. PICK n \in Nat : n = st.took + 1
      BY DEF ServerStream
    <3>3. [st EXCEPT !.items = m, !.took = n] \in ServerStream
      BY DEF ServerStream
    <3>4. [st EXCEPT !.items = @ - 1, !.took = @ + 1] = [st EXCEPT !.items = m, !.took = n]
      BY <3>1, <3>2 DEF ServerStream
    <3>. QED  BY <2>1, <3>3, <3>4, HaveMessageType
  <2>2. CASE srv' = [srv EXCEPT ![s] = NoItem(st)]
    BY <2>2, NoItemType
  <2>. QED  BY <1>0, <1>1, <2>1, <2>2, Zenon DEF Dequeue, HandlerStep
<1>2. CASE RecvMsg(s)
  <2>1. [st EXCEPT !.err = "canceled"] \in ServerStream /\ [st EXCEPT !.h = "dequeue"] \in ServerStream
    BY <1>c DEF ServerStream
  <2>. QED  BY <1>0, <1>2, <2>1 DEF RecvMsg, HandlerStep
<1>3. CASE SendMsg(s)
  <2>1. PICK h \in HandlerPCs : h = IF HeadersDue(s) THEN "headers" ELSE "window"
    BY DEF HandlerPCs
  <2>2. PICK n \in Nat : n = IF HeadersDue(s) THEN st.numSent ELSE st.numSent + 1
    BY DEF ServerStream
  <2>3. [st EXCEPT !.locked = yes, !.h = h, !.numSent = n] \in ServerStream
    BY DEF ServerStream, HandlerPCs
  <2>4. srv' = [srv EXCEPT ![s] = [st EXCEPT !.locked = yes, !.h = h, !.numSent = n]]
    BY <1>0, <1>3, <1>a, <2>1, <2>2, Zenon DEF SendMsg, HandlerStep
  <2>. QED  BY <2>3, <2>4
<1>4. CASE SendHeaders(s)
  <2>1. PICK h \in HandlerPCs : h = IF ServerSendFails THEN "run" ELSE "window"
    BY DEF HandlerPCs
  <2>2. PICK n \in Nat : n = IF ServerSendFails THEN st.numSent ELSE st.numSent + 1
    BY DEF ServerStream
  <2>3. PICK b \in BOOLEAN : b = ~ServerSendFails
    BY Zenon
  <2>4. [st EXCEPT !.sentHeaders = yes, !.locked = b, !.h = h, !.numSent = n] \in ServerStream
    BY DEF ServerStream, HandlerPCs
  <2>5. srv' = [srv EXCEPT ![s] = [st EXCEPT !.sentHeaders = yes, !.locked = b, !.h = h, !.numSent = n]]
    BY <1>0, <1>4, <1>a, <2>1, <2>2, <2>3, Zenon DEF SendHeaders, HandlerStep
  <2>. QED  BY <2>4, <2>5
<1>5. CASE TakeWindow(s)
  <2>1. [st EXCEPT !.h = "run", !.locked = no] \in ServerStream
    BY DEF ServerStream
  <2>2. ASSUME st.credit > 0
        PROVE  [st EXCEPT !.credit = @ - 1, !.h = "write"] \in ServerStream
    <3>1. PICK n \in Nat : n = st.credit - 1
      BY <2>2 DEF ServerStream
    <3>2. [st EXCEPT !.credit = n, !.h = "write"] \in ServerStream
      BY DEF ServerStream
    <3>. QED  BY <3>1, <3>2, Zenon
  <2>3. \/ st.credit > 0 /\ srv' = [srv EXCEPT ![s] = [st EXCEPT !.credit = @ - 1, !.h = "write"]]
        \/ srv' = [srv EXCEPT ![s] = [st EXCEPT !.h = "run", !.locked = no]]
    BY <1>0, <1>5, <1>b, Zenon DEF TakeWindow, HandlerStep
  <2>. QED  BY <2>1, <2>2, <2>3
<1>6. CASE WriteMsg(s)
  <2>1. PICK n \in Nat : n = st.wrote + 1
    BY DEF ServerStream
  <2>2. [st EXCEPT !.h = "run", !.locked = no, !.wrote = n] \in ServerStream
    BY DEF ServerStream
  <2>3. srv' = [srv EXCEPT ![s] = [st EXCEPT !.h = "run", !.locked = no, !.wrote = n]]
    BY <1>0, <1>6, <1>b, <2>1, Zenon DEF WriteMsg, HandlerStep
  <2>. QED  BY <2>2, <2>3
<1>7. ASSUME NEW err \in {Nil, "status"}, Return(s, err)
      PROVE  srv' \in [Ids -> ServerStream]
  <2>1. err \in Errors /\ st.fin \in [Actors -> Finish]
    BY DEF Errors, ServerStream
  <2>2. PICK fin \in [Actors -> Finish] : fin = [st.fin EXCEPT !["handler"] = [pc |-> "cancel", err |-> err, lock |-> TRUE]]
    BY <2>1, FinishRecords DEF Actors
  <2>3. [st EXCEPT !.h = "returned", !.fin = fin] \in ServerStream
    BY DEF ServerStream
  <2>5. [st EXCEPT !.h = "returned"].fin = st.fin
    BY DEF ServerStream
  <2>4. srv' = [srv EXCEPT ![s] = [st EXCEPT !.h = "returned", !.fin = fin]]
    BY <1>0, <1>7, <2>2, <2>5, Zenon DEF Return, HandlerStep
  <2>. QED  BY <2>3, <2>4
<1>. QED  BY <1>1, <1>2, <1>3, <1>4, <1>5, <1>6, <1>7 DEF HandlerLibStep

LEMMA ServerType ==
  ASSUME TypeOK, Next
  PROVE  srv' \in [Ids -> ServerStream]
<1>0. srv \in [Ids -> ServerStream]
  BY DEF TypeOK
<1>a. PICK yes \in BOOLEAN : yes = TRUE
  OBVIOUS
<1>1. ASSUME NEW s \in Ids, SendClose(s) \/ Timeout(s) \/ CancelReceiver(s)
      PROVE  srv' \in [Ids -> ServerStream]
  <2>1. PICK close \in {"no", "headers", "close", "sent"} : close = IF srv[s].close = "headers" THEN "close" ELSE "sent"
    OBVIOUS
  <2>2. \/ srv' = [srv EXCEPT ![s].close = close]
        \/ srv' = [srv EXCEPT ![s].ctx = yes]
        \/ srv' = [srv EXCEPT ![s] = [srv[s] EXCEPT !.cancelled = yes, !.items = 0]]
    BY <1>1, <1>a, <2>1, Zenon DEF SendClose, Timeout, CancelReceiver
  <2>3. PICK st \in ServerStream : st = srv[s]
    BY <1>0
  <2>4. [st EXCEPT !.cancelled = yes, !.items = 0] \in ServerStream
    BY DEF ServerStream
  <2>5. [st EXCEPT !.close = close] \in ServerStream
    BY DEF ServerStream
  <2>6. [st EXCEPT !.ctx = yes] \in ServerStream
    BY DEF ServerStream
  <2>. QED  BY <1>0, <2>2, <2>3, <2>4, <2>5, <2>6
<1>2. ASSUME srv' = [s \in Ids |-> [srv[s] EXCEPT !.ctx = @ \/ srv[s].h # "none"]]
      PROVE  srv' \in [Ids -> ServerStream]
  <2>1. ASSUME NEW s \in Ids
        PROVE  [srv[s] EXCEPT !.ctx = @ \/ srv[s].h # "none"] \in ServerStream
    <3>1. PICK b \in BOOLEAN : b = (srv[s].ctx \/ srv[s].h # "none")
      BY Zenon
    <3>2. [srv[s] EXCEPT !.ctx = b] \in ServerStream
      BY <1>0 DEF ServerStream
    <3>. QED  BY <3>1, <3>2, Zenon
  <2>. QED  BY <1>2, <2>1
<1>3. ASSUME ServerRecv
      PROVE  srv' \in [Ids -> ServerStream]
  <2> DEFINE f == Head(c2s)
  <2>1. f \in ClientFrame
    BY <1>3, TailFacts DEF ServerRecv, TypeOK
  <2>2. f.id \in Ids /\ f.kind \in {"new", "msg", "half", "cancel", "update"}
    BY <2>1 DEF ClientFrame
  <2>3. PICK st \in ServerStream : st = srv[f.id]
    BY <1>0, <2>2
  <2>4. ASSUME NEW accepted \in BOOLEAN, createStream(f.id, accepted)
        PROVE  srv' \in [Ids -> ServerStream]
    <3>1. PICK b \in BOOLEAN : b = broken
      BY DEF TypeOK
    <3>2. PICK stat \in {Nil, "status"} : stat = "status"
      OBVIOUS
    <3>3. [st EXCEPT !.h = "run", !.ctx = b] \in ServerStream /\ [st EXCEPT !.close = "close", !.stat = stat] \in ServerStream
      BY DEF ServerStream
    <3>4. \/ srv' = [srv EXCEPT ![f.id] = [st EXCEPT !.h = "run", !.ctx = b]]
          \/ srv' = [srv EXCEPT ![f.id] = [st EXCEPT !.close = "close", !.stat = stat]]
      BY <2>3, <2>4, <3>1, <3>2, Zenon DEF createStream
    <3>. QED  BY <1>0, <3>3, <3>4
  <2>5. acceptClientFrame(f) \in ServerStream \/ f.kind = "new"
    <3>0. st.fin \in [Actors -> Finish]
      BY DEF ServerStream
    <3>1. PICK fin \in [Actors -> Finish] : fin = [st.fin EXCEPT !["loop"] = [pc |-> "half", err |-> "EOF", lock |-> FALSE]]
      BY <3>0, FinishRecords DEF Actors, Errors
    <3>2. PICK fin2 \in [Actors -> Finish] : fin2 = [st.fin EXCEPT !["loop"] = [pc |-> "cancel", err |-> "canceled", lock |-> TRUE]]
      BY <3>0, FinishRecords DEF Actors, Errors
    <3>3. PICK n \in Nat : n = st.credit + 1
      BY DEF ServerStream
    <3>4. PICK m \in Nat : m = IF st.closed THEN st.items ELSE st.items + 1
      BY DEF ServerStream
    <3>5. /\ [st EXCEPT !.fin = fin] \in ServerStream /\ [st EXCEPT !.fin = fin2] \in ServerStream
          /\ [st EXCEPT !.credit = n] \in ServerStream /\ [st EXCEPT !.items = m] \in ServerStream
      BY DEF ServerStream
    <3>. HIDE DEF f
    <3>. QED  BY <2>2, <2>3, <3>1, <3>2, <3>3, <3>4, <3>5, Zenon DEF acceptClientFrame
  <2>. HIDE DEF f
  <2>6. \/ \E accepted \in BOOLEAN : createStream(f.id, accepted)
        \/ f.kind # "new" /\ (srv' = srv \/ srv' = [srv EXCEPT ![f.id] = acceptClientFrame(f)])
        \/ srv' = [s \in Ids |-> [srv[s] EXCEPT !.ctx = @ \/ srv[s].h # "none"]]
    BY <1>3, Zenon DEF ServerRecv, EndServe, f
  <2>. QED  BY <1>0, <1>2, <2>4, <2>5, <2>6
<1>4. CASE ServerRecvEnd \/ Break
  BY <1>2, <1>4 DEF ServerRecvEnd, Break, EndServe
<1>5. CASE InitiateShutdown \/ Stop \/ HangUp
  BY <1>0, <1>5 DEF InitiateShutdown, Stop, HangUp, serverVars
<1>6. ASSUME NEW s \in Ids, ServerStreamStep(s)
      PROVE  srv' \in [Ids -> ServerStream]
  BY <1>0, <1>1, <1>6, StopType, HandlerType DEF ServerStreamStep
<1>7. CASE ChannelStep \/ \E s \in Ids : ClientStreamStep(s)
  BY <1>0, <1>7, ClientSide
<1>. QED  BY <1>3, <1>4, <1>5, <1>6, <1>7, Steps DEF ServeStep

LEMMA ChannelType ==
  ASSUME TypeOK, Next
  PROVE  /\ scn' \in Scenarios
         /\ lastStreamID' \in 0 .. MaxStreams /\ streams' \subseteq Ids
         /\ closer' \in [{"user", "loop"} -> {"no", "teardown", "section", "end"}]
<1>1. CASE ServeStep \/ \E s \in Ids : ServerStreamStep(s)
  BY <1>1, ServerSide DEF TypeOK
<1>2. ASSUME NEW s \in Ids, ClientStreamStep(s)
      PROVE  scn' = scn /\ lastStreamID' = lastStreamID /\ closer' = closer /\ streams' \subseteq streams
  BY <1>2, ClientSide, ClientStreamSide
<1>3. ASSUME NEW ok \in BOOLEAN, allocateStream(ok)
      PROVE  /\ scn' = scn /\ closer' = closer /\ lastStreamID' \in 0 .. MaxStreams
             /\ streams' \subseteq Ids
  <2>1. lastStreamID + 1 \in Ids /\ lastStreamID + 1 \in 0 .. MaxStreams
    BY <1>3, TunnelAssumption DEF allocateStream, TypeOK, Scenario, Ids
  <2>. QED  BY <1>3, <2>1 DEF allocateStream, TypeOK
<1>4. ASSUME ClientRecv \/ ClientRecvEnd \/ Close \/ \E w \in {"user", "loop"} : CloseTearDown(w) \/ CloseSection(w)
      PROVE  /\ scn' = scn /\ lastStreamID' = lastStreamID /\ (streams' = streams \/ streams' = {})
             /\ closer' \in [{"user", "loop"} -> {"no", "teardown", "section", "end"}]
  BY <1>4 DEF ClientRecv, ClientRecvEnd, Close, CloseTearDown, CloseSection, TypeOK
<1>. QED  BY <1>1, <1>2, <1>3, <1>4, Steps DEF ChannelStep, TypeOK

LEMMA ServeType ==
  ASSUME TypeOK, Next
  PROVE  lastSeen' \in -1 .. MaxStreams /\ svrStreams' \subseteq Ids
<1>1. CASE ChannelStep \/ \E s \in Ids : ClientStreamStep(s)
  BY <1>1, ClientSide DEF TypeOK
<1>2. ASSUME ServerRecv
      PROVE  lastSeen' \in -1 .. MaxStreams /\ svrStreams' \subseteq Ids
  <2> DEFINE f == Head(c2s)
  <2>1. f \in ClientFrame
    BY <1>2, TailFacts DEF ServerRecv, TypeOK
  <2>2. f.id \in Ids
    BY <2>1 DEF ClientFrame
  <2>3. f.id \in -1 .. MaxStreams
    BY <2>2, TunnelAssumption DEF Ids
  <2>. HIDE DEF f
  <2>4. \/ lastSeen' = lastSeen /\ svrStreams' = svrStreams
        \/ lastSeen' = f.id /\ (svrStreams' = svrStreams \/ svrStreams' = svrStreams \cup {f.id})
    BY <1>2, Zenon DEF ServerRecv, createStream, Seen, f
  <2>. QED  BY <2>2, <2>3, <2>4 DEF TypeOK
<1>3. CASE ServerRecvEnd \/ InitiateShutdown \/ Stop \/ HangUp \/ Break
  BY <1>3 DEF ServerRecvEnd, InitiateShutdown, Stop, HangUp, Break, serverVars, TypeOK
<1>4. ASSUME NEW s \in Ids, ServerStreamStep(s)
      PROVE  lastSeen' = lastSeen /\ svrStreams' \subseteq svrStreams
  BY <1>4, ServerStreamSide
<1>. QED  BY <1>1, <1>2, <1>3, <1>4, Steps DEF ServeStep, TypeOK

LEMMA RequestsType ==
  ASSUME TypeOK, Next
  PROVE  c2s' \in Seq(ClientFrame)
<1>0. c2s \in Seq(ClientFrame)
  BY DEF TypeOK
<1>1. ASSUME NEW s \in Ids, ClientStreamStep(s)
      PROVE  c2s' \in Seq(ClientFrame)
  <2>1. \/ c2s' = c2s
        \/ SendToServer("new", s) \/ SendToServer("cancel", s) \/ SendToServer("msg", s)
        \/ SendToServer("half", s) \/ SendToServer("update", s)
    BY <1>1 DEF ClientStreamStep, FinishStep, SendNewStream, CancelContext, Watch, FinishRemove, FinishMeta, FinishClose,
       FinishContext, FinishCancel, SendCancel, ClientSendMsg, CloseSend, ClientRecvMsg, ClientAck, ClientReadFails
  <2>. QED  BY <1>0, <2>1, SendToServerType
<1>2. CASE ChannelStep
  BY <1>0, <1>2 DEF ChannelStep, allocateStream, ClientRecv, ClientRecvEnd, Close, CloseTearDown, CloseSection
<1>3. ASSUME NEW s \in Ids, ServerStreamStep(s)
      PROVE  c2s' = c2s
  BY <1>3, ServerStreamSide
<1>4. CASE ServerRecv
  BY <1>0, <1>4, TailFacts DEF ServerRecv
<1>5. CASE ServerRecvEnd \/ InitiateShutdown \/ Stop \/ HangUp
  BY <1>0, <1>5 DEF ServerRecvEnd, InitiateShutdown, Stop, HangUp
<1>6. CASE Break
  <2>1. <<>> \in Seq(ClientFrame)
    OBVIOUS
  <2>. QED  BY <1>6, <2>1, Zenon DEF Break
<1>. QED  BY <1>0, <1>1, <1>2, <1>3, <1>4, <1>5, <1>6, Steps DEF ServeStep

LEMMA ResponsesType ==
  ASSUME TypeOK, Next
  PROVE  s2c' \in Seq(ServerFrame)
<1>0. s2c \in Seq(ServerFrame)
  BY DEF TypeOK
<1>1. ASSUME NEW s \in Ids, ClientStreamStep(s)
      PROVE  s2c' = s2c
  BY <1>1, ClientStreamSide
<1>2. CASE ClientRecv
  BY <1>0, <1>2, TailFacts DEF ClientRecv
<1>3. ASSUME NEW ok \in BOOLEAN, allocateStream(ok)
      PROVE  s2c' = s2c
  BY <1>3 DEF allocateStream
<1>4. CASE ClientRecvEnd \/ Close \/ \E w \in {"user", "loop"} : CloseTearDown(w) \/ CloseSection(w)
  BY <1>0, <1>4 DEF ClientRecvEnd, Close, CloseTearDown, CloseSection
<1>5. ASSUME NEW s \in Ids, SendClose(s)
      PROVE  s2c' \in Seq(ServerFrame)
  <2>1. srv[s].stat \in {Nil, "status"} /\ srv[s].close \in {"headers", "msg", "close"}
    BY <1>5 DEF SendClose, TypeOK, ServerStream
  <2>. QED  BY <1>0, <1>5, <2>1, SendToClientType DEF SendClose
<1>6. ASSUME NEW s \in Ids, SendHeaders(s) \/ WriteMsg(s)
      PROVE  s2c' \in Seq(ServerFrame)
  BY <1>0, <1>6, SendToClientType DEF SendHeaders, WriteMsg
<1>7. ASSUME NEW s \in Ids, ServerStreamStep(s), ~SendClose(s), ~SendHeaders(s), ~WriteMsg(s)
      PROVE  s2c' = s2c
  BY <1>7 DEF ServerStreamStep, HandlerStep, StopStep, StopCancel, StopRemove, halfClose, StopClose, StopSection, Timeout,
     CancelReceiver, HandlerLibStep, Dequeue, TakeWindow, RecvMsg, SendMsg, Return
<1>8. CASE ServerRecv \/ ServerRecvEnd \/ InitiateShutdown \/ Stop \/ HangUp
  BY <1>0, <1>8 DEF ServerRecv, ServerRecvEnd, InitiateShutdown, Stop, HangUp
<1>9. CASE Break
  <2>1. <<>> \in Seq(ServerFrame)
    OBVIOUS
  <2>. QED  BY <1>9, <2>1, Zenon DEF Break
<1>. QED  BY <1>0, <1>1, <1>2, <1>3, <1>4, <1>5, <1>6, <1>7, <1>8, <1>9, Steps DEF ChannelStep, ServeStep

\* What a step does to the flags: all but protoErr only go up.
LEMMA Flags ==
  ASSUME TypeOK, Next
  PROVE  /\ finished' \in BOOLEAN /\ isClosing' \in BOOLEAN /\ sendClosed' \in BOOLEAN /\ stopped' \in BOOLEAN
         /\ ended' \in BOOLEAN /\ broken' \in BOOLEAN /\ protoErr' \in BOOLEAN
         /\ ServerSendFails => ServerSendFails'
         /\ ClientSendFails => ClientSendFails'
<1>0. /\ finished \in BOOLEAN /\ isClosing \in BOOLEAN /\ sendClosed \in BOOLEAN /\ stopped \in BOOLEAN
      /\ ended \in BOOLEAN /\ broken \in BOOLEAN /\ protoErr \in BOOLEAN
  BY Zenon DEF TypeOK
<1>. USE DEF serverVars, netVars, clientVars, ServerSendFails, ClientSendFails
<1>1. ASSUME NEW s \in Ids, ClientStreamStep(s)
      PROVE  UNCHANGED <<finished, isClosing, sendClosed, stopped, ended, broken, protoErr>>
  BY <1>1, ClientSide, ClientStreamSide
<1>2. ASSUME NEW s \in Ids, ServerStreamStep(s)
      PROVE  UNCHANGED <<finished, isClosing, sendClosed, stopped, ended, broken, protoErr>>
  BY <1>2, ServerSide, ServerStreamSide
<1>3. ASSUME NEW ok \in BOOLEAN, allocateStream(ok)
      PROVE  UNCHANGED <<finished, isClosing, sendClosed, stopped, ended, broken, protoErr>>
  BY <1>3 DEF allocateStream
<1>4. CASE ClientRecv
  BY <1>0, <1>4, Zenon DEF ClientRecv
<1>5. ASSUME NEW w \in {"user", "loop"}, CloseTearDown(w)
      PROVE  /\ UNCHANGED <<finished, isClosing, stopped, ended, broken, protoErr>>
             /\ sendClosed' \in BOOLEAN /\ (sendClosed => sendClosed')
  BY <1>0, <1>5, Zenon DEF CloseTearDown
<1>6. ASSUME NEW w \in {"user", "loop"}, CloseSection(w)
      PROVE  /\ UNCHANGED <<isClosing, sendClosed, stopped, ended, broken, protoErr>>
             /\ finished' \in BOOLEAN
  BY <1>0, <1>6, Zenon DEF CloseSection
<1>7. CASE ClientRecvEnd \/ Close
  BY <1>0, <1>7, Zenon DEF ClientRecvEnd, Close
<1>8. CASE ServerRecv
  <2>1. UNCHANGED <<isClosing, sendClosed, stopped, broken, finished>>
    BY <1>8, Zenon DEF ServerRecv
  <2>2. (ended' = ended /\ protoErr' = protoErr) \/ (ended' = TRUE /\ protoErr' = TRUE)
    BY <1>8, Zenon DEF ServerRecv, EndServe
  <2>. QED  BY <1>0, <2>1, <2>2, Zenon
<1>9. CASE ServerRecvEnd
  BY <1>0, <1>9, Zenon DEF ServerRecvEnd, EndServe
<1>10. CASE InitiateShutdown
  BY <1>0, <1>10, Zenon DEF InitiateShutdown
<1>11. CASE Stop
  BY <1>0, <1>11, Zenon DEF Stop
<1>12. CASE HangUp
  BY <1>0, <1>12, Zenon DEF HangUp
<1>13. CASE Break
  BY <1>0, <1>13, Zenon DEF Break
<1>. QED
  BY <1>0, <1>1, <1>2, <1>3, <1>4, <1>5, <1>6, <1>7, <1>8, <1>9, <1>10, <1>11, <1>12, <1>13, Steps, Zenon
     DEF ChannelStep, ServeStep

LEMMA TypeStep ==
  ASSUME TypeOK, Next
  PROVE  TypeOK'
<1>1. {finished', isClosing', sendClosed', stopped', ended', broken', protoErr'} \subseteq BOOLEAN
  BY Flags, Zenon
<1>. QED
  BY <1>1, ClientType, ServerType, ChannelType, ServeType, RequestsType, ResponsesType, Zenon DEF TypeOK
-----------------------------------------------------------------------------
(***************************************************************************)
(* What each step of the client does to the fields of a stream.            *)
(***************************************************************************)
Only(s) == \A r \in Ids \ {s} : cli'[r] = cli[r]
Life(s) == <<cli[s].new, cli[s].watch, cli[s].ctx, cli[s].cancel>>
End(s) == <<cli[s].done, cli[s].fin, cli[s].by, cli[s].trailers, cli[s].doneSignal, cli[s].closed, cli[s].cancelled>>
Read(s) == <<cli[s].items, cli[s].headers, cli[s].rd, cli[s].err, cli[s].got>>

LEMMA SendNewStreamFields ==
  ASSUME NEW s \in Ids, cli \in [Ids -> ClientStream], SendNewStream(s)
  PROVE  /\ Only(s)
         /\ UNCHANGED <<cli[s].ctx, cli[s].cancel>>
         /\ UNCHANGED End(s)
         /\ UNCHANGED Read(s)
         /\ cli'[s].new \in {"open", "failed"}
         /\ cli'[s].new = "open" <=> ~ClientSendFails
         /\ cli'[s].watch => ~ClientSendFails
<1>1. PICK b \in BOOLEAN : b = ~ClientSendFails
  BY Zenon
<1>2. PICK x : x = IF ClientSendFails THEN "failed" ELSE "open"
  OBVIOUS
<1>3. cli' = [cli EXCEPT ![s] = [cli[s] EXCEPT !.new = x, !.watch = b]]
  BY <1>1, <1>2, Zenon DEF SendNewStream
<1>4. cli'[s].new = x /\ cli'[s].watch = b
  BY <1>3 DEF ClientStream
<1>5. /\ Only(s) /\ UNCHANGED <<cli[s].ctx, cli[s].cancel>> /\ UNCHANGED End(s)
      /\ UNCHANGED Read(s)
  BY <1>3 DEF ClientStream, Only, End, Read
<1>. QED  BY <1>1, <1>2, <1>4, <1>5

LEMMA CancelContextFields ==
  ASSUME NEW s \in Ids, cli \in [Ids -> ClientStream], CancelContext(s)
  PROVE  /\ Only(s)
         /\ UNCHANGED <<cli[s].new, cli[s].watch, cli[s].cancel>>
         /\ UNCHANGED End(s)
         /\ UNCHANGED Read(s)
         /\ cli'[s].ctx
  BY DEF CancelContext, ClientStream, Only, Life, End, Read

LEMMA FinishRemoveFields ==
  ASSUME NEW s \in Ids, cli \in [Ids -> ClientStream], FinishRemove(s)
  PROVE  /\ Only(s)
         /\ UNCHANGED Life(s)
         /\ UNCHANGED <<cli[s].done, cli[s].by, cli[s].trailers, cli[s].doneSignal, cli[s].closed, cli[s].cancelled>>
         /\ UNCHANGED Read(s)
         /\ cli'[s].fin = "meta"
  BY DEF FinishRemove, ClientStream, Only, Life, End, Read

LEMMA FinishMetaFields ==
  ASSUME NEW s \in Ids, cli \in [Ids -> ClientStream], FinishMeta(s)
  PROVE  /\ Only(s)
         /\ UNCHANGED Life(s)
         /\ UNCHANGED <<cli[s].done, cli[s].by, cli[s].closed, cli[s].cancelled>>
         /\ UNCHANGED <<cli[s].items, cli[s].rd, cli[s].err, cli[s].got>>
         /\ cli'[s].fin = "close" /\ cli'[s].doneSignal
         /\ cli'[s].trailers <=> cli[s].by = "loop"
         /\ cli'[s].headers = IF cli[s].headers = "no" THEN "none" ELSE cli[s].headers
<1>1. PICK b \in BOOLEAN : b = (cli[s].by = "loop")
  BY Zenon
<1>2. PICK x : x = IF cli[s].headers = "no" THEN "none" ELSE cli[s].headers
  OBVIOUS
<1>3. PICK yes \in BOOLEAN : yes = TRUE
  OBVIOUS
<1>4. cli' = [cli EXCEPT ![s] = [cli[s] EXCEPT !.fin = "close", !.doneSignal = yes, !.trailers = b, !.headers = x]]
  BY <1>1, <1>2, <1>3, Zenon DEF FinishMeta
<1>5. cli'[s].fin = "close" /\ cli'[s].doneSignal = yes /\ cli'[s].trailers = b /\ cli'[s].headers = x
  BY <1>4 DEF ClientStream
<1>6. /\ Only(s) /\ UNCHANGED Life(s)
      /\ UNCHANGED <<cli[s].done, cli[s].by, cli[s].closed, cli[s].cancelled>>
      /\ UNCHANGED <<cli[s].items, cli[s].rd, cli[s].err, cli[s].got>>
  BY <1>4 DEF ClientStream, Only, Life
<1>. QED  BY <1>1, <1>2, <1>3, <1>5, <1>6

LEMMA FinishCloseFields ==
  ASSUME NEW s \in Ids, cli \in [Ids -> ClientStream], FinishClose(s)
  PROVE  /\ Only(s)
         /\ UNCHANGED Life(s)
         /\ UNCHANGED <<cli[s].done, cli[s].by, cli[s].trailers, cli[s].doneSignal, cli[s].cancelled>>
         /\ UNCHANGED Read(s)
         /\ cli'[s].fin = "ctx" /\ cli'[s].closed
  BY DEF FinishClose, ClientStream, Only, Life, End, Read

LEMMA FinishContextFields ==
  ASSUME NEW s \in Ids, cli \in [Ids -> ClientStream], FinishContext(s)
  PROVE  /\ Only(s)
         /\ UNCHANGED <<cli[s].new, cli[s].watch, cli[s].cancel>>
         /\ UNCHANGED <<cli[s].done, cli[s].by, cli[s].trailers, cli[s].doneSignal, cli[s].closed, cli[s].cancelled>>
         /\ UNCHANGED Read(s)
         /\ cli'[s].fin = IF cli[s].by = "loop" THEN "end" ELSE "cancel"
         /\ cli'[s].ctx
  BY DEF FinishContext, ClientStream, Only, Life, End, Read

LEMMA FinishCancelFields ==
  ASSUME NEW s \in Ids, cli \in [Ids -> ClientStream], FinishCancel(s)
  PROVE  /\ Only(s)
         /\ UNCHANGED <<cli[s].new, cli[s].watch, cli[s].ctx>>
         /\ UNCHANGED <<cli[s].done, cli[s].by, cli[s].trailers, cli[s].doneSignal, cli[s].closed>>
         /\ UNCHANGED <<cli[s].headers, cli[s].rd, cli[s].err, cli[s].got>>
         /\ cli'[s].fin = "end" /\ cli'[s].cancelled /\ cli'[s].items = 0 /\ cli'[s].cancel = "pending"
  BY DEF FinishCancel, ClientStream, Only, Life, End, Read

LEMMA SendCancelFields ==
  ASSUME NEW s \in Ids, cli \in [Ids -> ClientStream], SendCancel(s)
  PROVE  /\ Only(s)
         /\ UNCHANGED <<cli[s].new, cli[s].watch, cli[s].ctx>>
         /\ UNCHANGED End(s)
         /\ UNCHANGED Read(s)
         /\ cli'[s].cancel = "sent"
  BY DEF SendCancel, ClientStream, Only, Life, End, Read

LEMMA SendFields ==
  ASSUME NEW s \in Ids, cli \in [Ids -> ClientStream], ClientSendMsg(s) \/ CloseSend(s)
  PROVE  /\ Only(s)
         /\ UNCHANGED Life(s)
         /\ UNCHANGED End(s)
         /\ UNCHANGED Read(s)
  BY DEF ClientSendMsg, CloseSend, ClientStream, Only, Life, End, Read

LEMMA AckFields ==
  ASSUME NEW s \in Ids, cli \in [Ids -> ClientStream], ClientAck(s)
  PROVE  /\ Only(s)
         /\ UNCHANGED Life(s)
         /\ UNCHANGED End(s)
         /\ UNCHANGED <<cli[s].items, cli[s].headers, cli[s].err>>
         /\ \/ cli[s].rd = "update" /\ cli'[s].rd = "ready" /\ cli'[s].got = cli[s].got + 1
            \/ cli[s].rd = "update" /\ cli'[s].rd = "second" /\ cli'[s].got = cli[s].got
            \/ cli[s].rd = "update2" /\ cli'[s].rd = "failed" /\ cli'[s].got = cli[s].got
  BY DEF ClientAck, ClientStream, Only, Life, End, Read

LEMMA RecvMsgFields ==
  ASSUME NEW s \in Ids, cli \in [Ids -> ClientStream], ClientRecvMsg(s)
  PROVE  /\ Only(s)
         /\ UNCHANGED Life(s)
         /\ UNCHANGED End(s)
         /\ UNCHANGED <<cli[s].headers>>
         /\ \/ /\ ~cli[s].cancelled /\ cli[s].items > 0
               /\ cli'[s].items = cli[s].items - 1 /\ cli'[s].err = cli[s].err /\ cli'[s].got = cli[s].got
               /\ \/ cli[s].rd = "ready" /\ cli'[s].rd = "update"
                  \/ cli[s].rd = "second" /\ cli'[s].rd = "update2"
            \/ /\ cli[s].cancelled \/ (cli[s].items = 0 /\ cli[s].closed)
               /\ cli'[s].items = cli[s].items /\ cli'[s].err = cli[s].done /\ cli'[s].rd = "ready"
               /\ \/ cli[s].rd = "second" /\ cli[s].done = "EOF" /\ cli'[s].got = cli[s].got + 1
                  \/ (cli[s].rd = "ready" \/ cli[s].done # "EOF") /\ cli'[s].got = cli[s].got
<1>0. PICK st \in ClientStream : st = cli[s]
  OBVIOUS
<1>1. CASE /\ ~cli[s].cancelled /\ cli[s].items > 0
           /\ cli' = [cli EXCEPT ![s] =
                [cli[s] EXCEPT !.items = @ - 1, !.rd = IF @ = "ready" THEN "update" ELSE "update2"]]
  <2>1. PICK n \in Int, x \in {"update", "update2"} : n = st.items - 1 /\ x = IF st.rd = "ready" THEN "update" ELSE "update2"
    BY DEF ClientStream
  <2>2. cli' = [cli EXCEPT ![s] = [st EXCEPT !.items = n, !.rd = x]]
    BY <1>0, <1>1, <2>1, Zenon
  <2>3. cli'[s].items = n /\ cli'[s].rd = x /\ cli'[s].err = cli[s].err /\ cli'[s].got = cli[s].got
    BY <1>0, <2>2 DEF ClientStream
  <2>4. Only(s) /\ UNCHANGED Life(s) /\ UNCHANGED End(s) /\ cli'[s].headers = cli[s].headers
    BY <1>0, <2>2 DEF ClientStream, Only, Life, End
  <2>5. cli[s].rd \in {"ready", "second"}
    BY DEF ClientRecvMsg
  <2>. QED  BY <1>0, <1>1, <2>1, <2>3, <2>4, <2>5
<1>2. CASE /\ cli[s].cancelled \/ (cli[s].items = 0 /\ cli[s].closed)
           /\ cli' = [cli EXCEPT ![s] =
                [cli[s] EXCEPT !.err = cli[s].done, !.rd = "ready",
                               !.got = IF cli[s].rd = "second" /\ cli[s].done = "EOF" THEN @ + 1 ELSE @]]
  <2>1. PICK n : n = IF st.rd = "second" /\ st.done = "EOF" THEN st.got + 1 ELSE st.got
    OBVIOUS
  <2>2. cli' = [cli EXCEPT ![s] = [st EXCEPT !.err = st.done, !.rd = "ready", !.got = n]]
    BY <1>0, <1>2, <2>1, Zenon
  <2>3. cli'[s].items = cli[s].items /\ cli'[s].rd = "ready" /\ cli'[s].err = cli[s].done /\ cli'[s].got = n
    BY <1>0, <2>2 DEF ClientStream
  <2>4. Only(s) /\ UNCHANGED Life(s) /\ UNCHANGED End(s) /\ cli'[s].headers = cli[s].headers
    BY <1>0, <2>2 DEF ClientStream, Only, Life, End
  <2>5. cli[s].rd \in {"ready", "second"}
    BY DEF ClientRecvMsg
  <2>. QED  BY <1>0, <1>2, <2>1, <2>3, <2>4, <2>5
<1>. QED  BY <1>1, <1>2 DEF ClientRecvMsg

LEMMA WatchFields ==
  ASSUME NEW s \in Ids, cli \in [Ids -> ClientStream], Watch(s)
  PROVE  /\ Only(s)
         /\ UNCHANGED <<cli[s].new, cli[s].ctx, cli[s].cancel>>
         /\ UNCHANGED <<cli[s].trailers, cli[s].doneSignal, cli[s].closed, cli[s].cancelled>>
         /\ UNCHANGED Read(s)
         /\ ~cli'[s].watch
         /\ \/ cli[s].done # Nil /\ UNCHANGED <<cli[s].done, cli[s].fin, cli[s].by>>
            \/ cli[s].done = Nil /\ cli'[s].done = "canceled" /\ cli'[s].fin = "remove" /\ cli'[s].by = "watch"
<1>1. PICK f \in ClientStream : f = finishStream(s, "watch", "canceled")
  BY finishStreamFacts DEF Errors
<1>2. PICK no \in BOOLEAN : no = FALSE
  OBVIOUS
<1>3. cli' = [cli EXCEPT ![s] = [f EXCEPT !.watch = no]]
  BY <1>1, <1>2, Zenon DEF Watch
<1>4. cli'[s] = [f EXCEPT !.watch = no] /\ Only(s)
  BY <1>3 DEF Only
<1>5. /\ UNCHANGED <<cli[s].new, cli[s].ctx, cli[s].cancel, cli[s].items, cli[s].headers, cli[s].got>>
      /\ UNCHANGED <<cli[s].trailers, cli[s].doneSignal, cli[s].closed, cli[s].cancelled>>
  BY <1>1, <1>4, finishStreamFacts DEF ClientStream, Errors
<1>6. cli'[s].done = f.done /\ cli'[s].fin = f.fin /\ cli'[s].by = f.by
  BY <1>4 DEF ClientStream
<1>7. cli'[s].watch = FALSE /\ UNCHANGED <<cli[s].rd, cli[s].err>>
  BY <1>1, <1>2, <1>4, finishStreamFacts DEF ClientStream, Errors
<1>8. \/ cli[s].done # Nil /\ f = cli[s]
      \/ cli[s].done = Nil /\ f.done = "canceled" /\ f.fin = "remove" /\ f.by = "watch"
  BY <1>1, finishStreamFacts DEF Errors
<1>. QED  BY <1>4, <1>5, <1>6, <1>7, <1>8 DEF Life, End, Read

LEMMA ClientReadFailsFields ==
  ASSUME NEW s \in Ids, cli \in [Ids -> ClientStream], ClientReadFails(s)
  PROVE  /\ Only(s)
         /\ UNCHANGED Life(s)
         /\ UNCHANGED <<cli[s].trailers, cli[s].doneSignal, cli[s].closed, cli[s].cancelled>>
         /\ UNCHANGED <<cli[s].items, cli[s].headers, cli[s].got>>
         /\ cli'[s].rd = "ready" /\ cli'[s].err = "multiple"
         /\ \/ cli[s].done # Nil /\ UNCHANGED <<cli[s].done, cli[s].fin, cli[s].by>>
            \/ cli[s].done = Nil /\ cli'[s].done = "multiple" /\ cli'[s].fin = "remove" /\ cli'[s].by = "reader"
<1>1. PICK f \in ClientStream : f = finishStream(s, "reader", "multiple")
  BY finishStreamFacts DEF Errors
<1>3. cli' = [cli EXCEPT ![s] = [f EXCEPT !.rd = "ready", !.err = "multiple"]]
  BY <1>1, Zenon DEF ClientReadFails
<1>4. cli'[s] = [f EXCEPT !.rd = "ready", !.err = "multiple"] /\ Only(s)
  BY <1>3 DEF Only
<1>5. /\ UNCHANGED <<cli[s].new, cli[s].ctx, cli[s].cancel, cli[s].items, cli[s].headers, cli[s].got>>
      /\ UNCHANGED <<cli[s].trailers, cli[s].doneSignal, cli[s].closed, cli[s].cancelled>>
  BY <1>1, <1>4, finishStreamFacts DEF ClientStream, Errors
<1>6. cli'[s].done = f.done /\ cli'[s].fin = f.fin /\ cli'[s].by = f.by
  BY <1>4 DEF ClientStream
<1>7. cli'[s].rd = "ready" /\ cli'[s].err = "multiple" /\ UNCHANGED cli[s].watch
  BY <1>1, <1>4, finishStreamFacts DEF ClientStream, Errors
<1>8. \/ cli[s].done # Nil /\ f = cli[s]
      \/ cli[s].done = Nil /\ f.done = "multiple" /\ f.fin = "remove" /\ f.by = "reader"
  BY <1>1, finishStreamFacts DEF Errors
<1>. QED  BY <1>4, <1>5, <1>6, <1>7, <1>8 DEF Life, End, Read

LEMMA allocateFields ==
  ASSUME NEW ok \in BOOLEAN, NEW s \in Ids, s = lastStreamID + 1, cli \in [Ids -> ClientStream], allocateStream(ok)
  PROVE  /\ Only(s)
         /\ UNCHANGED <<cli[s].watch, cli[s].ctx, cli[s].cancel>> /\ UNCHANGED End(s) /\ UNCHANGED Read(s)
         /\ cli'[s].new = IF ok THEN "alloc" ELSE "failed"
<1>1. PICK x : x = IF ok THEN "alloc" ELSE "failed"
  OBVIOUS
<1>2. cli' = [cli EXCEPT ![s] = [cli[s] EXCEPT !.new = x]]
  BY <1>1, Zenon DEF allocateStream
<1>. QED  BY <1>1, <1>2 DEF ClientStream, Only, End, Read

LEMMA CloseSectionFields ==
  ASSUME NEW w, NEW s \in Ids, cli \in [Ids -> ClientStream], CloseSection(w)
  PROVE  /\ UNCHANGED <<cli[s].new, cli[s].watch, cli[s].cancel>> /\ UNCHANGED End(s) /\ UNCHANGED Read(s)
         /\ cli[s].ctx => cli'[s].ctx
<1>1. PICK b \in BOOLEAN : b = (cli[s].ctx \/ (~finished /\ s \in streams))
  BY Zenon
<1>2. cli'[s] = [cli[s] EXCEPT !.ctx = b]
  BY <1>1, Zenon DEF CloseSection
<1>3. cli'[s].ctx = b
  BY <1>2 DEF ClientStream
<1>4. UNCHANGED <<cli[s].new, cli[s].watch, cli[s].cancel>> /\ UNCHANGED End(s) /\ UNCHANGED Read(s)
  BY <1>2 DEF ClientStream, End, Read
<1>. QED  BY <1>1, <1>3, <1>4
-----------------------------------------------------------------------------
(***************************************************************************)
(* The invariant step by step.                                             *)
(***************************************************************************)
\* What a frame does to its stream.
Received(f) ==
  \/ /\ f.kind = "headers"
     /\ \E x \in {"none", "some"} : cli' = [cli EXCEPT ![f.id].headers = x]
  \/ /\ f.kind = "msg" /\ ~cli[f.id].closed
     /\ cli' = [cli EXCEPT ![f.id].items = cli[f.id].items + 1]
  \/ /\ f.kind = "msg" => cli[f.id].closed
     /\ f.kind = "close" => cli[f.id].done # Nil
     /\ f.kind # "headers"
     /\ cli' = cli
  \/ /\ f.kind = "close" /\ cli[f.id].done = Nil
     /\ \E e \in {"EOF", "status"} :
          /\ e = "EOF" <=> f.stat = Nil
          /\ cli' = [cli EXCEPT ![f.id] = [cli[f.id] EXCEPT !.done = e, !.fin = "remove", !.by = "loop"]]

LEMMA ReceiveCases ==
  ASSUME TypeOK, ClientRecv
  PROVE  LET f == Head(s2c) IN
         /\ f \in ServerFrame /\ f.id \in Ids /\ f.kind \in {"headers", "msg", "close"}
         /\ s2c # <<>> /\ 1 \in Frames(s2c) /\ f = s2c[1] /\ s2c' = Tail(s2c)
         /\ UNCHANGED <<scn, lastStreamID, streams, finished, c2s>>
         /\ \/ f.id \notin streams /\ cli' = cli
            \/ f.id \in streams /\ Received(f)
<1> DEFINE f == Head(s2c)
<1>0. cli \in [Ids -> ClientStream]
  BY DEF TypeOK
<1>1. f \in ServerFrame /\ f = s2c[1] /\ 1 \in Frames(s2c)
  BY TailFacts DEF ClientRecv, TypeOK
<1>2. f.id \in Ids /\ f.kind \in {"headers", "msg", "close"} /\ f.stat \in {Nil, "status"}
  BY <1>1 DEF ServerFrame
<1>3. /\ s2c # <<>> /\ s2c' = Tail(s2c) /\ UNCHANGED <<scn, lastStreamID, streams, finished, c2s>>
      /\ cli' = IF f.id \in streams THEN [cli EXCEPT ![f.id] = acceptServerFrame(f)] ELSE cli
  BY DEF ClientRecv
<1>. HIDE DEF f
<1>4. PICK st \in ClientStream : st = cli[f.id]
  BY <1>0, <1>2
<1>5. ASSUME f.id \in streams, f.kind = "headers"
      PROVE  Received(f)
  <2>1. PICK x \in {"none", "some"} : x = IF st.headers = "no" THEN "some" ELSE st.headers
    BY DEF ClientStream
  <2>2. cli' = [cli EXCEPT ![f.id].headers = x]
    BY <1>3, <1>4, <1>5, <2>1, Zenon DEF acceptServerFrame
  <2>. QED  BY <1>5, <2>2 DEF Received
<1>6. ASSUME f.id \in streams, f.kind = "msg"
      PROVE  Received(f)
  <2>1. acceptServerFrame(f) = [st EXCEPT !.items = IF st.closed THEN @ ELSE @ + 1]
    BY <1>4, <1>6, Zenon DEF acceptServerFrame
  <2>2. CASE st.closed
    <3>1. acceptServerFrame(f) = st
      BY <2>1, <2>2 DEF ClientStream
    <3>2. cli' = cli
      BY <1>0, <1>2, <1>3, <1>4, <1>6, <3>1
    <3>. QED  BY <1>4, <1>6, <2>2, <3>2 DEF Received
  <2>3. CASE ~st.closed
    <3>1. cli' = [cli EXCEPT ![f.id].items = cli[f.id].items + 1]
      BY <1>3, <1>4, <1>6, <2>1, <2>3, Zenon
    <3>. QED  BY <1>4, <1>6, <2>3, <3>1 DEF Received
  <2>. QED  BY <2>2, <2>3
<1>7. ASSUME f.id \in streams, f.kind = "close"
      PROVE  Received(f)
  <2>1. PICK e \in {"EOF", "status"} : e = IF f.stat = Nil THEN "EOF" ELSE "status"
    OBVIOUS
  <2>2. acceptServerFrame(f) = finishStream(f.id, "loop", e)
    BY <1>7, <2>1, Zenon DEF acceptServerFrame
  <2>3. CASE st.done # Nil
    <3>1. cli' = cli
      BY <1>0, <1>2, <1>3, <1>4, <1>7, <2>2, <2>3 DEF finishStream
    <3>. QED  BY <1>4, <1>7, <2>3, <3>1 DEF Received
  <2>4. CASE st.done = Nil
    <3>1. cli' = [cli EXCEPT ![f.id] = [cli[f.id] EXCEPT !.done = e, !.fin = "remove", !.by = "loop"]]
      BY <1>3, <1>4, <1>7, <2>2, <2>4, Zenon DEF finishStream
    <3>2. e = "EOF" <=> f.stat = Nil
      BY <2>1
    <3>. QED  BY <1>4, <1>7, <2>4, <3>1, <3>2 DEF Received
  <2>. QED  BY <2>3, <2>4
<1>. QED  BY <1>1, <1>2, <1>3, <1>5, <1>6, <1>7 DEF f

LEMMA ReceivedFields ==
  ASSUME NEW f, NEW s \in Ids, s = f.id, cli \in [Ids -> ClientStream], Received(f)
  PROVE  /\ Only(s) /\ UNCHANGED Life(s)
         /\ UNCHANGED <<cli[s].trailers, cli[s].doneSignal, cli[s].closed, cli[s].cancelled>>
         /\ UNCHANGED <<cli[s].rd, cli[s].err, cli[s].got>>
         /\ \/ /\ f.kind = "headers" /\ cli'[s].headers # "no"
               /\ UNCHANGED <<cli[s].items, cli[s].done, cli[s].fin, cli[s].by>>
            \/ /\ f.kind = "msg" /\ ~cli[s].closed /\ cli'[s].items = cli[s].items + 1
               /\ UNCHANGED <<cli[s].headers, cli[s].done, cli[s].fin, cli[s].by>>
            \/ /\ f.kind # "headers" /\ (f.kind = "msg" => cli[s].closed)
               /\ f.kind = "close" => cli[s].done # Nil
               /\ UNCHANGED <<cli[s].headers, cli[s].items, cli[s].done, cli[s].fin, cli[s].by>>
            \/ /\ f.kind = "close" /\ cli[s].done = Nil
               /\ cli'[s].done \in {"EOF", "status"} /\ (cli'[s].done = "EOF" <=> f.stat = Nil)
               /\ cli'[s].fin = "remove" /\ cli'[s].by = "loop"
               /\ UNCHANGED <<cli[s].headers, cli[s].items>>
<1>1. CASE f.kind = "headers"
  <2>1. PICK x \in {"none", "some"} : cli' = [cli EXCEPT ![s] = [cli[s] EXCEPT !.headers = x]]
    BY <1>1 DEF Received
  <2>. QED  BY <1>1, <2>1 DEF ClientStream, Only, Life
<1>2. CASE f.kind = "msg" /\ ~cli[s].closed
  <2>1. cli' = [cli EXCEPT ![s] = [cli[s] EXCEPT !.items = cli[s].items + 1]]
    BY <1>2 DEF Received
  <2>. QED  BY <1>2, <2>1 DEF ClientStream, Only, Life
<1>3. CASE f.kind # "headers" /\ cli' = cli /\ (f.kind = "msg" => cli[s].closed) /\ (f.kind = "close" => cli[s].done # Nil)
  BY <1>3 DEF Only, Life
<1>4. CASE f.kind = "close" /\ cli[s].done = Nil
  <2>1. PICK e \in {"EOF", "status"} :
           /\ e = "EOF" <=> f.stat = Nil
           /\ cli' = [cli EXCEPT ![s] = [cli[s] EXCEPT !.done = e, !.fin = "remove", !.by = "loop"]]
    BY <1>4 DEF Received
  <2>2. /\ cli'[s].done = e /\ cli'[s].fin = "remove" /\ cli'[s].by = "loop"
        /\ Only(s) /\ UNCHANGED Life(s)
        /\ UNCHANGED <<cli[s].trailers, cli[s].doneSignal, cli[s].closed, cli[s].cancelled>>
        /\ UNCHANGED <<cli[s].rd, cli[s].err, cli[s].got, cli[s].headers, cli[s].items>>
    BY <2>1 DEF ClientStream, Only, Life
  <2>. QED  BY <1>4, <2>1, <2>2
<1>. QED  BY <1>1, <1>2, <1>3, <1>4 DEF Received

LEMMA CreationStep ==
  ASSUME IInv, Next, TypeOK'
  PROVE  Creation'
<1>0. cli \in [Ids -> ClientStream] /\ lastStreamID \in Nat /\ Ids \subseteq Nat
  BY TunnelAssumption DEF IInv, TypeOK, Ids
<1>a. Creation
  BY DEF IInv
<1>1. ASSUME NEW s \in Ids, SendNewStream(s)
      PROVE  Creation'
  <2>1. cli[s].new = "alloc" /\ UNCHANGED <<scn, lastStreamID>> /\ streams' = IF ClientSendFails THEN streams \ {s} ELSE streams
    BY <1>1 DEF SendNewStream
  <2>2. CreationOf(s)'
    BY <1>0, <1>a, <1>1, <2>1, SendNewStreamFields DEF Creation, CreationOf, Life, End, Read
  <2>3. Only(s)
    BY <1>0, <1>1, SendNewStreamFields
  <2>. QED  BY <1>a, <2>1, <2>2, <2>3 DEF Creation, CreationOf, Only
<1>2. ASSUME NEW s \in Ids, CancelContext(s)
      PROVE  Creation'
  <2>1. UNCHANGED <<scn, lastStreamID, streams>>
    BY <1>2 DEF CancelContext
  <2>2. CreationOf(s)'
    BY <1>0, <1>a, <1>2, <2>1, CancelContextFields DEF Creation, CreationOf, Life, End, Read
  <2>3. Only(s)
    BY <1>0, <1>2, CancelContextFields
  <2>. QED  BY <1>a, <2>1, <2>2, <2>3 DEF Creation, CreationOf, Only
<1>3. ASSUME NEW s \in Ids, FinishRemove(s)
      PROVE  Creation'
  <2>1. cli[s].fin = "remove" /\ UNCHANGED <<scn, lastStreamID>> /\ streams' = streams \ {s}
    BY <1>3 DEF FinishRemove
  <2>2. CreationOf(s)'
    BY <1>0, <1>a, <1>3, <2>1, FinishRemoveFields DEF Creation, CreationOf, Life, End, Read
  <2>3. Only(s)
    BY <1>0, <1>3, FinishRemoveFields
  <2>. QED  BY <1>a, <2>1, <2>2, <2>3 DEF Creation, CreationOf, Only
<1>4. ASSUME NEW s \in Ids, FinishMeta(s)
      PROVE  Creation'
  <2>1. cli[s].fin = "meta" /\ UNCHANGED <<scn, lastStreamID, streams>>
    BY <1>4 DEF FinishMeta
  <2>2. CreationOf(s)'
    BY <1>0, <1>a, <1>4, <2>1, FinishMetaFields DEF Creation, CreationOf, Life, End, Read
  <2>3. Only(s)
    BY <1>0, <1>4, FinishMetaFields
  <2>. QED  BY <1>a, <2>1, <2>2, <2>3 DEF Creation, CreationOf, Only
<1>5. ASSUME NEW s \in Ids, FinishClose(s)
      PROVE  Creation'
  <2>1. cli[s].fin = "close" /\ UNCHANGED <<scn, lastStreamID, streams>>
    BY <1>5 DEF FinishClose
  <2>2. CreationOf(s)'
    BY <1>0, <1>a, <1>5, <2>1, FinishCloseFields DEF Creation, CreationOf, Life, End, Read
  <2>3. Only(s)
    BY <1>0, <1>5, FinishCloseFields
  <2>. QED  BY <1>a, <2>1, <2>2, <2>3 DEF Creation, CreationOf, Only
<1>6. ASSUME NEW s \in Ids, FinishContext(s)
      PROVE  Creation'
  <2>1. cli[s].fin = "ctx" /\ UNCHANGED <<scn, lastStreamID, streams>>
    BY <1>6 DEF FinishContext
  <2>2. CreationOf(s)'
    BY <1>0, <1>a, <1>6, <2>1, FinishContextFields DEF Creation, CreationOf, Life, End, Read
  <2>3. Only(s)
    BY <1>0, <1>6, FinishContextFields
  <2>. QED  BY <1>a, <2>1, <2>2, <2>3 DEF Creation, CreationOf, Only
<1>7. ASSUME NEW s \in Ids, FinishCancel(s)
      PROVE  Creation'
  <2>1. cli[s].fin = "cancel" /\ UNCHANGED <<scn, lastStreamID, streams>>
    BY <1>7 DEF FinishCancel
  <2>2. CreationOf(s)'
    BY <1>0, <1>a, <1>7, <2>1, FinishCancelFields DEF Creation, CreationOf, Life, End, Read
  <2>3. Only(s)
    BY <1>0, <1>7, FinishCancelFields
  <2>. QED  BY <1>a, <2>1, <2>2, <2>3 DEF Creation, CreationOf, Only
<1>8. ASSUME NEW s \in Ids, SendCancel(s)
      PROVE  Creation'
  <2>1. cli[s].cancel = "pending" /\ UNCHANGED <<scn, lastStreamID, streams>>
    BY <1>8 DEF SendCancel
  <2>2. CreationOf(s)'
    BY <1>0, <1>a, <1>8, <2>1, SendCancelFields DEF Creation, CreationOf, Life, End, Read
  <2>3. Only(s)
    BY <1>0, <1>8, SendCancelFields
  <2>. QED  BY <1>a, <2>1, <2>2, <2>3 DEF Creation, CreationOf, Only
<1>9. ASSUME NEW s \in Ids, ClientSendMsg(s) \/ CloseSend(s)
      PROVE  Creation'
  <2>1. UNCHANGED <<scn, lastStreamID, streams>>
    BY <1>9 DEF ClientSendMsg, CloseSend
  <2>2. CreationOf(s)'
    BY <1>0, <1>a, <1>9, <2>1, SendFields DEF Creation, CreationOf, Life, End, Read
  <2>3. Only(s)
    BY <1>0, <1>9, SendFields
  <2>. QED  BY <1>a, <2>1, <2>2, <2>3 DEF Creation, CreationOf, Only
<1>10. ASSUME NEW s \in Ids, ClientAck(s)
      PROVE  Creation'
  <2>1. UNCHANGED <<scn, lastStreamID, streams>>
    BY <1>10 DEF ClientAck
  <2>2. CreationOf(s)'
    BY <1>0, <1>a, <1>10, <2>1, AckFields DEF Creation, CreationOf, Life, End, Read
  <2>3. Only(s)
    BY <1>0, <1>10, AckFields
  <2>. QED  BY <1>a, <2>1, <2>2, <2>3 DEF Creation, CreationOf, Only
<1>11. ASSUME NEW s \in Ids, ClientRecvMsg(s)
      PROVE  Creation'
  <2>1. cli[s].new = "open" /\ cli[s].err = Nil /\ UNCHANGED <<scn, lastStreamID, streams>>
    BY <1>11 DEF ClientRecvMsg
  <2>2. CreationOf(s)'
    BY <1>0, <1>a, <1>11, <2>1, RecvMsgFields DEF Creation, CreationOf, Life, End, Read
  <2>3. Only(s)
    BY <1>0, <1>11, RecvMsgFields
  <2>. QED  BY <1>a, <2>1, <2>2, <2>3 DEF Creation, CreationOf, Only
<1>12. ASSUME NEW s \in Ids, Watch(s)
      PROVE  Creation'
  <2>1. cli[s].watch /\ cli[s].ctx /\ UNCHANGED <<scn, lastStreamID, streams>>
    BY <1>12 DEF Watch
  <2>2. CreationOf(s)'
    BY <1>0, <1>a, <1>12, <2>1, WatchFields DEF Creation, CreationOf, Life, End, Read
  <2>3. Only(s)
    BY <1>0, <1>12, WatchFields
  <2>. QED  BY <1>a, <2>1, <2>2, <2>3 DEF Creation, CreationOf, Only
<1>13. ASSUME NEW s \in Ids, ClientReadFails(s)
      PROVE  Creation'
  <2>1. cli[s].rd = "failed" /\ UNCHANGED <<scn, lastStreamID, streams>>
    BY <1>13 DEF ClientReadFails
  <2>2. CreationOf(s)'
    BY <1>0, <1>a, <1>13, <2>1, ClientReadFailsFields DEF Creation, CreationOf, Life, End, Read
  <2>3. Only(s)
    BY <1>0, <1>13, ClientReadFailsFields
  <2>. QED  BY <1>a, <2>1, <2>2, <2>3 DEF Creation, CreationOf, Only
<1>20. ASSUME NEW ok \in BOOLEAN, allocateStream(ok)
      PROVE  Creation'
  <2>1. PICK s \in Ids : s = lastStreamID + 1 /\ s <= scn.streams /\ scn.streams \in Nat
    BY <1>20, TunnelAssumption DEF IInv, allocateStream, TypeOK, Scenario, Ids
  <2>2. /\ \A r \in Ids : cli[r].new # "alloc"
        /\ lastStreamID' = s /\ scn' = scn /\ streams' = IF ok THEN streams \cup {s} ELSE streams
    BY <1>20, <2>1 DEF allocateStream, CreationUnlocked
  <2>. QED  BY <1>0, <1>a, <1>20, <2>1, <2>2, allocateFields DEF Creation, CreationOf, Only, End, Read
<1>21. ASSUME ClientRecv
      PROVE  Creation'
  <2>0. TypeOK
    BY DEF IInv
  <2>1. PICK f : /\ f.id \in Ids /\ 1 \in Frames(s2c) /\ f = s2c[1] /\ UNCHANGED <<scn, lastStreamID, streams>>
                 /\ (f.id \notin streams /\ cli' = cli) \/ (f.id \in streams /\ Received(f))
    BY <1>21, <2>0, ReceiveCases
  <2>2. PICK s \in Ids : s = f.id
    BY <2>1
  <2>3. CASE f.id \in streams /\ Received(f)
    <3>1. cli[s].new = "open"
      BY <2>1, <2>2 DEF IInv, Responses, Registered
    <3>. QED  BY <1>0, <1>a, <2>1, <2>2, <2>3, <3>1, ReceivedFields DEF Creation, CreationOf, Only, Life
  <2>. QED  BY <1>a, <2>1, <2>3 DEF Creation, CreationOf
<1>22. CASE ClientRecvEnd \/ Close \/ \E w \in {"user", "loop"} : CloseTearDown(w)
  BY <1>a, <1>22 DEF Creation, CreationOf, ClientRecvEnd, Close, CloseTearDown
<1>23. ASSUME NEW w \in {"user", "loop"}, CloseSection(w)
      PROVE  Creation'
  <2>1. UNCHANGED <<scn, lastStreamID>> /\ streams' = {}
    BY <1>23 DEF CloseSection
  <2>. QED  BY <1>0, <1>a, <1>23, <2>1, CloseSectionFields DEF Creation, CreationOf, End, Read
<1>24. CASE ServeStep \/ \E s \in Ids : ServerStreamStep(s)
  BY <1>a, <1>24, ServerSide DEF Creation, CreationOf
<1>. QED
  BY <1>1, <1>2, <1>3, <1>4, <1>5, <1>6, <1>7, <1>8, <1>9, <1>10, <1>11, <1>12, <1>13,
     <1>20, <1>21, <1>22, <1>23, <1>24, Steps DEF ClientStreamStep, FinishStep, ChannelStep

LEMMA FinishingStep ==
  ASSUME IInv, Next, TypeOK'
  PROVE  Finishing'
<1>0. cli \in [Ids -> ClientStream] /\ lastStreamID \in Nat /\ Ids \subseteq Nat
  BY TunnelAssumption DEF IInv, TypeOK, Ids
<1>a. Finishing /\ Creation
  BY DEF IInv
<1>1. ASSUME NEW s \in Ids, SendNewStream(s)
      PROVE  Finishing'
  <2>1. cli[s].new = "alloc" /\ UNCHANGED <<scn, lastStreamID>> /\ streams' = IF ClientSendFails THEN streams \ {s} ELSE streams
    BY <1>1 DEF SendNewStream
  <2>2. FinishingOf(s)'
    BY <1>0, <1>a, <1>1, <2>1, SendNewStreamFields DEF Finishing, FinishingOf, Creation, CreationOf, Life, End, Read
  <2>3. Only(s)
    BY <1>0, <1>1, SendNewStreamFields
  <2>. QED  BY <1>a, <2>1, <2>2, <2>3 DEF Finishing, FinishingOf, Creation, CreationOf, Only
<1>2. ASSUME NEW s \in Ids, CancelContext(s)
      PROVE  Finishing'
  <2>1. UNCHANGED <<scn, lastStreamID, streams>>
    BY <1>2 DEF CancelContext
  <2>2. FinishingOf(s)'
    BY <1>0, <1>a, <1>2, <2>1, CancelContextFields DEF Finishing, FinishingOf, Creation, CreationOf, Life, End, Read
  <2>3. Only(s)
    BY <1>0, <1>2, CancelContextFields
  <2>. QED  BY <1>a, <2>1, <2>2, <2>3 DEF Finishing, FinishingOf, Creation, CreationOf, Only
<1>3. ASSUME NEW s \in Ids, FinishRemove(s)
      PROVE  Finishing'
  <2>1. cli[s].fin = "remove" /\ UNCHANGED <<scn, lastStreamID>> /\ streams' = streams \ {s}
    BY <1>3 DEF FinishRemove
  <2>2. FinishingOf(s)'
    BY <1>0, <1>a, <1>3, <2>1, FinishRemoveFields DEF Finishing, FinishingOf, Creation, CreationOf, Life, End, Read
  <2>3. Only(s)
    BY <1>0, <1>3, FinishRemoveFields
  <2>. QED  BY <1>a, <2>1, <2>2, <2>3 DEF Finishing, FinishingOf, Creation, CreationOf, Only
<1>4. ASSUME NEW s \in Ids, FinishMeta(s)
      PROVE  Finishing'
  <2>1. cli[s].fin = "meta" /\ UNCHANGED <<scn, lastStreamID, streams>>
    BY <1>4 DEF FinishMeta
  <2>2. FinishingOf(s)'
    BY <1>0, <1>a, <1>4, <2>1, FinishMetaFields DEF Finishing, FinishingOf, Creation, CreationOf, Life, End, Read
  <2>3. Only(s)
    BY <1>0, <1>4, FinishMetaFields
  <2>. QED  BY <1>a, <2>1, <2>2, <2>3 DEF Finishing, FinishingOf, Creation, CreationOf, Only
<1>5. ASSUME NEW s \in Ids, FinishClose(s)
      PROVE  Finishing'
  <2>1. cli[s].fin = "close" /\ UNCHANGED <<scn, lastStreamID, streams>>
    BY <1>5 DEF FinishClose
  <2>2. FinishingOf(s)'
    BY <1>0, <1>a, <1>5, <2>1, FinishCloseFields DEF Finishing, FinishingOf, Creation, CreationOf, Life, End, Read
  <2>3. Only(s)
    BY <1>0, <1>5, FinishCloseFields
  <2>. QED  BY <1>a, <2>1, <2>2, <2>3 DEF Finishing, FinishingOf, Creation, CreationOf, Only
<1>6. ASSUME NEW s \in Ids, FinishContext(s)
      PROVE  Finishing'
  <2>1. cli[s].fin = "ctx" /\ UNCHANGED <<scn, lastStreamID, streams>>
    BY <1>6 DEF FinishContext
  <2>2. FinishingOf(s)'
    BY <1>0, <1>a, <1>6, <2>1, FinishContextFields DEF Finishing, FinishingOf, Creation, CreationOf, Life, End, Read
  <2>3. Only(s)
    BY <1>0, <1>6, FinishContextFields
  <2>. QED  BY <1>a, <2>1, <2>2, <2>3 DEF Finishing, FinishingOf, Creation, CreationOf, Only
<1>7. ASSUME NEW s \in Ids, FinishCancel(s)
      PROVE  Finishing'
  <2>1. cli[s].fin = "cancel" /\ UNCHANGED <<scn, lastStreamID, streams>>
    BY <1>7 DEF FinishCancel
  <2>2. FinishingOf(s)'
    BY <1>0, <1>a, <1>7, <2>1, FinishCancelFields DEF Finishing, FinishingOf, Creation, CreationOf, Life, End, Read
  <2>3. Only(s)
    BY <1>0, <1>7, FinishCancelFields
  <2>. QED  BY <1>a, <2>1, <2>2, <2>3 DEF Finishing, FinishingOf, Creation, CreationOf, Only
<1>8. ASSUME NEW s \in Ids, SendCancel(s)
      PROVE  Finishing'
  <2>1. cli[s].cancel = "pending" /\ UNCHANGED <<scn, lastStreamID, streams>>
    BY <1>8 DEF SendCancel
  <2>2. FinishingOf(s)'
    BY <1>0, <1>a, <1>8, <2>1, SendCancelFields DEF Finishing, FinishingOf, Creation, CreationOf, Life, End, Read
  <2>3. Only(s)
    BY <1>0, <1>8, SendCancelFields
  <2>. QED  BY <1>a, <2>1, <2>2, <2>3 DEF Finishing, FinishingOf, Creation, CreationOf, Only
<1>9. ASSUME NEW s \in Ids, ClientSendMsg(s) \/ CloseSend(s)
      PROVE  Finishing'
  <2>1. UNCHANGED <<scn, lastStreamID, streams>>
    BY <1>9 DEF ClientSendMsg, CloseSend
  <2>2. FinishingOf(s)'
    BY <1>0, <1>a, <1>9, <2>1, SendFields DEF Finishing, FinishingOf, Creation, CreationOf, Life, End, Read
  <2>3. Only(s)
    BY <1>0, <1>9, SendFields
  <2>. QED  BY <1>a, <2>1, <2>2, <2>3 DEF Finishing, FinishingOf, Creation, CreationOf, Only
<1>10. ASSUME NEW s \in Ids, ClientAck(s)
      PROVE  Finishing'
  <2>1. UNCHANGED <<scn, lastStreamID, streams>>
    BY <1>10 DEF ClientAck
  <2>2. FinishingOf(s)'
    BY <1>0, <1>a, <1>10, <2>1, AckFields DEF Finishing, FinishingOf, Creation, CreationOf, Life, End, Read
  <2>3. Only(s)
    BY <1>0, <1>10, AckFields
  <2>. QED  BY <1>a, <2>1, <2>2, <2>3 DEF Finishing, FinishingOf, Creation, CreationOf, Only
<1>11. ASSUME NEW s \in Ids, ClientRecvMsg(s)
      PROVE  Finishing'
  <2>1. cli[s].new = "open" /\ cli[s].err = Nil /\ UNCHANGED <<scn, lastStreamID, streams>>
    BY <1>11 DEF ClientRecvMsg
  <2>2. FinishingOf(s)'
    BY <1>0, <1>a, <1>11, <2>1, RecvMsgFields DEF Finishing, FinishingOf, Creation, CreationOf, Life, End, Read
  <2>3. Only(s)
    BY <1>0, <1>11, RecvMsgFields
  <2>. QED  BY <1>a, <2>1, <2>2, <2>3 DEF Finishing, FinishingOf, Creation, CreationOf, Only
<1>12. ASSUME NEW s \in Ids, Watch(s)
      PROVE  Finishing'
  <2>1. cli[s].watch /\ cli[s].ctx /\ UNCHANGED <<scn, lastStreamID, streams>>
    BY <1>12 DEF Watch
  <2>2. FinishingOf(s)'
    <3>1. FinishingOf(s)
      BY <1>a DEF Finishing
    <3>2. CASE cli[s].done # Nil
      BY <1>0, <1>12, <2>1, <3>1, <3>2, WatchFields DEF FinishingOf, Life, End, Read
    <3>3. CASE cli[s].done = Nil
      <4>1. /\ cli'[s].done = "canceled" /\ cli'[s].fin = "remove" /\ cli'[s].by = "watch"
            /\ UNCHANGED <<cli[s].err, cli[s].closed, cli[s].cancelled, cli[s].ctx>>
        BY <1>0, <1>12, <3>3, WatchFields DEF Read
      <4>. QED  BY <2>1, <3>1, <3>3, <4>1 DEF FinishingOf, Nil
    <3>. QED  BY <3>2, <3>3
  <2>3. Only(s)
    BY <1>0, <1>12, WatchFields
  <2>. QED  BY <1>a, <2>1, <2>2, <2>3 DEF Finishing, FinishingOf, Creation, CreationOf, Only
<1>13. ASSUME NEW s \in Ids, ClientReadFails(s)
      PROVE  Finishing'
  <2>1. cli[s].rd = "failed" /\ UNCHANGED <<scn, lastStreamID, streams>>
    BY <1>13 DEF ClientReadFails
  <2>2. FinishingOf(s)'
    BY <1>0, <1>a, <1>13, <2>1, ClientReadFailsFields DEF Finishing, FinishingOf, Creation, CreationOf, Life, End, Read
  <2>3. Only(s)
    BY <1>0, <1>13, ClientReadFailsFields
  <2>. QED  BY <1>a, <2>1, <2>2, <2>3 DEF Finishing, FinishingOf, Creation, CreationOf, Only
<1>20. ASSUME NEW ok \in BOOLEAN, allocateStream(ok)
      PROVE  Finishing'
  <2>1. PICK s \in Ids : s = lastStreamID + 1 /\ s <= scn.streams /\ scn.streams \in Nat
    BY <1>20, TunnelAssumption DEF IInv, allocateStream, TypeOK, Scenario, Ids
  <2>2. /\ \A r \in Ids : cli[r].new # "alloc"
        /\ lastStreamID' = s /\ scn' = scn /\ streams' = IF ok THEN streams \cup {s} ELSE streams
    BY <1>20, <2>1 DEF allocateStream, CreationUnlocked
  <2>. QED  BY <1>0, <1>a, <1>20, <2>1, <2>2, allocateFields DEF Finishing, FinishingOf, Creation, CreationOf, Only, End, Read
<1>21. ASSUME ClientRecv
      PROVE  Finishing'
  <2>0. TypeOK
    BY DEF IInv
  <2>1. PICK f : /\ f.id \in Ids /\ 1 \in Frames(s2c) /\ f = s2c[1] /\ UNCHANGED <<scn, lastStreamID, streams>>
                 /\ (f.id \notin streams /\ cli' = cli) \/ (f.id \in streams /\ Received(f))
    BY <1>21, <2>0, ReceiveCases
  <2>2. PICK s \in Ids : s = f.id
    BY <2>1
  <2>3. CASE f.id \in streams /\ Received(f)
    BY <1>0, <1>a, <2>1, <2>2, <2>3, ReceivedFields DEF Finishing, FinishingOf, Only, Life
  <2>. QED  BY <1>a, <2>1, <2>3 DEF Finishing, FinishingOf
<1>22. CASE ClientRecvEnd \/ Close \/ \E w \in {"user", "loop"} : CloseTearDown(w)
  BY <1>a, <1>22 DEF Finishing, FinishingOf, Creation, CreationOf, ClientRecvEnd, Close, CloseTearDown
<1>23. ASSUME NEW w \in {"user", "loop"}, CloseSection(w)
      PROVE  Finishing'
  <2>1. UNCHANGED <<scn, lastStreamID>> /\ streams' = {}
    BY <1>23 DEF CloseSection
  <2>. QED  BY <1>0, <1>a, <1>23, <2>1, CloseSectionFields DEF Finishing, FinishingOf, Creation, CreationOf, End, Read
<1>24. CASE ServeStep \/ \E s \in Ids : ServerStreamStep(s)
  BY <1>a, <1>24, ServerSide DEF Finishing, FinishingOf, Creation, CreationOf
<1>. QED
  BY <1>1, <1>2, <1>3, <1>4, <1>5, <1>6, <1>7, <1>8, <1>9, <1>10, <1>11, <1>12, <1>13,
     <1>20, <1>21, <1>22, <1>23, <1>24, Steps DEF ClientStreamStep, FinishStep, ChannelStep


\* What a step of the client sends.
LEMMA RequestCases ==
  ASSUME TypeOK, NEW s \in Ids, ClientStreamStep(s), ~SendNewStream(s)
  PROVE  /\ \A t \in Ids : cli'[t].new = cli[t].new
         /\ \/ c2s' = c2s
            \/ /\ \E k \in {"msg", "half", "cancel", "update"} : SendToServer(k, s)
               /\ cli[s].new = "open" \/ cli[s].cancel # "no" \/ cli[s].rd # "ready"
<1>0. cli \in [Ids -> ClientStream]
  BY DEF TypeOK
<1>1. CASE CancelContext(s) \/ FinishRemove(s) \/ FinishMeta(s) \/ FinishClose(s) \/ FinishContext(s)
           \/ FinishCancel(s) \/ ClientRecvMsg(s) \/ Watch(s) \/ ClientReadFails(s)
  <2>1. c2s' = c2s
    BY <1>1 DEF CancelContext, FinishRemove, FinishMeta, FinishClose, FinishContext,
          FinishCancel, ClientRecvMsg, Watch, ClientReadFails
  <2>2. Only(s) /\ cli'[s].new = cli[s].new
    BY <1>0, <1>1, CancelContextFields, FinishRemoveFields, FinishMetaFields, FinishCloseFields, FinishContextFields,
        FinishCancelFields, RecvMsgFields, WatchFields, ClientReadFailsFields DEF Life
  <2>. QED  BY <2>1, <2>2 DEF Only
<1>2. CASE SendCancel(s)
  <2>1. SendToServer("cancel", s) /\ cli[s].cancel # "no"
    BY <1>2 DEF SendCancel
  <2>2. Only(s) /\ cli'[s].new = cli[s].new
    BY <1>0, <1>2, SendCancelFields
  <2>. QED  BY <2>1, <2>2 DEF Only
<1>3. CASE ClientSendMsg(s) \/ CloseSend(s)
  <2>1. (SendToServer("msg", s) \/ SendToServer("half", s)) /\ cli[s].new = "open"
    BY <1>3 DEF ClientSendMsg, CloseSend
  <2>2. Only(s) /\ cli'[s].new = cli[s].new
    BY <1>0, <1>3, SendFields DEF Life
  <2>. QED  BY <2>1, <2>2 DEF Only
<1>4. CASE ClientAck(s)
  <2>1. (SendToServer("update", s) \/ c2s' = c2s) /\ cli[s].rd # "ready"
    BY <1>4 DEF ClientAck
  <2>2. Only(s) /\ cli'[s].new = cli[s].new
    BY <1>0, <1>4, AckFields DEF Life
  <2>. QED  BY <2>1, <2>2 DEF Only
<1>. QED  BY <1>1, <1>2, <1>3, <1>4 DEF ClientStreamStep, FinishStep

LEMMA RequestsTypes ==
  ASSUME TypeOK
  PROVE  /\ Ids \subseteq Int /\ lastSeen \in Int /\ lastStreamID \in Int /\ Len(c2s) \in Nat
         /\ \A i \in Frames(c2s) : c2s[i] \in ClientFrame /\ c2s[i].id \in Ids
<1>1. Ids \subseteq Int /\ lastSeen \in Int /\ lastStreamID \in Int
  BY TunnelAssumption DEF TypeOK, Ids
<1>2. c2s \in Seq(ClientFrame)
  BY DEF TypeOK
<1>3. Len(c2s) \in Nat /\ \A i \in Frames(c2s) : c2s[i] \in ClientFrame
  BY <1>2 DEF Frames
<1>4. \A f \in ClientFrame : f.id \in Ids
  BY DEF ClientFrame
<1>. QED  BY <1>1, <1>3, <1>4

LEMMA RequestsSame ==
  ASSUME TypeOK, Requests, c2s' = c2s, lastSeen' = lastSeen, ClientSendFails => ClientSendFails',
         \A t \in Ids : \/ cli'[t].new = cli[t].new
                        \/ cli[t].new = "none" /\ cli'[t].new \in {"alloc", "failed"}
  PROVE  Requests'
BY RequestsTypes DEF Requests

LEMMA SentFacts ==
  ASSUME c2s \in Seq(ClientFrame), NEW e \in ClientFrame, c2s' = Append(c2s, e)
  PROVE  /\ Len(c2s') = Len(c2s) + 1 /\ \A i \in Frames(c2s) : c2s'[i] = c2s[i]
         /\ c2s'[Len(c2s) + 1] = e
<1>1. /\ Len(Append(c2s, e)) = Len(c2s) + 1 /\ \A i \in Frames(c2s) : Append(c2s, e)[i] = c2s[i]
      /\ Append(c2s, e)[Len(c2s) + 1] = e
  BY DEF Frames
<1>. QED  BY <1>1, Zenon

\* A frame is sent: the one that creates the stream, or a later one.
LEMMA RequestsSent ==
  ASSUME TypeOK, Requests, Creation, lastSeen' = lastSeen, ~ClientSendFails, NEW e \in ClientFrame,
         c2s' = Append(c2s, e), cli'[e.id].new = "open",
         \A t \in Ids : t # e.id => cli'[t].new = cli[t].new,
         cli[e.id].new = IF e.kind = "new" THEN "alloc" ELSE "open"
  PROVE  Requests'
<1>0. e.id \in Ids
  BY DEF ClientFrame
<1>1. /\ Len(c2s') = Len(c2s) + 1 /\ \A i \in Frames(c2s) : c2s'[i] = c2s[i]
      /\ c2s'[Len(c2s) + 1] = e
  <2>1. c2s \in Seq(ClientFrame)
    BY DEF TypeOK
  <2>. QED  BY <2>1, SentFacts
<1>2. /\ Ids \subseteq Int /\ lastSeen \in Int /\ lastStreamID \in Int /\ Len(c2s) \in Nat
      /\ \A i \in Frames(c2s) : c2s[i].id \in Ids
  BY RequestsTypes
<1>3. Frames(c2s') = Frames(c2s) \cup {Len(c2s) + 1}
  BY <1>1, <1>2 DEF Frames
<1>4. \A s \in Ids : cli'[s].new \in {"none", "alloc"} => s > lastSeen
  BY <1>0 DEF Requests
<1>5. ASSUME NEW i \in Frames(c2s)
      PROVE  /\ cli'[c2s[i].id].new = "open"
             /\ c2s[i].kind = "new" => c2s[i].id > lastSeen
             /\ c2s[i].kind # "new" =>
                  \/ c2s[i].id <= lastSeen
                  \/ \E j \in 1 .. i - 1 : c2s'[j].kind = "new" /\ c2s'[j].id = c2s[i].id
  <2>1. \A j \in 1 .. i - 1 : j \in Frames(c2s)
    BY <1>2 DEF Frames
  <2>. QED  BY <1>1, <1>2, <2>1 DEF Requests
<1>6. /\ e.kind = "new" => e.id > lastSeen
      /\ e.kind # "new" =>
           e.id <= lastSeen \/ \E j \in 1 .. Len(c2s) : c2s'[j].kind = "new" /\ c2s'[j].id = e.id
  BY <1>0, <1>1 DEF Requests, Frames
<1>7. ASSUME e.kind = "new", NEW i \in Frames(c2s)
      PROVE  c2s[i].id < e.id
  <2>1. cli[c2s[i].id].new = "open" /\ c2s[i].id \in Ids
    BY <1>2 DEF Requests
  <2>2. e.id = lastStreamID /\ ~(c2s[i].id > lastStreamID) /\ c2s[i].id # e.id
    BY <1>0, <1>7, <2>1 DEF Creation, CreationOf
  <2>3. PICK x \in Int : x = c2s[i].id
    BY <1>2, <2>1
  <2>. QED  BY <1>2, <2>2, <2>3
<1>8. ASSUME NEW i \in Frames(c2s'), NEW j \in Frames(c2s'), i < j, c2s'[i].kind = "new", c2s'[j].kind = "new"
      PROVE  c2s'[i].id < c2s'[j].id
  <2>1. i \in Frames(c2s)
    BY <1>2, <1>3, <1>8, <1>1 DEF Frames
  <2>2. CASE j \in Frames(c2s)
    <3>1. \A k, l \in Frames(c2s) : k < l /\ c2s[k].kind = "new" /\ c2s[l].kind = "new" => c2s[k].id < c2s[l].id
      BY DEF Requests
    <3>. QED  BY <1>1, <1>8, <2>1, <2>2, <3>1, Zenon
  <2>3. CASE j = Len(c2s) + 1
    BY <1>1, <1>7, <1>8, <2>1, <2>3
  <2>. QED  BY <1>3, <2>2, <2>3
<1>9. ASSUME NEW s \in Ids, cli'[s].new = "open"
      PROVE  s <= lastSeen \/ \E i \in Frames(c2s') : c2s'[i].kind = "new" /\ c2s'[i].id = s
  <2>1. CASE s = e.id /\ e.kind = "new"
    BY <1>1, <1>3, <2>1
  <2>2. CASE ~(s = e.id /\ e.kind = "new")
    <3>1. cli[s].new = "open"
      BY <1>9, <2>2
    <3>2. s <= lastSeen \/ \E i \in Frames(c2s) : c2s[i].kind = "new" /\ c2s[i].id = s
      BY <3>1 DEF Requests
    <3>. QED  BY <1>1, <1>3, <3>2
  <2>. QED  BY <2>1, <2>2
<1>10. ASSUME NEW i \in Frames(c2s')
       PROVE  /\ cli'[c2s'[i].id].new = "open"
              /\ c2s'[i].kind = "new" => c2s'[i].id > lastSeen
              /\ c2s'[i].kind # "new" =>
                   \/ c2s'[i].id <= lastSeen
                   \/ \E j \in 1 .. i - 1 : c2s'[j].kind = "new" /\ c2s'[j].id = c2s'[i].id
  <2>1. CASE i \in Frames(c2s)
    BY <1>1, <1>5, <2>1
  <2>2. CASE i = Len(c2s) + 1
    <3>1. 1 .. i - 1 = 1 .. Len(c2s)
      BY <1>2, <2>2
    <3>. QED  BY <1>1, <1>6, <2>2, <3>1
  <2>. QED  BY <1>3, <2>1, <2>2
<1>. QED  BY <1>4, <1>8, <1>9, <1>10 DEF Requests

\* The server takes a frame.
LEMMA RequestsTaken ==
  ASSUME TypeOK, Requests, Creation, cli' = cli, c2s # <<>>, c2s' = Tail(c2s), ClientSendFails => ClientSendFails',
         lastSeen' = IF c2s[1].kind = "new" THEN c2s[1].id ELSE lastSeen
  PROVE  Requests'
<1>1. /\ Len(c2s') = Len(c2s) - 1 /\ 1 \in Frames(c2s)
      /\ \A i \in Frames(c2s') : c2s'[i] = c2s[i + 1] /\ i + 1 \in Frames(c2s)
  <2>1. c2s \in Seq(ClientFrame)
    BY DEF TypeOK
  <2>. QED  BY <2>1, TailFacts
<1>2. /\ Ids \subseteq Int /\ lastSeen \in Int /\ lastStreamID \in Int /\ Len(c2s) \in Nat
      /\ \A i \in Frames(c2s) : c2s[i].id \in Ids
  BY RequestsTypes
<1>3. cli[c2s[1].id].new = "open" /\ c2s[1].id \in Ids /\ lastSeen <= lastSeen' /\ lastSeen' \in Int
  <2>1. cli[c2s[1].id].new = "open" /\ c2s[1].id \in Ids /\ (c2s[1].kind = "new" => c2s[1].id > lastSeen)
    BY <1>1, <1>2 DEF Requests
  <2>2. PICK x \in Int : x = c2s[1].id
    BY <1>2, <2>1
  <2>. QED  BY <1>2, <2>1, <2>2
<1>4. ASSUME NEW s \in Ids, cli[s].new \in {"none", "alloc"}
      PROVE  s > lastSeen'
  <2>1. s > lastSeen
    BY <1>4 DEF Requests
  <2>2. s >= lastStreamID /\ c2s[1].id <= lastStreamID /\ c2s[1].id # s
    <3>1. c2s[1].id # s /\ c2s[1].id \in Int /\ s \in Int
      BY <1>2, <1>3, <1>4
    <3>2. ~(c2s[1].id > lastStreamID) /\ (s > lastStreamID \/ s = lastStreamID)
      BY <1>3, <1>4 DEF Creation, CreationOf
    <3>. QED  BY <1>2, <3>1, <3>2
  <2>. QED  BY <1>2, <1>3, <2>1, <2>2
<1>5. ASSUME NEW i \in Frames(c2s')
      PROVE  /\ cli[c2s'[i].id].new = "open"
             /\ c2s'[i].kind = "new" => c2s'[i].id > lastSeen'
             /\ c2s'[i].kind # "new" =>
                  \/ c2s'[i].id <= lastSeen'
                  \/ \E j \in 1 .. i - 1 : c2s'[j].kind = "new" /\ c2s'[j].id = c2s'[i].id
  <2>0. i \in Int /\ i + 1 > 1 /\ c2s'[i] = c2s[i + 1] /\ i + 1 \in Frames(c2s) /\ c2s[i + 1].id \in Ids
    BY <1>1, <1>2 DEF Frames
  <2>1. cli[c2s[i + 1].id].new = "open" /\ (c2s[i + 1].kind = "new" => c2s[i + 1].id > lastSeen)
    BY <2>0 DEF Requests
  <2>2. c2s[1].kind = "new" /\ c2s[i + 1].kind = "new" => c2s[1].id < c2s[i + 1].id
    BY <1>1, <2>0 DEF Requests
  <2>3. ASSUME c2s[i + 1].kind # "new", ~(c2s[i + 1].id <= lastSeen')
        PROVE  \E j \in 1 .. i - 1 : c2s'[j].kind = "new" /\ c2s'[j].id = c2s[i + 1].id
    <3>1. ~(c2s[i + 1].id <= lastSeen)
      <4>1. PICK x \in Int : x = c2s[i + 1].id
        BY <1>2, <2>0
      <4>. QED  BY <1>2, <1>3, <2>3, <4>1
    <3>2. PICK j \in 1 .. (i + 1) - 1 : c2s[j].kind = "new" /\ c2s[j].id = c2s[i + 1].id
      BY <2>0, <2>3, <3>1 DEF Requests
    <3>3. j # 1
      BY <1>2, <1>3, <2>0, <2>3, <3>2
    <3>4. j - 1 \in 1 .. i - 1 /\ j - 1 \in Frames(c2s') /\ (j - 1) + 1 = j
      BY <1>1, <1>2, <2>0, <3>3 DEF Frames
    <3>. QED  BY <1>1, <3>2, <3>4
  <2>. QED  BY <1>2, <1>3, <2>0, <2>1, <2>2, <2>3
<1>6. ASSUME NEW i \in Frames(c2s'), NEW j \in Frames(c2s'), i < j, c2s'[i].kind = "new", c2s'[j].kind = "new"
      PROVE  c2s'[i].id < c2s'[j].id
  <2>1. i + 1 < j + 1
    BY <1>6, <1>1, <1>2 DEF Frames
  <2>2. i + 1 \in Frames(c2s) /\ j + 1 \in Frames(c2s) /\ c2s'[i] = c2s[i + 1] /\ c2s'[j] = c2s[j + 1]
    BY <1>1, <1>6
  <2>3. \A k, l \in Frames(c2s) : k < l /\ c2s[k].kind = "new" /\ c2s[l].kind = "new" => c2s[k].id < c2s[l].id
    BY DEF Requests
  <2>. QED  BY <1>6, <2>1, <2>2, <2>3, Zenon
<1>7. ASSUME NEW s \in Ids, cli[s].new = "open", ~ClientSendFails'
      PROVE  s <= lastSeen' \/ \E i \in Frames(c2s') : c2s'[i].kind = "new" /\ c2s'[i].id = s
  <2>1. CASE s <= lastSeen
    BY <1>2, <1>3, <2>1
  <2>2. ASSUME NEW i \in Frames(c2s), c2s[i].kind = "new", c2s[i].id = s
        PROVE  s <= lastSeen' \/ \E k \in Frames(c2s') : c2s'[k].kind = "new" /\ c2s'[k].id = s
    <3>1. CASE i = 1
      BY <1>2, <2>2, <3>1
    <3>2. CASE i # 1
      <4>1. i - 1 \in Frames(c2s') /\ (i - 1) + 1 = i
        BY <1>1, <1>2, <3>2 DEF Frames
      <4>. QED  BY <1>1, <2>2, <4>1
    <3>. QED  BY <3>1, <3>2
  <2>. QED  BY <1>7, <2>1, <2>2 DEF Requests
<1>. QED  BY <1>4, <1>5, <1>6, <1>7 DEF Requests

LEMMA RequestsStep ==
  ASSUME IInv, Next
  PROVE  Requests'
<1>0. TypeOK /\ Requests /\ Creation /\ Registered
  BY DEF IInv
<1>c. cli \in [Ids -> ClientStream]
  BY <1>0 DEF TypeOK
<1>m. ClientSendFails => ClientSendFails'
  BY <1>0, Flags
<1>1. ASSUME NEW s \in Ids, SendNewStream(s)
      PROVE  Requests'
  <2>1. \A t \in Ids : t # s => cli'[t].new = cli[t].new
    BY <1>c, <1>1, SendNewStreamFields DEF Only
  <2>2. cli'[s].new = IF ClientSendFails THEN "failed" ELSE "open"
    BY <1>c, <1>1, SendNewStreamFields
  <2>3. lastSeen' = lastSeen /\ ClientSendFails' = ClientSendFails /\ cli[s].new = "alloc"
    BY <1>1 DEF SendNewStream, ClientSendFails, netVars, serverVars
  <2>5. CASE ClientSendFails
    <3>1. c2s' = c2s
      BY <1>1, <2>5 DEF SendNewStream, SendToServer
    <3>2. \A i \in Frames(c2s) : c2s[i].id # s
      BY <1>0, <2>3 DEF Requests
    <3>. QED  BY <1>0, <2>1, <2>2, <2>3, <2>5, <3>1, <3>2, RequestsTypes DEF Requests
  <2>6. CASE ~ClientSendFails
    <3> DEFINE e == [kind |-> "new", id |-> s]
    <3>1. c2s' = Append(c2s, e)
      BY <1>1, <2>6 DEF SendNewStream, SendToServer
    <3>2. e \in ClientFrame /\ e.kind = "new" /\ e.id = s
      BY DEF ClientFrame
    <3>. HIDE DEF e
    <3>. QED  BY <1>0, <2>1, <2>2, <2>3, <2>6, <3>1, <3>2, RequestsSent
  <2>. QED  BY <2>5, <2>6
<1>2. ASSUME NEW s \in Ids, ClientStreamStep(s), ~SendNewStream(s)
      PROVE  Requests'
  <2>1. \A t \in Ids : cli'[t].new = cli[t].new
    BY <1>0, <1>2, RequestCases
  <2>2. lastSeen' = lastSeen
    BY <1>2, ClientSide
  <2>3. CASE c2s' = c2s
    BY <1>0, <1>m, <2>1, <2>2, <2>3, RequestsSame
  <2>4. ASSUME NEW k \in {"msg", "half", "cancel", "update"}, SendToServer(k, s), ~ClientSendFails, cli[s].new = "open"
        PROVE  Requests'
    <3> DEFINE e == [kind |-> k, id |-> s]
    <3>1. c2s' = Append(c2s, e)
      BY <2>4 DEF SendToServer
    <3>2. e \in ClientFrame /\ e.kind # "new" /\ e.id = s
      BY DEF ClientFrame
    <3>. HIDE DEF e
    <3>. QED  BY <1>0, <2>1, <2>2, <2>4, <3>1, <3>2, RequestsSent
  <2>. QED  BY <1>0, <1>2, <2>3, <2>4, RequestCases DEF Creation, CreationOf, SendToServer
<1>3. CASE ChannelStep
  <2>1. ASSUME NEW t \in Ids
        PROVE  \/ cli'[t].new = cli[t].new
               \/ cli[t].new = "none" /\ cli'[t].new \in {"alloc", "failed"}
    <3>1. ASSUME NEW ok \in BOOLEAN, allocateStream(ok)
          PROVE  \/ cli'[t].new = cli[t].new
                 \/ cli[t].new = "none" /\ cli'[t].new \in {"alloc", "failed"}
      <4>1. lastStreamID + 1 > lastStreamID
        BY <1>0, RequestsTypes
      <4>. QED  BY <1>0, <1>c, <3>1, <4>1 DEF allocateStream, ClientStream, Creation, CreationOf
    <3>2. ASSUME ClientRecv
          PROVE  cli'[t].new = cli[t].new
      <4>1. PICK f : f.id \in Ids /\ (cli' = cli \/ Received(f))
        BY <1>0, <3>2, ReceiveCases
      <4>. QED  BY <1>c, <4>1, ReceivedFields DEF Only, Life
    <3>3. ASSUME NEW w, CloseSection(w)
          PROVE  cli'[t].new = cli[t].new
      BY <1>c, <3>3 DEF CloseSection, ClientStream
    <3>4. CASE ClientRecvEnd \/ Close \/ \E w \in {"user", "loop"} : CloseTearDown(w)
      BY <3>4 DEF ClientRecvEnd, Close, CloseTearDown
    <3>. QED  BY <1>3, <3>1, <3>2, <3>3, <3>4 DEF ChannelStep
  <2>2. lastSeen' = lastSeen
    BY <1>3, ClientSide
  <2>3. c2s' = c2s
    BY <1>3 DEF ChannelStep, allocateStream, ClientRecv, ClientRecvEnd, Close, CloseTearDown, CloseSection
  <2>. QED  BY <1>0, <1>m, <2>1, <2>2, <2>3, RequestsSame
<1>4. CASE ServerRecv
  <2>0. cli' = cli /\ c2s' = Tail(c2s) /\ c2s # <<>>
    BY <1>4 DEF ServerRecv, clientVars
  <2>1. 1 \in Frames(c2s) /\ c2s[1] = Head(c2s) /\ c2s[1].id \in Ids
    BY <1>0, <2>0, TailFacts, RequestsTypes DEF TypeOK
  <2>2. c2s[1].kind = "new" => c2s[1].id > lastSeen /\ c2s[1].id \notin svrStreams
    BY <1>0, <2>1 DEF Requests, Registered
  <2>3. ~(c2s[1].kind = "new" /\ (c2s[1].id <= lastSeen \/ c2s[1].id \in svrStreams))
    BY <1>0, <2>1, <2>2, RequestsTypes
  <2>4. lastSeen' = IF c2s[1].kind = "new" THEN c2s[1].id ELSE lastSeen
    BY <1>4, <2>1, <2>3, Zenon DEF ServerRecv, createStream, Seen
  <2>. QED  BY <1>0, <1>m, <2>0, <2>4, RequestsTaken
<1>5. CASE ServerRecvEnd \/ InitiateShutdown \/ Stop \/ HangUp
  <2>1. cli' = cli /\ c2s' = c2s /\ lastSeen' = lastSeen
    BY <1>5 DEF ServerRecvEnd, InitiateShutdown, Stop, HangUp, clientVars, serverVars
  <2>. QED  BY <1>0, <1>m, <2>1, RequestsSame
<1>6. CASE Break
  <2>1. c2s' = <<>> /\ ClientSendFails' /\ cli' = cli /\ lastSeen' = lastSeen
    BY <1>6 DEF Break, ClientSendFails, clientVars
  <2>2. Frames(c2s') = {}
    BY <2>1 DEF Frames
  <2>. QED  BY <1>0, <2>1, <2>2 DEF Requests
<1>7. ASSUME NEW s \in Ids, ServerStreamStep(s)
      PROVE  Requests'
  BY <1>0, <1>m, <1>7, RequestsSame, ServerSide, ServerStreamSide
<1>. QED  BY <1>1, <1>2, <1>3, <1>4, <1>5, <1>6, <1>7, Steps DEF ServeStep

LEMMA NoProtocolErrorStep ==
  ASSUME IInv, Next
  PROVE  NoProtocolError'
<1>0. /\ ~protoErr /\ lastStreamID \in Int /\ lastSeen \in Int /\ Ids \subseteq Int
  BY TunnelAssumption DEF IInv, NoProtocolError, TypeOK, Ids
<1>1. ASSUME ClientRecv
      PROVE  ~protoErr'
  <2> DEFINE f == Head(s2c)
  <2>1. f.id \in Ids /\ 1 \in Frames(s2c) /\ f = s2c[1]
    BY <1>1, ReceiveCases DEF IInv
  <2>2. cli[f.id].new = "open"
    BY <2>1 DEF IInv, Responses, Registered
  <2>3. ~(f.id > lastStreamID)
    BY <1>0, <2>1, <2>2 DEF IInv, Creation, CreationOf
  <2>. QED  BY <1>0, <1>1, <2>3, Zenon DEF ClientRecv
<1>2. ASSUME ServerRecv
      PROVE  ~protoErr'
  <2> DEFINE f == Head(c2s)
  <2>1. f = c2s[1] /\ f \in ClientFrame /\ 1 \in Frames(c2s)
    BY <1>2, TailFacts DEF ServerRecv, IInv, TypeOK
  <2>2. f.id \in Ids
    BY <2>1 DEF ClientFrame
  <2>. HIDE DEF f
  <2>3. f.kind = "new" => f.id > lastSeen /\ f.id \notin svrStreams
    BY <1>0, <2>1, <2>2 DEF IInv, Requests, Registered
  <2>4. f.kind # "new" => f.id <= lastSeen
    BY <1>0, <2>1, <2>2 DEF IInv, Requests
  <2>5. ~(IF f.kind = "new" THEN f.id <= lastSeen \/ f.id \in svrStreams
                            ELSE f.id \notin svrStreams /\ f.id > lastSeen)
    <3>1. f.id \in Int
      BY <1>0, <2>2
    <3>2. CASE f.kind = "new"
      BY <1>0, <2>3, <3>1, <3>2
    <3>3. CASE f.kind # "new"
      BY <1>0, <2>4, <3>1, <3>3
    <3>. QED  BY <3>2, <3>3
  <2>. QED  BY <1>0, <1>2, <2>5, Zenon DEF ServerRecv, f
<1>3. ASSUME NEW s \in Ids, ClientStreamStep(s)
      PROVE  protoErr' = protoErr
  BY <1>3, ClientStreamSide
<1>4. ASSUME NEW s \in Ids, ServerStreamStep(s)
      PROVE  protoErr' = protoErr
  BY <1>4, ServerStreamSide
<1>5. ASSUME ServerRecvEnd \/ InitiateShutdown \/ Stop \/ HangUp \/ Break
             \/ ClientRecvEnd \/ Close \/ (\E ok \in BOOLEAN : allocateStream(ok))
             \/ \E w \in {"user", "loop"} : CloseTearDown(w) \/ CloseSection(w)
      PROVE  protoErr' = protoErr
  BY <1>5 DEF ServerRecvEnd, InitiateShutdown, Stop, HangUp, Break, ClientRecvEnd, Close, allocateStream, CloseTearDown,
     CloseSection, netVars
<1>. QED
  BY <1>0, <1>1, <1>2, <1>3, <1>4, <1>5, Steps, Zenon DEF ServeStep, ChannelStep, NoProtocolError
-----------------------------------------------------------------------------
(***************************************************************************)
(* What a step of the server does to its stream, as far as the client      *)
(* can tell.                                                               *)
(***************************************************************************)
Undecided(s) ==
  /\ srv'[s].close = srv[s].close /\ srv'[s].stat = srv[s].stat
  /\ srv'[s].finished = srv[s].finished /\ srv'[s].sentHeaders = srv[s].sentHeaders

\* The outcome is decided by finishStream of w.
Decided(s, w) ==
  /\ ~srv[s].finished /\ srv'[s].finished /\ srv'[s].sentHeaders
  /\ srv'[s].close = (IF srv[s].sentHeaders THEN "close" ELSE "headers")
  /\ srv'[s].stat = (IF srv[s].fin[w].err = Nil THEN Nil ELSE "status")
  /\ srv'[s].fin[w].pc = "no"

LEMMA AfterFinishFields ==
  ASSUME NEW st \in ServerStream, NEW w \in Actors
  PROVE  LET x == AfterFinish(st, w) IN
         /\ x.close = st.close /\ x.stat = st.stat /\ x.wrote = st.wrote
         /\ x.finished = st.finished /\ x.sentHeaders = st.sentHeaders
         /\ x.fin[w].pc = "no" /\ \A v \in Actors \ {w} : x.fin[v] = st.fin[v]
         /\ w = "loop" => x.h = st.h
         /\ w = "handler" /\ st.h = "returned" => x.h = "gone"
         /\ w = "handler" /\ st.h = "failed" => x.h = "run"
         /\ w = "handler" /\ st.h \notin {"returned", "failed"} => x.h = st.h
<1> DEFINE x == AfterFinish(st, w)
<1>1. PICK h \in HandlerPCs : h = CASE w = "handler" /\ st.h = "failed" -> "run"
                                    [] w = "handler" /\ st.h = "returned" -> "gone"
                                    [] OTHER -> st.h
  BY DEF ServerStream, HandlerPCs
<1>2. x = [st EXCEPT !.fin[w] = NoFinish, !.h = h]
  BY <1>1, Zenon DEF AfterFinish
<1>3. /\ x.close = st.close /\ x.stat = st.stat /\ x.wrote = st.wrote /\ x.h = h
      /\ x.finished = st.finished /\ x.sentHeaders = st.sentHeaders /\ x.fin = [st.fin EXCEPT ![w] = NoFinish]
  BY <1>2 DEF ServerStream
<1>4. x.fin[w].pc = "no" /\ \A v \in Actors \ {w} : x.fin[v] = st.fin[v]
  BY <1>3 DEF ServerStream, NoFinish
<1>. HIDE DEF x
<1>. QED  BY <1>1, <1>3, <1>4 DEF x, Actors

LEMMA StopEffect ==
  ASSUME srv \in [Ids -> ServerStream], NEW s \in Ids, NEW w \in Actors, StopStep(s, w)
  PROVE  /\ \A t \in Ids \ {s} : srv'[t] = srv[t]
         /\ s2c' = s2c
         /\ srv[s].fin[w].pc # "no" /\ srv'[s].wrote = srv[s].wrote
         /\ \A v \in Actors \ {w} : srv'[s].fin[v] = srv[s].fin[v]
         /\ srv'[s].fin[w].pc # "no" => srv'[s].fin[w].err = srv[s].fin[w].err
         /\ Undecided(s) \/ Decided(s, w)
         /\ srv'[s].fin[w].pc # "no" \/ w = "loop" => srv'[s].h = srv[s].h
         /\ srv'[s].fin[w].pc = "no" /\ w = "handler" =>
              /\ srv[s].h = "returned" => srv'[s].h = "gone"
              /\ srv[s].h = "failed" => srv'[s].h = "run"
              /\ srv[s].h \notin {"returned", "failed"} => srv'[s].h = srv[s].h
<1>0. PICK st \in ServerStream : st = srv[s]
  OBVIOUS
<1>f. st.fin \in [Actors -> Finish]
  BY DEF ServerStream
<1>g. s2c' = s2c
  BY DEF StopStep, StopCancel, StopRemove, halfClose, StopClose, StopSection
<1>1. CASE StopCancel(s, w) \/ StopRemove(s, w)
  <2>1. PICK fin \in [Actors -> Finish] : fin = [st.fin EXCEPT ![w].pc = IF StopCancel(s, w) THEN "remove" ELSE "half"]
    BY <1>f, FinishRecords DEF Errors
  <2>2. PICK yes \in BOOLEAN : yes = TRUE
    OBVIOUS
  <2>3. [st EXCEPT !.ctx = yes].fin = st.fin
    BY DEF ServerStream
  <2>4. PICK x : /\ srv' = [srv EXCEPT ![s] = x] /\ st.fin[w].pc # "no"
                 /\ x = [st EXCEPT !.fin = fin, !.ctx = yes] \/ x = [st EXCEPT !.fin = fin]
    <3>1. CASE StopCancel(s, w)
      <4>1. srv' = [srv EXCEPT ![s] = [srv[s] EXCEPT !.fin[w].pc = "remove", !.ctx = TRUE]] /\ At(s, w, "cancel")
        BY <3>1 DEF StopCancel
      <4>. QED  BY <1>0, <2>1, <2>2, <3>1, <4>1, Zenon DEF At
    <3>2. CASE StopRemove(s, w) /\ ~StopCancel(s, w)
      <4>1. srv' = [srv EXCEPT ![s] = [srv[s] EXCEPT !.fin[w].pc = "half"]] /\ At(s, w, "remove")
        BY <3>2 DEF StopRemove
      <4>. QED  BY <1>0, <2>1, <3>2, <4>1, Zenon DEF At
    <3>. QED  BY <1>1, <3>1, <3>2
  <2>5. /\ x.close = st.close /\ x.stat = st.stat /\ x.wrote = st.wrote /\ x.h = st.h
        /\ x.finished = st.finished /\ x.sentHeaders = st.sentHeaders /\ x.fin = fin
    BY <2>4 DEF ServerStream
  <2>6. x.fin[w].pc # "no" /\ x.fin[w].err = st.fin[w].err /\ \A v \in Actors \ {w} : x.fin[v] = st.fin[v]
    BY <1>f, <2>1, <2>5 DEF Finish
  <2>7. srv'[s] = x /\ \A t \in Ids \ {s} : srv'[t] = srv[t]
    BY <2>4
  <2>. QED  BY <1>0, <1>g, <2>4, <2>5, <2>6, <2>7 DEF Undecided
<1>2. CASE halfClose(s, w)
  <2>1. CASE srv' = [srv EXCEPT ![s] = AfterFinish(st, w)]
    <3>1. srv'[s] = AfterFinish(st, w) /\ st.fin[w].pc # "no" /\ \A t \in Ids \ {s} : srv'[t] = srv[t]
      BY <1>0, <1>2, <2>1 DEF halfClose, At
    <3>. QED  BY <1>0, <1>g, <3>1, AfterFinishFields DEF Undecided
  <2>2. CASE ~(srv' = [srv EXCEPT ![s] = AfterFinish(st, w)])
    <3>1. PICK fin \in [Actors -> Finish] : fin = [st.fin EXCEPT ![w].pc = "close"]
      BY <1>f, FinishRecords DEF Errors
    <3>2. PICK fin2 \in [Actors -> Finish] : fin2 = [st.fin EXCEPT ![w].pc = "lock"]
      BY <1>f, FinishRecords DEF Errors
    <3>3. PICK e : e = IF st.fin[w].err = Nil THEN "EOF" ELSE st.fin[w].err
      OBVIOUS
    <3>4. [st EXCEPT !.half = e].fin = st.fin /\ st.fin[w].pc # "no"
      BY <1>0, <1>2 DEF ServerStream, halfClose, At
    <3>5. PICK x : /\ srv' = [srv EXCEPT ![s] = x]
                   /\ x = [st EXCEPT !.half = e, !.fin = fin] \/ x = [st EXCEPT !.fin = fin2]
      BY <1>0, <1>2, <2>2, <3>1, <3>2, <3>3, <3>4, Zenon DEF halfClose
    <3>6. /\ x.close = st.close /\ x.stat = st.stat /\ x.wrote = st.wrote /\ x.h = st.h
          /\ x.finished = st.finished /\ x.sentHeaders = st.sentHeaders /\ (x.fin = fin \/ x.fin = fin2)
      BY <3>5 DEF ServerStream
    <3>7. x.fin[w].pc # "no" /\ x.fin[w].err = st.fin[w].err /\ \A v \in Actors \ {w} : x.fin[v] = st.fin[v]
      BY <1>f, <3>1, <3>2, <3>6 DEF Finish
    <3>8. srv'[s] = x /\ \A t \in Ids \ {s} : srv'[t] = srv[t]
      BY <3>5
    <3>. QED  BY <1>0, <1>g, <3>4, <3>6, <3>7, <3>8 DEF Undecided
  <2>. QED  BY <2>1, <2>2
<1>3. CASE StopClose(s, w)
  <2>1. PICK x \in ServerStream : x = [st EXCEPT !.closed = TRUE, !.fin[w].pc = "lock"]
    <3>1. PICK yes \in BOOLEAN : yes = TRUE
      OBVIOUS
    <3>2. PICK fin \in [Actors -> Finish] : fin = [st.fin EXCEPT ![w].pc = "lock"]
      BY <1>f, FinishRecords DEF Errors
    <3>3. [st EXCEPT !.closed = yes, !.fin = fin] \in ServerStream
      BY DEF ServerStream
    <3>4. [st EXCEPT !.closed = yes].fin = st.fin
      BY DEF ServerStream
    <3>. QED  BY <3>1, <3>2, <3>3, <3>4, Zenon
  <2>2. /\ x.close = st.close /\ x.stat = st.stat /\ x.wrote = st.wrote /\ x.h = st.h
        /\ x.finished = st.finished /\ x.sentHeaders = st.sentHeaders
        /\ x.fin[w].err = st.fin[w].err /\ x.fin[w].pc # "no" /\ \A v \in Actors \ {w} : x.fin[v] = st.fin[v]
    BY <1>f, <2>1 DEF ServerStream, Finish
  <2>3. /\ srv' = [srv EXCEPT ![s] = x] \/ srv' = [srv EXCEPT ![s] = AfterFinish(x, w)]
        /\ st.fin[w].pc # "no"
    BY <1>0, <1>3, <2>1 DEF StopClose, At
  <2>4. /\ srv'[s] = x \/ srv'[s] = AfterFinish(x, w)
        /\ \A t \in Ids \ {s} : srv'[t] = srv[t]
    BY <2>3
  <2>5. CASE srv'[s] = x
    BY <1>0, <1>g, <2>2, <2>3, <2>4, <2>5 DEF Undecided
  <2>6. CASE srv'[s] = AfterFinish(x, w)
    BY <1>0, <1>g, <2>2, <2>3, <2>4, <2>6, AfterFinishFields DEF Undecided
  <2>. QED  BY <2>4, <2>5, <2>6
<1>4. CASE StopSection(s, w)
  <2>0. st.fin[w].pc # "no" /\ (srv[s].finished <=> AlreadyClosed(s))
    BY <1>0, <1>4 DEF StopSection, At, AlreadyClosed
  <2>1. CASE AlreadyClosed(s)
    <3>1. srv'[s] = AfterFinish(st, w) /\ \A t \in Ids \ {s} : srv'[t] = srv[t]
      BY <1>0, <1>4, <2>1 DEF StopSection
    <3>. QED  BY <1>0, <1>g, <2>0, <3>1, AfterFinishFields DEF Undecided
  <2>2. CASE ~AlreadyClosed(s)
    <3>1. PICK close \in {"no", "headers", "close", "sent"} : close = IF st.sentHeaders THEN "close" ELSE "headers"
      OBVIOUS
    <3>2. PICK stat \in {Nil, "status"} : stat = IF st.fin[w].err = Nil THEN Nil ELSE "status"
      OBVIOUS
    <3>3. PICK yes \in BOOLEAN : yes = TRUE
      OBVIOUS
    <3>4. PICK x \in ServerStream : x = [st EXCEPT !.finished = yes, !.sentHeaders = yes, !.close = close, !.stat = stat]
      <4>1. [st EXCEPT !.finished = yes, !.sentHeaders = yes, !.close = close, !.stat = stat] \in ServerStream
        BY DEF ServerStream
      <4>. QED  BY <4>1
    <3>5. /\ x.close = close /\ x.stat = stat /\ x.wrote = st.wrote /\ x.h = st.h /\ x.fin = st.fin
          /\ x.finished = yes /\ x.sentHeaders = yes
      BY <3>4 DEF ServerStream
    <3>6. srv' = [srv EXCEPT ![s] = AfterFinish(x, w)]
      BY <1>0, <1>4, <2>2, <3>1, <3>2, <3>3, <3>4, Zenon DEF StopSection
    <3>7. srv'[s] = AfterFinish(x, w) /\ \A t \in Ids \ {s} : srv'[t] = srv[t]
      BY <3>6
    <3>8. Decided(s, w)
      <4>1. /\ srv'[s].close = x.close /\ srv'[s].stat = x.stat /\ srv'[s].finished = x.finished
            /\ srv'[s].sentHeaders = x.sentHeaders /\ srv'[s].fin[w].pc = "no"
        BY <3>7, AfterFinishFields
      <4>. QED  BY <1>0, <2>0, <2>2, <3>1, <3>2, <3>3, <3>5, <4>1, Zenon DEF Decided
    <3>. QED  BY <1>0, <1>g, <2>0, <3>5, <3>7, <3>8, AfterFinishFields
  <2>. QED  BY <2>1, <2>2
<1>. QED  BY <1>1, <1>2, <1>3, <1>4 DEF StopStep

\* A step of the handler that sends nothing.
Working(st, x) ==
  /\ x.close = st.close /\ x.stat = st.stat /\ x.finished = st.finished /\ x.sentHeaders = st.sentHeaders
  /\ x.wrote = st.wrote /\ x.fin["loop"] = st.fin["loop"]
  /\ x.h \notin {"none", "gone"}
  /\ x.h \in {"window", "write"} => st.h = "window" \/ st.sentHeaders
  /\ \/ x.fin["handler"] = st.fin["handler"]
     \/ x.h = "returned"
     \/ x.h = "failed" /\ x.fin["handler"].err # Nil

LEMMA ReadFailsFields ==
  ASSUME NEW st \in ServerStream, NEW e \in Errors \ {Nil}, NEW bad \in BOOLEAN
  PROVE  Working(st, ReadFails(st, e, bad))
<1> DEFINE x == ReadFails(st, e, bad)
<1>0. st.fin \in [Actors -> Finish]
  BY DEF ServerStream
<1>1. PICK no \in BOOLEAN : no = FALSE
  OBVIOUS
<1>2. CASE bad
  <2>1. PICK fin \in [Actors -> Finish] : fin = [st.fin EXCEPT !["handler"] = [pc |-> "cancel", err |-> e, lock |-> TRUE]]
    BY <1>0, FinishRecords DEF Actors
  <2>2. x = [st EXCEPT !.err = e, !.second = no, !.h = "failed", !.fin = fin]
    BY <1>1, <1>2, <2>1, Zenon DEF ReadFails
  <2>3. /\ x.close = st.close /\ x.stat = st.stat /\ x.finished = st.finished /\ x.sentHeaders = st.sentHeaders
        /\ x.wrote = st.wrote /\ x.fin = fin /\ x.h = "failed"
    BY <2>2 DEF ServerStream
  <2>4. fin["loop"] = st.fin["loop"] /\ fin["handler"].err # Nil
    BY <1>0, <2>1 DEF Actors
  <2>. QED  BY <2>3, <2>4 DEF Working
<1>3. CASE ~bad
  <2>1. [st.fin EXCEPT !["handler"] = st.fin["handler"]] = st.fin
    BY <1>0
  <2>2. x = [st EXCEPT !.err = e, !.second = no, !.h = "run", !.fin = st.fin]
    BY <1>1, <1>3, <2>1, Zenon DEF ReadFails
  <2>3. /\ x.close = st.close /\ x.stat = st.stat /\ x.finished = st.finished /\ x.sentHeaders = st.sentHeaders
        /\ x.wrote = st.wrote /\ x.fin = st.fin /\ x.h = "run"
    BY <2>2 DEF ServerStream
  <2>. QED  BY <2>3 DEF Working
<1>. QED  BY <1>2, <1>3

LEMMA HaveMessageFields ==
  ASSUME NEW st \in ServerStream, st.h = "dequeue"
  PROVE  Working(st, HaveMessage(st))
<1>1. Working(st, ReadFails(st, "multiple", TRUE)) /\ Working(st, ReadFails(st, "canceled", FALSE))
  BY ReadFailsFields DEF Errors, Nil
<1>2. Working(st, [st EXCEPT !.h = "run", !.got = @ + 1]) /\ Working(st, [st EXCEPT !.second = TRUE])
  BY DEF Working, ServerStream
<1>3. st.second \in BOOLEAN /\ st.ctx \in BOOLEAN
  BY DEF ServerStream
<1>. QED  BY <1>1, <1>2, <1>3, Zenon DEF HaveMessage

LEMMA NoItemFields ==
  ASSUME NEW st \in ServerStream, st.h = "dequeue"
  PROVE  Working(st, NoItem(st))
<1>1. Working(st, HaveMessage(st))
  BY HaveMessageFields
<1>2. Working(st, [st EXCEPT !.h = "run", !.err = "EOF", !.second = FALSE, !.got = @ + 1])
  BY DEF Working, ServerStream
<1>3. st.half \in Errors
  BY DEF ServerStream
<1>4. ASSUME st.half # Nil
      PROVE  Working(st, ReadFails(st, st.half, FALSE))
  BY <1>3, <1>4, ReadFailsFields
<1>. QED  BY <1>1, <1>2, <1>4, Zenon DEF NoItem

LEMMA HandlerEffect ==
  ASSUME srv \in [Ids -> ServerStream], NEW s \in Ids,
         \/ Dequeue(s) \/ TakeWindow(s) \/ RecvMsg(s) \/ SendMsg(s)
         \/ \E err \in {Nil, "status"} : Return(s, err)
  PROVE  /\ \A t \in Ids \ {s} : srv'[t] = srv[t]
         /\ s2c' = s2c
         /\ srv[s].h \in {"run", "dequeue", "window"}
         /\ Working(srv[s], srv'[s])
<1>0. PICK st \in ServerStream : st = srv[s]
  OBVIOUS
<1>1. s2c' = s2c /\ st.h \in {"run", "dequeue", "window"}
  BY <1>0 DEF Dequeue, TakeWindow, RecvMsg, SendMsg, Return
<1>2. \A x : HandlerStep(s, x) => srv'[s] = x /\ \A t \in Ids \ {s} : srv'[t] = srv[t]
  BY DEF HandlerStep
<1>3. CASE Dequeue(s)
  <2>1. CASE HandlerStep(s, NoItem(st))
    BY <1>0, <1>1, <1>2, <1>3, <2>1, NoItemFields DEF Dequeue
  <2>2. CASE HandlerStep(s, HaveMessage([st EXCEPT !.items = @ - 1, !.took = @ + 1])) /\ st.items > 0
    <3>1. PICK x \in ServerStream : x = [st EXCEPT !.items = @ - 1, !.took = @ + 1]
      <4>1. PICK m \in Nat : m = st.items - 1
        BY <2>2 DEF ServerStream
      <4>2. PICK n \in Nat : n = st.took + 1
        BY DEF ServerStream
      <4>3. [st EXCEPT !.items = m, !.took = n] \in ServerStream
        BY DEF ServerStream
      <4>4. [st EXCEPT !.items = @ - 1, !.took = @ + 1] = [st EXCEPT !.items = m, !.took = n]
        BY <4>1, <4>2 DEF ServerStream
      <4>. QED  BY <4>3, <4>4
    <3>2. /\ x.close = st.close /\ x.stat = st.stat /\ x.finished = st.finished /\ x.sentHeaders = st.sentHeaders
          /\ x.wrote = st.wrote /\ x.fin = st.fin /\ x.h = st.h
      BY <3>1 DEF ServerStream
    <3>3. Working(x, HaveMessage(x))
      BY <1>0, <1>3, <3>2, HaveMessageFields DEF Dequeue
    <3>4. Working(st, HaveMessage(x))
      BY <3>2, <3>3 DEF Working
    <3>. QED  BY <1>0, <1>1, <1>2, <2>2, <3>1, <3>4
  <2>. QED  BY <1>0, <1>3, <2>1, <2>2 DEF Dequeue
<1>4. CASE TakeWindow(s)
  <2>1. PICK n : n = st.credit - 1
    OBVIOUS
  <2>2. PICK no : no = FALSE
    OBVIOUS
  <2>3. PICK x : HandlerStep(s, x) /\ (x = [st EXCEPT !.credit = n, !.h = "write"] \/ x = [st EXCEPT !.h = "run", !.locked = no])
    BY <1>0, <1>4, <2>1, <2>2, Zenon DEF TakeWindow
  <2>4. /\ x.close = st.close /\ x.stat = st.stat /\ x.finished = st.finished /\ x.sentHeaders = st.sentHeaders
        /\ x.wrote = st.wrote /\ x.fin = st.fin /\ x.h \in {"write", "run"}
    BY <2>3 DEF ServerStream
  <2>5. st.h = "window"
    BY <1>0, <1>4 DEF TakeWindow
  <2>. QED  BY <1>0, <1>1, <1>2, <2>3, <2>4, <2>5 DEF Working
<1>5. CASE RecvMsg(s)
  BY <1>0, <1>1, <1>5 DEF RecvMsg, HandlerStep, Working, ServerStream
<1>6. CASE SendMsg(s)
  BY <1>0, <1>1, <1>6 DEF SendMsg, HandlerStep, Working, HeadersDue, ServerStream
<1>7. ASSUME NEW err \in {Nil, "status"}, Return(s, err)
      PROVE  /\ \A t \in Ids \ {s} : srv'[t] = srv[t]
             /\ Working(srv[s], srv'[s])
  BY <1>0, <1>7 DEF Return, HandlerStep, Working, ServerStream, Actors
<1>. QED  BY <1>0, <1>1, <1>3, <1>4, <1>5, <1>6, <1>7

Quiet(st, x) ==
  /\ x.close = st.close /\ x.stat = st.stat /\ x.finished = st.finished /\ x.sentHeaders = st.sentHeaders
  /\ x.wrote = st.wrote /\ x.fin = st.fin /\ x.h = st.h

LEMMA TimerEffect ==
  ASSUME srv \in [Ids -> ServerStream], NEW s \in Ids, Timeout(s) \/ CancelReceiver(s)
  PROVE  s2c' = s2c /\ \A t \in Ids : Quiet(srv[t], srv'[t])
<1>0. PICK st \in ServerStream : st = srv[s]
  OBVIOUS
<1>1. PICK yes \in BOOLEAN : yes = TRUE
  OBVIOUS
<1>2. PICK x : /\ srv' = [srv EXCEPT ![s] = x] /\ s2c' = s2c
               /\ x = [st EXCEPT !.ctx = yes] \/ x = [st EXCEPT !.cancelled = yes, !.items = 0]
  BY <1>0, <1>1, Zenon DEF Timeout, CancelReceiver
<1>3. Quiet(st, x)
  BY <1>2 DEF ServerStream, Quiet
<1>4. srv'[s] = x /\ \A t \in Ids \ {s} : srv'[t] = srv[t]
  BY <1>2
<1>. QED  BY <1>0, <1>2, <1>3, <1>4 DEF Quiet

LEMMA SendCloseEffect ==
  ASSUME srv \in [Ids -> ServerStream], NEW s \in Ids, SendClose(s)
  PROVE  /\ \A t \in Ids \ {s} : srv'[t] = srv[t]
         /\ srv[s].close \in {"headers", "close"}
         /\ srv'[s].close = IF srv[s].close = "headers" THEN "close" ELSE "sent"
         /\ srv'[s].stat = srv[s].stat /\ srv'[s].finished = srv[s].finished
         /\ srv'[s].sentHeaders = srv[s].sentHeaders /\ srv'[s].wrote = srv[s].wrote
         /\ srv'[s].fin = srv[s].fin /\ srv'[s].h = srv[s].h
BY DEF SendClose, ServerStream

LEMMA SendHeadersEffect ==
  ASSUME srv \in [Ids -> ServerStream], NEW s \in Ids, SendHeaders(s)
  PROVE  /\ \A t \in Ids \ {s} : srv'[t] = srv[t]
         /\ srv[s].h = "headers" /\ srv'[s].h = IF ServerSendFails THEN "run" ELSE "window"
         /\ srv'[s].sentHeaders
         /\ srv'[s].close = srv[s].close /\ srv'[s].stat = srv[s].stat /\ srv'[s].finished = srv[s].finished
         /\ srv'[s].wrote = srv[s].wrote /\ srv'[s].fin = srv[s].fin
<1>0. PICK st \in ServerStream : st = srv[s]
  OBVIOUS
<1>1. PICK h : h = IF ServerSendFails THEN "run" ELSE "window"
  OBVIOUS
<1>2. PICK n : n = IF ServerSendFails THEN st.numSent ELSE st.numSent + 1
  OBVIOUS
<1>3. PICK b : b = ~ServerSendFails
  OBVIOUS
<1>4. PICK yes \in BOOLEAN : yes = TRUE
  OBVIOUS
<1>5. PICK x : x = [st EXCEPT !.sentHeaders = yes, !.locked = b, !.h = h, !.numSent = n]
  OBVIOUS
<1>6. srv' = [srv EXCEPT ![s] = x] /\ st.h = "headers"
  BY <1>0, <1>1, <1>2, <1>3, <1>4, <1>5, Zenon DEF SendHeaders, HandlerStep
<1>7. /\ x.close = st.close /\ x.stat = st.stat /\ x.finished = st.finished /\ x.sentHeaders = yes
      /\ x.wrote = st.wrote /\ x.fin = st.fin /\ x.h = h
  BY <1>5 DEF ServerStream
<1>. QED  BY <1>0, <1>1, <1>4, <1>6, <1>7

LEMMA WriteMsgEffect ==
  ASSUME srv \in [Ids -> ServerStream], NEW s \in Ids, WriteMsg(s)
  PROVE  /\ \A t \in Ids \ {s} : srv'[t] = srv[t]
         /\ srv[s].h = "write" /\ srv'[s].h = "run" /\ srv'[s].wrote = srv[s].wrote + 1
         /\ srv'[s].sentHeaders = srv[s].sentHeaders
         /\ srv'[s].close = srv[s].close /\ srv'[s].stat = srv[s].stat /\ srv'[s].finished = srv[s].finished
         /\ srv'[s].fin = srv[s].fin
BY DEF WriteMsg, HandlerStep, ServerStream

\* A frame for stream id creates it, with a handler or without, or goes to it.
Created(id) ==
  /\ id > lastSeen /\ lastSeen' = id
  /\ \A t \in Ids \ {id} : srv'[t] = srv[t]
  /\ cli[id].new = "open"
  /\ srv'[id].finished = srv[id].finished /\ srv'[id].sentHeaders = srv[id].sentHeaders
  /\ srv'[id].wrote = srv[id].wrote /\ srv'[id].fin = srv[id].fin
  /\ \/ /\ srv'[id].h = "run" /\ srv'[id].close = srv[id].close /\ srv'[id].stat = srv[id].stat
        /\ svrStreams' = svrStreams \cup {id}
     \/ /\ srv'[id].h = srv[id].h /\ srv'[id].close = "close" /\ srv'[id].stat = "status"
        /\ svrStreams' = svrStreams

Dispatched(id) ==
  /\ id \in svrStreams /\ svrStreams' = svrStreams /\ lastSeen' = lastSeen
  /\ \A t \in Ids \ {id} : srv'[t] = srv[t]
  /\ srv'[id].finished = srv[id].finished /\ srv'[id].sentHeaders = srv[id].sentHeaders
  /\ srv'[id].wrote = srv[id].wrote /\ srv'[id].h = srv[id].h
  /\ srv'[id].close = srv[id].close /\ srv'[id].stat = srv[id].stat
  /\ srv'[id].fin["handler"] = srv[id].fin["handler"]
  /\ srv'[id].fin["loop"].pc # "no" => srv'[id].fin["loop"].err # Nil

LEMMA AcceptFields ==
  ASSUME NEW f \in ClientFrame, f.kind # "new", srv \in [Ids -> ServerStream], srv[f.id].fin["loop"].pc = "no"
  PROVE  LET x == acceptClientFrame(f) IN
         /\ x.finished = srv[f.id].finished /\ x.sentHeaders = srv[f.id].sentHeaders
         /\ x.wrote = srv[f.id].wrote /\ x.h = srv[f.id].h /\ x.close = srv[f.id].close /\ x.stat = srv[f.id].stat
         /\ x.fin["handler"] = srv[f.id].fin["handler"]
         /\ x.fin["loop"].pc # "no" => x.fin["loop"].err # Nil
<1> DEFINE x == acceptClientFrame(f)
<1>0. f.id \in Ids /\ f.kind \in {"msg", "half", "cancel", "update"}
  BY DEF ClientFrame
<1>1. PICK st \in ServerStream : st = srv[f.id]
  BY <1>0
<1>2. st.fin \in [Actors -> Finish]
  BY DEF ServerStream
<1>3. PICK fin : fin = [st.fin EXCEPT !["loop"] = [pc |-> "half", err |-> "EOF", lock |-> FALSE]]
  OBVIOUS
<1>4. PICK fin2 : fin2 = [st.fin EXCEPT !["loop"] = [pc |-> "cancel", err |-> "canceled", lock |-> TRUE]]
  OBVIOUS
<1>5. PICK n : n = st.credit + 1
  OBVIOUS
<1>6. PICK m : m = IF st.closed THEN st.items ELSE st.items + 1
  OBVIOUS
<1>7. \/ x = [st EXCEPT !.fin = fin] \/ x = [st EXCEPT !.fin = fin2]
      \/ x = [st EXCEPT !.credit = n] \/ x = [st EXCEPT !.items = m]
  BY <1>0, <1>1, <1>3, <1>4, <1>5, <1>6, Zenon DEF acceptClientFrame
<1>. HIDE DEF x
<1>8. /\ x.finished = st.finished /\ x.sentHeaders = st.sentHeaders
      /\ x.wrote = st.wrote /\ x.h = st.h /\ x.close = st.close /\ x.stat = st.stat
      /\ x.fin = fin \/ x.fin = fin2 \/ x.fin = st.fin
  BY <1>7 DEF ServerStream
<1>9. fin["handler"] = st.fin["handler"] /\ fin2["handler"] = st.fin["handler"] /\ fin["loop"].err # Nil /\ fin2["loop"].err # Nil
  BY <1>2, <1>3, <1>4 DEF Actors, Nil
<1>. QED  BY <1>1, <1>8, <1>9 DEF x

LEMMA ServeEffect ==
  ASSUME IInv, ServeStep
  PROVE  /\ s2c' = s2c \/ (s2c' = <<>> /\ ServerSendFails')
         /\ \/ /\ \A t \in Ids : Quiet(srv[t], srv'[t])
               /\ svrStreams' = svrStreams /\ lastSeen' = lastSeen
            \/ \E id \in Ids : Created(id) \/ Dispatched(id)
<1>0. srv \in [Ids -> ServerStream] /\ TypeOK
  BY DEF IInv, TypeOK
<1>1. ASSUME srv' = [s \in Ids |-> [srv[s] EXCEPT !.ctx = @ \/ srv[s].h # "none"]]
      PROVE  \A t \in Ids : Quiet(srv[t], srv'[t])
  BY <1>0, <1>1 DEF Quiet, ServerStream
<1>2. CASE Break
  BY <1>1, <1>2 DEF Break, ServerSendFails
<1>3. CASE ServerRecvEnd
  BY <1>1, <1>3 DEF ServerRecvEnd, EndServe
<1>4. CASE InitiateShutdown \/ Stop \/ HangUp
  BY <1>4 DEF InitiateShutdown, Stop, HangUp, serverVars, Quiet
<1>5. CASE ServerRecv
  <2> DEFINE f == Head(c2s)
  <2>1. f \in ClientFrame /\ f = c2s[1] /\ 1 \in Frames(c2s)
    BY <1>0, <1>5, TailFacts DEF ServerRecv, TypeOK
  <2>2. f.id \in Ids
    BY <2>1 DEF ClientFrame
  <2>3. s2c' = s2c /\ srv[f.id].fin["loop"].pc = "no"
    BY <1>5, <2>2 DEF ServerRecv, ServerLoopFree
  <2>. HIDE DEF f
  <2>4. f.kind = "new" => f.id > lastSeen /\ f.id \notin svrStreams
    BY <1>0, <2>1, <2>2, RequestsTypes DEF IInv, Requests, Registered
  <2>5. f.kind # "new" => f.id <= lastSeen
    BY <1>0, <2>1, <2>2, RequestsTypes DEF IInv, Requests
  <2>6. f.id \in Int /\ lastSeen \in Int
    BY <1>0, <2>2, RequestsTypes
  <2>7. cli[f.id].new = "open"
    BY <2>1 DEF IInv, Requests
  <2>8. \/ /\ f.kind = "new" /\ f.id > lastSeen
           /\ \E accepted \in BOOLEAN : createStream(f.id, accepted)
        \/ /\ f.kind # "new"
           /\ srv' = IF f.id \in svrStreams THEN [srv EXCEPT ![f.id] = acceptClientFrame(f)] ELSE srv
           /\ UNCHANGED <<svrStreams, lastSeen>>
    <3>1. ~(IF f.kind = "new" THEN f.id <= lastSeen \/ f.id \in svrStreams
                              ELSE f.id \notin svrStreams /\ f.id > lastSeen)
      <4>1. CASE f.kind = "new"
        BY <2>4, <2>6, <4>1
      <4>2. CASE f.kind # "new"
        BY <2>5, <2>6, <4>2
      <4>. QED  BY <4>1, <4>2
    <3>. QED  BY <1>5, <3>1, Zenon DEF ServerRecv, f
  <2>9. ASSUME f.id > lastSeen, NEW accepted \in BOOLEAN, createStream(f.id, accepted)
        PROVE  Created(f.id)
    <3>1. CASE accepted
      BY <1>0, <2>2, <2>7, <2>9, <3>1 DEF createStream, Seen, Created, ServerStream
    <3>2. CASE ~accepted
      BY <1>0, <2>2, <2>7, <2>9, <3>2 DEF createStream, Seen, Created, ServerStream
    <3>. QED  BY <3>1, <3>2
  <2>10. ASSUME f.kind # "new", f.id \in svrStreams, srv' = [srv EXCEPT ![f.id] = acceptClientFrame(f)],
                UNCHANGED <<svrStreams, lastSeen>>
         PROVE  Dispatched(f.id)
    <3>1. srv'[f.id] = acceptClientFrame(f) /\ \A t \in Ids \ {f.id} : srv'[t] = srv[t]
      BY <1>0, <2>2, <2>10
    <3>. QED  BY <1>0, <2>1, <2>2, <2>3, <2>10, <3>1, AcceptFields DEF Dispatched
  <2>11. ASSUME srv' = srv, UNCHANGED <<svrStreams, lastSeen>>
         PROVE  \A t \in Ids : Quiet(srv[t], srv'[t])
    BY <2>11 DEF Quiet
  <2>. QED  BY <2>2, <2>3, <2>8, <2>9, <2>10, <2>11
<1>. QED  BY <1>2, <1>3, <1>4, <1>5 DEF ServeStep
-----------------------------------------------------------------------------
LEMMA OpenStays ==
  ASSUME IInv, Next, NEW t \in Ids, cli[t].new = "open"
  PROVE  cli'[t].new = "open"
<1>0. TypeOK /\ cli \in [Ids -> ClientStream]
  BY DEF IInv, TypeOK
<1>1. ASSUME NEW s \in Ids, ClientStreamStep(s)
      PROVE  cli'[t].new = cli[t].new
  <2>1. CASE SendNewStream(s)
    BY <1>0, <2>1, SendNewStreamFields DEF Only, SendNewStream
  <2>2. CASE ~SendNewStream(s)
    BY <1>0, <1>1, <2>2, RequestCases
  <2>. QED  BY <2>1, <2>2
<1>2. ASSUME NEW ok \in BOOLEAN, allocateStream(ok)
      PROVE  cli'[t].new = cli[t].new
  <2>1. t # lastStreamID + 1
    BY <1>0, RequestsTypes DEF IInv, Creation, CreationOf
  <2>. QED  BY <1>0, <1>2, <2>1 DEF allocateStream
<1>3. ASSUME ClientRecv
      PROVE  cli'[t].new = cli[t].new
  <2>1. PICK f : f.id \in Ids /\ (cli' = cli \/ Received(f))
    BY <1>0, <1>3, ReceiveCases
  <2>. QED  BY <1>0, <2>1, ReceivedFields DEF Only, Life
<1>4. ASSUME NEW w, CloseSection(w)
      PROVE  cli'[t].new = cli[t].new
  BY <1>0, <1>4 DEF CloseSection, ClientStream
<1>5. CASE ClientRecvEnd \/ Close \/ \E w \in {"user", "loop"} : CloseTearDown(w)
  BY <1>5 DEF ClientRecvEnd, Close, CloseTearDown
<1>6. CASE ServeStep \/ \E s \in Ids : ServerStreamStep(s)
  BY <1>6, ServerSide
<1>. QED  BY <1>1, <1>2, <1>3, <1>4, <1>5, <1>6, Steps DEF ChannelStep

\* A step of a stream that the server knows.
LEMMA RegisteredKeeps ==
  ASSUME IInv, Next, NEW s \in Ids, lastSeen' = lastSeen, svrStreams' \subseteq svrStreams,
         \A t \in Ids \ {s} : srv'[t] = srv[t],
         srv[s].h # "none" /\ srv'[s].h # "none"
  PROVE  Registered'
<1>1. TypeOK /\ Registered
  BY DEF IInv
<1>2. s <= lastSeen /\ s \in Int /\ lastSeen \in Int
  BY <1>1, RequestsTypes DEF Registered
<1>3. \A t \in Ids : srv[t].h # "none" \/ srv[t].close # "no" => cli'[t].new = "open"
  BY <1>1, OpenStays DEF Registered
<1>4. ASSUME NEW t \in Ids, t # s
      PROVE  /\ t > lastSeen => srv'[t].h = "none" /\ srv'[t].close = "no" /\ t \notin svrStreams'
             /\ t \in svrStreams' => srv'[t].h # "none"
             /\ srv'[t].h = "none" =>
                  /\ \A w \in Actors : srv'[t].fin[w].pc = "no"
                  /\ srv'[t].wrote = 0 /\ ~srv'[t].sentHeaders /\ ~srv'[t].finished
             /\ srv'[t].h # "none" \/ srv'[t].close # "no" => cli'[t].new = "open"
  <2>1. srv'[t] = srv[t] /\ (t \in svrStreams' => t \in svrStreams)
    BY <1>4
  <2>. QED  BY <1>1, <1>3, <2>1 DEF Registered
<1>5. ~(s > lastSeen) /\ cli'[s].new = "open"
  BY <1>2, <1>3
<1>. QED  BY <1>4, <1>5 DEF Registered

LEMMA RegisteredQuiet ==
  ASSUME IInv, Next, lastSeen' = lastSeen, svrStreams' \subseteq svrStreams,
         \A t \in Ids : /\ srv'[t].h = srv[t].h /\ srv'[t].fin = srv[t].fin /\ srv'[t].wrote = srv[t].wrote
                        /\ srv'[t].sentHeaders = srv[t].sentHeaders /\ srv'[t].finished = srv[t].finished
                        /\ srv[t].close = "no" <=> srv'[t].close = "no"
  PROVE  Registered'
<1>1. \A t \in Ids : srv[t].h # "none" \/ srv[t].close # "no" => cli'[t].new = "open"
  BY OpenStays DEF IInv, Registered
<1>. QED  BY <1>1 DEF IInv, Registered

LEMMA RegisteredStep ==
  ASSUME IInv, Next
  PROVE  Registered'
<1>0. TypeOK /\ srv \in [Ids -> ServerStream] /\ Registered
  BY DEF IInv, TypeOK
<1>1. CASE ChannelStep \/ \E s \in Ids : ClientStreamStep(s)
  <2>1. UNCHANGED <<srv, lastSeen, svrStreams>>
    BY <1>1, ClientSide
  <2>. QED  BY <2>1, RegisteredQuiet
<1>2. ASSUME NEW s \in Ids, ServerStreamStep(s)
      PROVE  Registered'
  <2>0. lastSeen' = lastSeen /\ svrStreams' \subseteq svrStreams
    BY <1>2, ServerStreamSide
  <2>1. ASSUME NEW w \in Actors, StopStep(s, w)
        PROVE  Registered'
    <3>1. srv[s].h # "none"
      BY <1>0, <2>1, StopEffect DEF Registered
    <3>2. srv'[s].h # "none"
      BY <1>0, <2>1, <3>1, StopEffect DEF Actors
    <3>. QED  BY <1>0, <2>0, <2>1, <3>1, <3>2, StopEffect, RegisteredKeeps
  <2>2. CASE \/ Dequeue(s) \/ TakeWindow(s) \/ RecvMsg(s) \/ SendMsg(s)
             \/ \E err \in {Nil, "status"} : Return(s, err)
    BY <1>0, <2>0, <2>2, HandlerEffect, RegisteredKeeps DEF Working
  <2>3. CASE SendClose(s)
    <3>1. \A t \in Ids : /\ srv'[t].h = srv[t].h /\ srv'[t].fin = srv[t].fin /\ srv'[t].wrote = srv[t].wrote
                         /\ srv'[t].sentHeaders = srv[t].sentHeaders /\ srv'[t].finished = srv[t].finished
                         /\ srv[t].close = "no" <=> srv'[t].close = "no"
      BY <1>0, <2>3, SendCloseEffect
    <3>. QED  BY <2>0, <3>1, RegisteredQuiet
  <2>4. CASE SendHeaders(s)
    BY <1>0, <2>0, <2>4, SendHeadersEffect, RegisteredKeeps
  <2>5. CASE WriteMsg(s)
    BY <1>0, <2>0, <2>5, WriteMsgEffect, RegisteredKeeps
  <2>6. CASE Timeout(s) \/ CancelReceiver(s)
    BY <1>0, <2>0, <2>6, TimerEffect, RegisteredQuiet DEF Quiet
  <2>. QED  BY <1>2, <2>1, <2>2, <2>3, <2>4, <2>5, <2>6 DEF ServerStreamStep, HandlerLibStep
<1>3. CASE ServeStep
  <2>1. ASSUME \A t \in Ids : Quiet(srv[t], srv'[t]), svrStreams' = svrStreams, lastSeen' = lastSeen
        PROVE  Registered'
    BY <2>1, RegisteredQuiet DEF Quiet
  <2>2. ASSUME NEW id \in Ids, Created(id)
        PROVE  Registered'
    <3>1. Ids \subseteq Int /\ lastSeen \in Int
      BY <1>0, RequestsTypes
    <3>2. \A t \in Ids : t > lastSeen' => t > lastSeen /\ t # id
      BY <2>2, <3>1 DEF Created
    <3>3. \A t \in Ids : srv[t].h # "none" \/ srv[t].close # "no" => cli'[t].new = "open"
      BY <1>0, OpenStays DEF Registered
    <3>4. cli'[id].new = "open"
      BY <2>2, OpenStays DEF Created
    <3>. QED  BY <1>0, <2>2, <3>2, <3>3, <3>4 DEF Registered, Created
  <2>3. ASSUME NEW id \in Ids, Dispatched(id)
        PROVE  Registered'
    <3>1. srv[id].h # "none"
      BY <1>0, <2>3 DEF Dispatched, Registered
    <3>. QED  BY <2>3, <3>1, RegisteredKeeps DEF Dispatched
  <2>. QED  BY <1>3, <2>1, <2>2, <2>3, ServeEffect
<1>. QED  BY <1>1, <1>2, <1>3, Steps

LEMMA OutcomeStep ==
  ASSUME IInv, Next
  PROVE  Outcome'
<1>0. TypeOK /\ srv \in [Ids -> ServerStream] /\ Registered /\ Outcome
  BY DEF IInv, TypeOK
<1>1. CASE ChannelStep \/ \E s \in Ids : ClientStreamStep(s)
  <2>1. srv' = srv
    BY <1>1, ClientSide
  <2>. QED  BY <1>0, <2>1 DEF Outcome, Succeeded
<1>2. ASSUME NEW s \in Ids, ServerStreamStep(s)
      PROVE  Outcome'
  <2>1. ASSUME NEW w \in Actors, StopStep(s, w)
        PROVE  Outcome'
    <3>1. srv[s].h # "none"
      BY <1>0, <2>1, StopEffect DEF Registered
    <3>2. CASE w = "loop"
      BY <1>0, <2>1, <3>1, <3>2, StopEffect DEF Outcome, Succeeded, Undecided, Decided, Actors, Nil
    <3>3. CASE w = "handler"
      BY <1>0, <2>1, <3>1, <3>3, StopEffect DEF Outcome, Succeeded, Undecided, Decided, Actors, Nil
    <3>. QED  BY <3>2, <3>3 DEF Actors
  <2>2. CASE \/ Dequeue(s) \/ TakeWindow(s) \/ RecvMsg(s) \/ SendMsg(s)
             \/ \E err \in {Nil, "status"} : Return(s, err)
    BY <1>0, <2>2, HandlerEffect DEF Working, Outcome, Succeeded
  <2>3. CASE SendClose(s)
    BY <1>0, <2>3, SendCloseEffect DEF Outcome, Succeeded
  <2>4. CASE SendHeaders(s)
    BY <1>0, <2>4, SendHeadersEffect DEF Outcome, Succeeded
  <2>5. CASE WriteMsg(s)
    BY <1>0, <2>5, WriteMsgEffect DEF Outcome, Succeeded
  <2>6. CASE Timeout(s) \/ CancelReceiver(s)
    BY <1>0, <2>6, TimerEffect DEF Quiet, Outcome, Succeeded
  <2>. QED  BY <1>2, <2>1, <2>2, <2>3, <2>4, <2>5, <2>6 DEF ServerStreamStep, HandlerLibStep
<1>3. CASE ServeStep
  <2>1. ASSUME \A t \in Ids : Quiet(srv[t], srv'[t])
        PROVE  Outcome'
    BY <1>0, <2>1 DEF Quiet, Outcome, Succeeded
  <2>2. ASSUME NEW id \in Ids, Created(id)
        PROVE  Outcome'
    <3>1. srv[id].h = "none" /\ srv[id].close = "no"
      BY <1>0, <2>2 DEF Registered, Created
    <3>. QED  BY <1>0, <2>2, <3>1 DEF Outcome, Succeeded, Registered, Created, Nil
  <2>3. ASSUME NEW id \in Ids, Dispatched(id)
        PROVE  Outcome'
    BY <1>0, <2>3 DEF Outcome, Succeeded, Dispatched
  <2>. QED  BY <1>3, <2>1, <2>2, <2>3, ServeEffect
<1>. QED  BY <1>1, <1>2, <1>3, Steps
-----------------------------------------------------------------------------
LEMMA ResponsesTypes ==
  ASSUME TypeOK
  PROVE  /\ Len(s2c) \in Nat /\ Frames(s2c) \subseteq Nat
         /\ \A i \in Frames(s2c) : /\ s2c[i] \in ServerFrame /\ s2c[i].id \in Ids /\ s2c[i].stat \in {Nil, "status"}
                                   /\ s2c[i].kind \in {"headers", "msg", "close"}
<1>2. s2c \in Seq(ServerFrame)
  BY DEF TypeOK
<1>3. Len(s2c) \in Nat /\ \A i \in Frames(s2c) : s2c[i] \in ServerFrame
  BY <1>2 DEF Frames
<1>4. \A f \in ServerFrame : f.id \in Ids /\ f.kind \in {"headers", "msg", "close"} /\ f.stat \in {Nil, "status"}
  BY DEF ServerFrame
<1>. QED  BY <1>3, <1>4 DEF Frames

\* The transport after a frame has been sent to the client, or taken by it.
LEMMA Sent ==
  ASSUME TypeOK, NEW s \in Ids, NEW k \in {"headers", "msg", "close"}, NEW x \in {Nil, "status"},
         SendToClient(k, s, x), ~ServerSendFails
  PROVE  /\ Len(s2c') = Len(s2c) + 1 /\ Frames(s2c') = Frames(s2c) \cup {Len(s2c) + 1}
         /\ Len(s2c) + 1 \notin Frames(s2c) /\ \A i \in Frames(s2c) : i < Len(s2c) + 1
         /\ \A i \in Frames(s2c) : s2c'[i] = s2c[i]
         /\ s2c'[Len(s2c) + 1].kind = k /\ s2c'[Len(s2c) + 1].id = s /\ s2c'[Len(s2c) + 1].stat = x
<1> DEFINE e == [kind |-> k, id |-> s, stat |-> x]
<1>1. s2c \in Seq(ServerFrame) /\ Len(s2c) \in Nat
  BY DEF TypeOK
<1>2. e \in ServerFrame /\ e.kind = k /\ e.id = s /\ e.stat = x
  BY DEF ServerFrame
<1>3. s2c' = Append(s2c, e)
  BY DEF SendToClient
<1>. HIDE DEF e
<1>4. /\ Len(Append(s2c, e)) = Len(s2c) + 1 /\ \A i \in Frames(s2c) : Append(s2c, e)[i] = s2c[i]
      /\ Append(s2c, e)[Len(s2c) + 1] = e
  BY <1>1, <1>2 DEF Frames
<1>5. Len(s2c') = Len(s2c) + 1 /\ s2c'[Len(s2c) + 1] = e /\ \A i \in Frames(s2c) : s2c'[i] = s2c[i]
  BY <1>3, <1>4, Zenon
<1>6. /\ Frames(s2c') = Frames(s2c) \cup {Len(s2c) + 1}
      /\ Len(s2c) + 1 \notin Frames(s2c) /\ \A i \in Frames(s2c) : i < Len(s2c) + 1
  BY <1>1, <1>5 DEF Frames
<1>. QED  BY <1>2, <1>5, <1>6

LEMMA TakenFacts ==
  ASSUME TypeOK, ClientRecv
  PROVE  /\ Len(s2c') = Len(s2c) - 1 /\ Len(s2c) \in Nat /\ Len(s2c) > 0
         /\ 1 \in Frames(s2c) /\ Head(s2c) = s2c[1]
         /\ \A i \in Frames(s2c') : i \in Nat /\ s2c'[i] = s2c[i + 1] /\ i + 1 \in Frames(s2c) /\ i + 1 # 1
         /\ \A i \in Frames(s2c) : i # 1 => i \in Nat /\ i - 1 \in Frames(s2c') /\ s2c'[i - 1] = s2c[i] /\ (i - 1) + 1 = i
<1>1. s2c \in Seq(ServerFrame) /\ s2c # <<>> /\ s2c' = Tail(s2c)
  BY DEF TypeOK, ClientRecv
<1>2. /\ Len(s2c') = Len(s2c) - 1 /\ Len(s2c) \in Nat /\ Len(s2c) > 0
      /\ 1 \in Frames(s2c) /\ Head(s2c) = s2c[1]
      /\ \A i \in Frames(s2c') : s2c'[i] = s2c[i + 1] /\ i + 1 \in Frames(s2c)
  BY <1>1, TailFacts
<1>3. \A i \in Frames(s2c) : i # 1 => i \in Nat /\ i - 1 \in Frames(s2c') /\ (i - 1) + 1 = i
  BY <1>2 DEF Frames
<1>4. \A i \in Frames(s2c') : i \in Nat /\ i + 1 # 1
  BY <1>2 DEF Frames
<1>. QED  BY <1>2, <1>3, <1>4

LEMMA ResponsesSame ==
  ASSUME TypeOK, Responses, s2c' = s2c,
         \A t \in Ids : /\ srv[t].h # "none" => srv'[t].h # "none"
                        /\ srv[t].close # "no" => srv'[t].close # "no"
                        /\ srv[t].close = "sent" => srv'[t].close = "sent" /\ srv'[t].stat = srv[t].stat
                        /\ cli'[t].done \in {"EOF", "status"} => cli'[t].done = cli[t].done
  PROVE  Responses'
<1>1. \A i \in Frames(s2c) : s2c[i].id \in Ids
  BY ResponsesTypes
<1>2. ASSUME NEW i \in Frames(s2c)
      PROVE  /\ srv'[s2c[i].id].h # "none" \/ srv'[s2c[i].id].close # "no"
             /\ s2c[i].kind = "close" =>
                  /\ srv'[s2c[i].id].close = "sent" /\ srv'[s2c[i].id].stat = s2c[i].stat
                  /\ cli'[s2c[i].id].done \notin {"EOF", "status"}
  BY <1>1, <1>2 DEF Responses
<1>3. ASSUME NEW i \in Frames(s2c), s2c[i].kind = "close"
      PROVE  /\ \A j \in Frames(s2c) : s2c[j].kind = "close" /\ s2c[j].id = s2c[i].id => j = i
             /\ s2c[i].stat = Nil => \A j \in Frames(s2c) : s2c[j].kind = "msg" /\ s2c[j].id = s2c[i].id => j < i
  BY <1>3 DEF Responses
<1>4. ASSUME NEW t \in Ids
      PROVE  /\ cli'[t].done = "EOF" => srv'[t].close = "sent" /\ srv'[t].stat = Nil /\ ~OnItsWay("msg", t)'
             /\ cli'[t].done = "status" => srv'[t].close = "sent" /\ srv'[t].stat = "status"
  BY DEF Responses, OnItsWay
<1>. QED  BY <1>2, <1>3, <1>4 DEF Responses

\* A frame is sent for stream s, whose outcome may be sent by it.
LEMMA ResponsesSent ==
  ASSUME TypeOK, Responses, NEW s \in Ids, NEW k \in {"headers", "msg", "close"}, NEW x \in {Nil, "status"},
         SendToClient(k, s, x), ~ServerSendFails, cli' = cli,
         \A t \in Ids : /\ srv[t].h # "none" => srv'[t].h # "none"
                        /\ srv[t].close # "no" => srv'[t].close # "no"
                        /\ srv[t].close = "sent" => srv'[t].close = "sent" /\ srv'[t].stat = srv[t].stat,
         srv'[s].h # "none" \/ srv'[s].close # "no",
         k = "close" => srv[s].close # "sent" /\ srv'[s].close = "sent" /\ srv'[s].stat = x,
         k = "msg" => ~Succeeded(s)
  PROVE  Responses'
<1> DEFINE n == Len(s2c) + 1
<1>0. /\ Frames(s2c') = Frames(s2c) \cup {n} /\ n \notin Frames(s2c) /\ \A i \in Frames(s2c) : i < n
      /\ \A i \in Frames(s2c) : s2c'[i] = s2c[i]
      /\ s2c'[n].kind = k /\ s2c'[n].id = s /\ s2c'[n].stat = x
  BY Sent
<1>. HIDE DEF n
<1>1. \A i \in Frames(s2c) : s2c[i].id \in Ids
  BY ResponsesTypes
<1>2. ASSUME NEW i \in Frames(s2c')
      PROVE  srv'[s2c'[i].id].h # "none" \/ srv'[s2c'[i].id].close # "no"
  BY <1>0, <1>1 DEF Responses
<1>3. ASSUME NEW i \in Frames(s2c'), s2c'[i].kind = "close"
      PROVE  /\ srv'[s2c'[i].id].close = "sent" /\ srv'[s2c'[i].id].stat = s2c'[i].stat
             /\ cli[s2c'[i].id].done \notin {"EOF", "status"}
  <2>1. CASE i \in Frames(s2c)
    BY <1>0, <1>1, <1>3, <2>1 DEF Responses
  <2>2. CASE i = n
    BY <1>0, <1>3, <2>2 DEF Responses
  <2>. QED  BY <1>0, <2>1, <2>2
<1>4. ASSUME NEW i \in Frames(s2c'), NEW j \in Frames(s2c'), s2c'[i].kind = "close", s2c'[j].kind = "close",
             s2c'[i].id = s2c'[j].id
      PROVE  j = i
  <2>1. ASSUME k = "close", NEW l \in Frames(s2c), s2c[l].kind = "close", s2c[l].id = s
        PROVE  FALSE
    BY <2>1 DEF Responses
  <2>2. CASE i \in Frames(s2c) /\ j \in Frames(s2c)
    BY <1>0, <1>4, <2>2 DEF Responses
  <2>3. CASE i = n \/ j = n
    BY <1>0, <1>4, <2>1, <2>3
  <2>. QED  BY <1>0, <2>2, <2>3
<1>5. ASSUME NEW i \in Frames(s2c'), NEW j \in Frames(s2c'), s2c'[i].kind = "close", s2c'[i].stat = Nil,
             s2c'[j].kind = "msg", s2c'[j].id = s2c'[i].id
      PROVE  j < i
  <2>1. CASE i = n
    BY <1>0, <1>5, <2>1
  <2>2. CASE i \in Frames(s2c) /\ j \in Frames(s2c)
    BY <1>0, <1>5, <2>2 DEF Responses
  <2>3. CASE i \in Frames(s2c) /\ j = n
    <3>1. srv[s].close = "sent" /\ srv[s].stat = Nil
      BY <1>0, <1>5, <2>3 DEF Responses
    <3>. QED  BY <1>0, <1>5, <2>3, <3>1 DEF Succeeded
  <2>. QED  BY <1>0, <2>1, <2>2, <2>3
<1>6. ASSUME NEW t \in Ids
      PROVE  /\ cli[t].done = "EOF" => srv'[t].close = "sent" /\ srv'[t].stat = Nil /\ ~OnItsWay("msg", t)'
             /\ cli[t].done = "status" => srv'[t].close = "sent" /\ srv'[t].stat = "status"
  <2>1. ASSUME cli[t].done = "EOF", NEW i \in Frames(s2c'), s2c'[i].kind = "msg", s2c'[i].id = t
        PROVE  FALSE
    BY <1>0, <2>1 DEF Responses, OnItsWay, Succeeded
  <2>. QED  BY <2>1 DEF Responses, OnItsWay
<1>. QED  BY <1>2, <1>3, <1>4, <1>5, <1>6 DEF Responses

LEMMA ResponsesTaken ==
  ASSUME IInv, ClientRecv
  PROVE  Responses'
<1>0. TypeOK /\ Responses /\ cli \in [Ids -> ClientStream] /\ srv' = srv
  BY DEF IInv, TypeOK, ClientRecv, serverVars
<1>1. /\ 1 \in Frames(s2c) /\ Head(s2c) = s2c[1]
      /\ \A i \in Frames(s2c') : i \in Nat /\ s2c'[i] = s2c[i + 1] /\ i + 1 \in Frames(s2c) /\ i + 1 # 1
  BY <1>0, TakenFacts
<1>2. \A i \in Frames(s2c) : s2c[i].id \in Ids
  BY <1>0, ResponsesTypes
<1>3. ASSUME NEW t \in Ids
      PROVE  \/ cli'[t].done = cli[t].done
             \/ /\ s2c[1].kind = "close" /\ s2c[1].id = t /\ cli'[t].done \in {"EOF", "status"}
                /\ cli'[t].done = "EOF" <=> s2c[1].stat = Nil
  <2>1. PICK f : f = s2c[1] /\ f.id \in Ids /\ (cli' = cli \/ Received(f))
    BY <1>0, <1>1, ReceiveCases
  <2>. QED  BY <1>0, <2>1, ReceivedFields DEF Only
<1>4. ASSUME NEW i \in Frames(s2c')
      PROVE  srv[s2c'[i].id].h # "none" \/ srv[s2c'[i].id].close # "no"
  BY <1>0, <1>1 DEF Responses
<1>5. ASSUME NEW i \in Frames(s2c'), s2c'[i].kind = "close"
      PROVE  /\ srv[s2c'[i].id].close = "sent" /\ srv[s2c'[i].id].stat = s2c'[i].stat
             /\ cli'[s2c'[i].id].done \notin {"EOF", "status"}
  <2>1. s2c'[i] = s2c[i + 1] /\ i + 1 \in Frames(s2c) /\ i + 1 # 1 /\ s2c[i + 1].id \in Ids
    BY <1>1, <1>2
  <2>2. /\ srv[s2c[i + 1].id].close = "sent" /\ srv[s2c[i + 1].id].stat = s2c[i + 1].stat
        /\ cli[s2c[i + 1].id].done \notin {"EOF", "status"}
    BY <1>0, <1>5, <2>1 DEF Responses
  <2>3. ~(s2c[1].kind = "close" /\ s2c[1].id = s2c[i + 1].id)
    BY <1>0, <1>1, <1>5, <2>1 DEF Responses
  <2>. QED  BY <1>3, <2>1, <2>2, <2>3
<1>6. ASSUME NEW i \in Frames(s2c'), NEW j \in Frames(s2c'), s2c'[i].kind = "close", s2c'[j].kind = "close",
             s2c'[j].id = s2c'[i].id
      PROVE  j = i
  <2>1. j + 1 = i + 1
    BY <1>0, <1>1, <1>6 DEF Responses
  <2>. QED  BY <1>1, <2>1
<1>7. ASSUME NEW i \in Frames(s2c'), NEW j \in Frames(s2c'), s2c'[i].kind = "close", s2c'[i].stat = Nil,
             s2c'[j].kind = "msg", s2c'[j].id = s2c'[i].id
      PROVE  j < i
  <2>1. j + 1 < i + 1
    BY <1>0, <1>1, <1>7 DEF Responses
  <2>. QED  BY <1>1, <2>1
<1>8. ASSUME NEW t \in Ids, cli'[t].done = cli[t].done
      PROVE  /\ cli'[t].done = "EOF" => srv[t].close = "sent" /\ srv[t].stat = Nil /\ ~OnItsWay("msg", t)'
             /\ cli'[t].done = "status" => srv[t].close = "sent" /\ srv[t].stat = "status"
  <2>1. OnItsWay("msg", t)' => OnItsWay("msg", t)
    BY <1>1 DEF OnItsWay
  <2>. QED  BY <1>0, <1>8, <2>1 DEF Responses
<1>9. ASSUME NEW t \in Ids, s2c[1].kind = "close", s2c[1].id = t, cli'[t].done \in {"EOF", "status"},
             cli'[t].done = "EOF" <=> s2c[1].stat = Nil
      PROVE  /\ cli'[t].done = "EOF" => srv[t].close = "sent" /\ srv[t].stat = Nil /\ ~OnItsWay("msg", t)'
             /\ cli'[t].done = "status" => srv[t].close = "sent" /\ srv[t].stat = "status"
  <2>1. srv[t].close = "sent" /\ srv[t].stat = s2c[1].stat /\ s2c[1].stat \in {Nil, "status"}
    BY <1>0, <1>1, <1>9, ResponsesTypes DEF Responses
  <2>2. ASSUME s2c[1].stat = Nil, NEW i \in Frames(s2c'), s2c'[i].kind = "msg", s2c'[i].id = t
        PROVE  FALSE
    <3>1. i + 1 < 1
      BY <1>0, <1>1, <1>9, <2>2 DEF Responses
    <3>. QED  BY <1>1, <3>1
  <2>. QED  BY <1>9, <2>1, <2>2 DEF OnItsWay, Nil
<1>. QED  BY <1>0, <1>3, <1>4, <1>5, <1>6, <1>7, <1>8, <1>9 DEF Responses
-----------------------------------------------------------------------------
(***************************************************************************)
(* What a step of one end means for the streams at the other.              *)
(***************************************************************************)
\* A step of the server: an outcome that is decided stays; a success is that of
\* a handler that has returned; the headers are sent for a stream by a frame,
\* unless the stream ends by that.
Keeps(t) ==
  /\ srv[t].h # "none" => srv'[t].h # "none"
  /\ srv[t].h = "gone" => srv'[t].h = "gone"
  /\ srv[t].close # "no" => srv'[t].close # "no" /\ srv'[t].stat = srv[t].stat
  /\ srv[t].close = "sent" => srv'[t].close = "sent"
  /\ srv'[t].wrote # srv[t].wrote =>
       /\ srv[t].h = "write" /\ srv'[t].wrote = srv[t].wrote + 1
       /\ srv'[t].close = srv[t].close /\ srv'[t].stat = srv[t].stat
Settled(t) == srv'[t].sentHeaders => srv[t].sentHeaders \/ srv'[t].h = "gone" \/ Failed(t)' \/ ServerSendFails
Unsent(t) == srv'[t].wrote = srv[t].wrote \/ (srv'[t].wrote = srv[t].wrote + 1 /\ ServerSendFails /\ ~Succeeded(t)')

\* A frame is sent for stream s.
Sends(s) ==
  /\ ~ServerSendFails
  /\ \A t \in Ids \ {s} : srv'[t] = srv[t]
  /\ \/ SendToClient("headers", s, Nil) /\ srv'[s].wrote = srv[s].wrote /\ srv[s].h # "none"
     \/ SendToClient("headers", s, srv[s].stat) /\ srv'[s].wrote = srv[s].wrote /\ srv[s].close # "no"
     \/ /\ SendToClient("msg", s, Nil) /\ srv'[s].wrote = srv[s].wrote + 1 /\ srv[s].h = "write"
        /\ srv'[s].sentHeaders = srv[s].sentHeaders
     \/ /\ SendToClient("close", s, srv[s].stat) /\ srv'[s].wrote = srv[s].wrote
        /\ srv[s].close = "close" /\ srv'[s].close = "sent" /\ srv'[s].sentHeaders = srv[s].sentHeaders

LEMMA ServerMoves ==
  ASSUME IInv, Next, ServeStep \/ \E s \in Ids : ServerStreamStep(s)
  PROVE  /\ \A t \in Ids : Keeps(t)
         /\ \/ s2c' = s2c /\ \A t \in Ids : Settled(t) /\ Unsent(t)
            \/ s2c' = <<>> /\ ServerSendFails' /\ \A t \in Ids : srv'[t].wrote = srv[t].wrote
            \/ \E s \in Ids : Sends(s)
<1>0. TypeOK /\ srv \in [Ids -> ServerStream] /\ Registered /\ Outcome
  BY DEF IInv, TypeOK
<1>1. ASSUME NEW t \in Ids, srv'[t] = srv[t]
      PROVE  Keeps(t) /\ Settled(t) /\ Unsent(t)
  BY <1>1 DEF Keeps, Settled, Unsent
<1>2. ASSUME NEW s \in Ids, NEW w \in Actors, StopStep(s, w)
      PROVE  s2c' = s2c /\ Keeps(s) /\ Settled(s) /\ Unsent(s) /\ \A t \in Ids \ {s} : srv'[t] = srv[t]
  <2>1. srv[s].h # "none"
    BY <1>0, <1>2, StopEffect DEF Registered
  <2>2. srv[s].h = "gone" => srv[s].fin["handler"].pc = "no"
    BY <1>0 DEF Outcome
  <2>3. s2c' = s2c /\ srv'[s].wrote = srv[s].wrote /\ \A t \in Ids \ {s} : srv'[t] = srv[t]
    BY <1>0, <1>2, StopEffect
  <2>4. srv'[s].h # "none" /\ (srv[s].h = "gone" => srv'[s].h = "gone")
    BY <1>0, <1>2, <2>1, <2>2, StopEffect DEF Actors
  <2>5. CASE Undecided(s)
    BY <2>3, <2>4, <2>5 DEF Undecided, Keeps, Settled, Unsent
  <2>6. CASE Decided(s, w)
    <3>1. srv[s].close = "no"
      BY <1>0, <2>1, <2>6 DEF Outcome, Decided
    <3>2. srv'[s].close # "no" /\ (srv[s].fin[w].err # Nil => srv'[s].stat = "status")
      BY <2>6 DEF Decided
    <3>3. srv[s].fin[w].err # Nil \/ (w = "handler" /\ srv[s].h = "returned")
      BY <1>0, <1>2, StopEffect DEF Outcome, Actors
    <3>4. w = "handler" /\ srv[s].h = "returned" => srv'[s].h = "gone"
      BY <1>0, <1>2, <2>6, StopEffect DEF Decided
    <3>5. Settled(s)
      BY <3>2, <3>3, <3>4 DEF Settled, Failed
    <3>. QED  BY <2>3, <2>4, <3>1, <3>5 DEF Keeps, Unsent
  <2>. QED  BY <1>0, <1>2, <2>3, <2>5, <2>6, StopEffect
<1>3. ASSUME NEW s \in Ids, \/ Dequeue(s) \/ TakeWindow(s) \/ RecvMsg(s) \/ SendMsg(s)
                            \/ \E err \in {Nil, "status"} : Return(s, err)
      PROVE  s2c' = s2c /\ Keeps(s) /\ Settled(s) /\ Unsent(s) /\ \A t \in Ids \ {s} : srv'[t] = srv[t]
  BY <1>0, <1>3, HandlerEffect DEF Working, Keeps, Settled, Unsent
<1>4. ASSUME NEW s \in Ids, SendClose(s)
      PROVE  /\ Keeps(s) /\ \A t \in Ids \ {s} : srv'[t] = srv[t]
             /\ Sends(s) \/ (s2c' = s2c /\ Settled(s) /\ Unsent(s))
  <2>1. Keeps(s) /\ Settled(s) /\ Unsent(s) /\ \A t \in Ids \ {s} : srv'[t] = srv[t]
    BY <1>0, <1>4, SendCloseEffect DEF Keeps, Settled, Unsent
  <2>2. SendToClient(srv[s].close, s, srv[s].stat)
    BY <1>4 DEF SendClose
  <2>3. CASE ServerSendFails
    BY <2>1, <2>2, <2>3 DEF SendToClient
  <2>4. CASE ~ServerSendFails
    BY <1>0, <1>4, <2>1, <2>2, <2>4, SendCloseEffect DEF Sends
  <2>. QED  BY <2>1, <2>3, <2>4
<1>5. ASSUME NEW s \in Ids, SendHeaders(s)
      PROVE  /\ Keeps(s) /\ \A t \in Ids \ {s} : srv'[t] = srv[t]
             /\ Sends(s) \/ (s2c' = s2c /\ Settled(s) /\ Unsent(s))
  <2>1. /\ Keeps(s) /\ srv[s].h # "none" /\ srv'[s].wrote = srv[s].wrote
        /\ \A t \in Ids \ {s} : srv'[t] = srv[t]
    BY <1>0, <1>5, SendHeadersEffect DEF Keeps
  <2>2. SendToClient("headers", s, Nil)
    BY <1>5 DEF SendHeaders
  <2>3. CASE ServerSendFails
    BY <2>1, <2>2, <2>3 DEF SendToClient, Settled, Unsent
  <2>4. CASE ~ServerSendFails
    BY <2>1, <2>2, <2>4 DEF Sends
  <2>. QED  BY <2>1, <2>3, <2>4
<1>6. ASSUME NEW s \in Ids, WriteMsg(s)
      PROVE  /\ Keeps(s) /\ \A t \in Ids \ {s} : srv'[t] = srv[t]
             /\ Sends(s) \/ (s2c' = s2c /\ Settled(s) /\ Unsent(s))
  <2>1. /\ Keeps(s) /\ Settled(s) /\ srv[s].h = "write" /\ srv'[s].wrote = srv[s].wrote + 1
        /\ srv'[s].sentHeaders = srv[s].sentHeaders /\ \A t \in Ids \ {s} : srv'[t] = srv[t]
    BY <1>0, <1>6, WriteMsgEffect DEF Keeps, Settled
  <2>2. SendToClient("msg", s, Nil)
    BY <1>6 DEF WriteMsg
  <2>3. ~Succeeded(s)'
    BY <1>0, <1>6, WriteMsgEffect DEF Outcome, Succeeded
  <2>4. CASE ServerSendFails
    BY <2>1, <2>2, <2>3, <2>4 DEF SendToClient, Unsent
  <2>5. CASE ~ServerSendFails
    BY <2>1, <2>2, <2>5 DEF Sends
  <2>. QED  BY <2>1, <2>4, <2>5
<1>7. ASSUME \A t \in Ids : Quiet(srv[t], srv'[t])
      PROVE  \A t \in Ids : Keeps(t) /\ Settled(t) /\ Unsent(t) /\ srv'[t].wrote = srv[t].wrote
  BY <1>7 DEF Quiet, Keeps, Settled, Unsent
<1>8. ASSUME NEW s \in Ids, Timeout(s) \/ CancelReceiver(s)
      PROVE  s2c' = s2c /\ \A t \in Ids : Keeps(t) /\ Settled(t) /\ Unsent(t)
  BY <1>0, <1>7, <1>8, TimerEffect
<1>9. ASSUME NEW id \in Ids, Created(id) \/ Dispatched(id)
      PROVE  Keeps(id) /\ Settled(id) /\ Unsent(id) /\ srv'[id].wrote = srv[id].wrote /\ \A t \in Ids \ {id} : srv'[t] = srv[t]
  <2>1. CASE Created(id)
    <3>1. srv[id].h = "none" /\ srv[id].close = "no"
      BY <1>0, <2>1 DEF Registered, Created
    <3>. QED  BY <2>1, <3>1 DEF Created, Keeps, Settled, Unsent
  <2>2. CASE Dispatched(id)
    BY <2>2 DEF Dispatched, Keeps, Settled, Unsent
  <2>. QED  BY <1>9, <2>1, <2>2
<1>10. CASE ServeStep
  <2>1. \A t \in Ids : Keeps(t) /\ Settled(t) /\ Unsent(t) /\ srv'[t].wrote = srv[t].wrote
    BY <1>1, <1>7, <1>9, <1>10, ServeEffect
  <2>. QED  BY <1>10, <2>1, ServeEffect
<1>11. ASSUME NEW s \in Ids, ServerStreamStep(s)
       PROVE  /\ \A t \in Ids : Keeps(t)
              /\ \/ s2c' = s2c /\ \A t \in Ids : Settled(t) /\ Unsent(t)
                 \/ Sends(s)
  <2>1. \/ s2c' = s2c /\ \A t \in Ids : Keeps(t) /\ Settled(t) /\ Unsent(t)
        \/ /\ Keeps(s) /\ \A t \in Ids \ {s} : srv'[t] = srv[t]
           /\ Sends(s) \/ (s2c' = s2c /\ Settled(s) /\ Unsent(s))
    BY <1>2, <1>3, <1>4, <1>5, <1>6, <1>8, <1>11 DEF ServerStreamStep, HandlerLibStep
  <2>. QED  BY <1>1, <2>1
<1>. QED  BY <1>10, <1>11

\* A step of the client on stream s: what it does to the responses it has.
\* They are kept, taken from the queue, dropped because the RPC was cancelled,
\* or RecvMsg reports the end of the RPC.
Reads(st, x) ==
  \/ /\ Taken(x) = Taken(st) /\ x.items = st.items /\ x.err = st.err
     /\ st.rd = "ready" => x.rd = "ready"
  \/ /\ st.fin = "cancel" /\ x.items = 0 /\ Taken(x) = Taken(st) /\ x.err = st.err /\ x.rd = st.rd
  \/ /\ st.items > 0 /\ x.items = st.items - 1 /\ Taken(x) = Taken(st) + 1 /\ x.err = st.err
  \/ /\ x.rd = "ready" /\ x.items = st.items /\ Taken(x) <= Taken(st)
     /\ \/ x.err = st.done /\ (st.cancelled \/ st.closed)
        \/ x.err = "multiple" /\ x.done # Nil

LEMMA TakenValues ==
  ASSUME NEW st \in ClientStream
  PROVE  /\ Taken(st) \in Nat /\ st.got \in Nat /\ st.items \in Nat
         /\ st.rd = "ready" => Taken(st) = st.got
         /\ st.rd \in {"update", "second"} => Taken(st) = st.got + 1
         /\ st.rd \in {"update2", "failed"} => Taken(st) = st.got + 2
<1>1. st.got \in Nat /\ st.items \in Nat /\ st.rd \in {"ready", "update", "second", "update2", "failed"}
  BY DEF ClientStream
<1>2. st.rd = "ready" => Taken(st) = st.got
  BY <1>1 DEF Taken
<1>3. st.rd \in {"update", "second"} => Taken(st) = st.got + 1
  BY <1>1 DEF Taken
<1>4. st.rd \in {"update2", "failed"} => Taken(st) = st.got + 2
  BY <1>1 DEF Taken
<1>. QED  BY <1>1, <1>2, <1>3, <1>4

LEMMA ClientMoves ==
  ASSUME IInv, TypeOK', NEW s \in Ids, ClientStreamStep(s)
  PROVE  /\ Only(s)
         /\ cli'[s].done = cli[s].done \/ (cli[s].done = Nil /\ cli'[s].done \in {"canceled", "multiple"})
         /\ cli[s].headers # "no" => cli'[s].headers # "no"
         /\ Reads(cli[s], cli'[s])
<1>0. cli \in [Ids -> ClientStream] /\ cli[s] \in ClientStream /\ cli'[s] \in ClientStream
  BY DEF IInv, TypeOK
<1>1. ASSUME UNCHANGED Read(s)
      PROVE  Reads(cli[s], cli'[s]) /\ cli'[s].headers = cli[s].headers
  BY <1>0, <1>1, TakenValues DEF Read, Reads, Taken
<1>2. CASE SendNewStream(s)
  BY <1>0, <1>1, <1>2, SendNewStreamFields DEF End
<1>3. CASE CancelContext(s)
  BY <1>0, <1>1, <1>3, CancelContextFields DEF End
<1>4. CASE Watch(s)
  BY <1>0, <1>1, <1>4, WatchFields
<1>5. CASE FinishRemove(s)
  BY <1>0, <1>1, <1>5, FinishRemoveFields
<1>6. CASE FinishMeta(s)
  <2>1. Only(s) /\ cli'[s].done = cli[s].done /\ cli'[s].headers # "no"
    BY <1>0, <1>6, FinishMetaFields
  <2>2. UNCHANGED <<cli[s].items, cli[s].rd, cli[s].err, cli[s].got>>
    BY <1>0, <1>6, FinishMetaFields
  <2>. QED  BY <2>1, <2>2 DEF Reads, Taken
<1>7. CASE FinishClose(s)
  BY <1>0, <1>1, <1>7, FinishCloseFields
<1>8. CASE FinishContext(s)
  BY <1>0, <1>1, <1>8, FinishContextFields
<1>9. CASE FinishCancel(s)
  <2>1. Only(s) /\ cli'[s].done = cli[s].done /\ cli'[s].headers = cli[s].headers /\ cli'[s].items = 0
    BY <1>0, <1>9, FinishCancelFields
  <2>2. UNCHANGED <<cli[s].rd, cli[s].err, cli[s].got>>
    BY <1>0, <1>9, FinishCancelFields
  <2>3. cli[s].fin = "cancel"
    BY <1>9 DEF FinishCancel
  <2>. QED  BY <2>1, <2>2, <2>3 DEF Reads, Taken
<1>10. CASE SendCancel(s)
  BY <1>0, <1>1, <1>10, SendCancelFields DEF End
<1>11. CASE ClientSendMsg(s) \/ CloseSend(s)
  BY <1>0, <1>1, <1>11, SendFields DEF End
<1>12. CASE ClientAck(s)
  <2>1. Only(s) /\ cli'[s].done = cli[s].done /\ cli'[s].headers = cli[s].headers
    BY <1>0, <1>12, AckFields DEF End
  <2>2. Reads(cli[s], cli'[s])
    BY <1>0, <1>12, AckFields, TakenValues DEF Reads
  <2>. QED  BY <2>1, <2>2
<1>13. CASE ClientRecvMsg(s)
  <2>1. Only(s) /\ cli'[s].done = cli[s].done /\ cli'[s].headers = cli[s].headers
    BY <1>0, <1>13, RecvMsgFields DEF End
  <2>2. cli[s].rd \in {"ready", "second"}
    BY <1>13 DEF ClientRecvMsg
  <2>3. CASE /\ ~cli[s].cancelled /\ cli[s].items > 0
             /\ cli'[s].items = cli[s].items - 1 /\ cli'[s].err = cli[s].err /\ cli'[s].got = cli[s].got
             /\ \/ cli[s].rd = "ready" /\ cli'[s].rd = "update"
                \/ cli[s].rd = "second" /\ cli'[s].rd = "update2"
    <3>1. Taken(cli'[s]) = Taken(cli[s]) + 1
      <4>1. CASE cli[s].rd = "ready"
        BY <1>0, <2>3, <4>1, TakenValues
      <4>2. CASE cli[s].rd = "second"
        BY <1>0, <2>3, <4>2, TakenValues
      <4>. QED  BY <2>3, <4>1, <4>2
    <3>. QED  BY <2>1, <2>3, <3>1 DEF Reads
  <2>4. CASE /\ cli[s].cancelled \/ (cli[s].items = 0 /\ cli[s].closed)
             /\ cli'[s].items = cli[s].items /\ cli'[s].err = cli[s].done /\ cli'[s].rd = "ready"
             /\ \/ cli[s].rd = "second" /\ cli[s].done = "EOF" /\ cli'[s].got = cli[s].got + 1
                \/ (cli[s].rd = "ready" \/ cli[s].done # "EOF") /\ cli'[s].got = cli[s].got
    <3>1. Taken(cli'[s]) <= Taken(cli[s])
      BY <1>0, <2>2, <2>4, TakenValues
    <3>. QED  BY <2>1, <2>4, <3>1 DEF Reads
  <2>. QED  BY <1>0, <1>13, <2>1, <2>3, <2>4, RecvMsgFields
<1>14. CASE ClientReadFails(s)
  <2>1. /\ Only(s) /\ cli'[s].headers = cli[s].headers
        /\ cli'[s].done = cli[s].done \/ (cli[s].done = Nil /\ cli'[s].done \in {"canceled", "multiple"})
        /\ cli'[s].done # Nil
    BY <1>0, <1>14, ClientReadFailsFields DEF Nil
  <2>2. cli'[s].items = cli[s].items /\ cli'[s].got = cli[s].got /\ cli'[s].rd = "ready" /\ cli'[s].err = "multiple"
    BY <1>0, <1>14, ClientReadFailsFields
  <2>3. Taken(cli'[s]) <= Taken(cli[s])
    <3>1. cli[s].rd = "failed"
      BY <1>14 DEF ClientReadFails
    <3>2. Taken(cli'[s]) = cli'[s].got /\ Taken(cli[s]) = cli[s].got + 2 /\ cli[s].got \in Nat
      BY <1>0, <2>2, <3>1, TakenValues
    <3>. QED  BY <2>2, <3>2
  <2>. QED  BY <2>1, <2>2, <2>3 DEF Reads
<1>. QED
  BY <1>2, <1>3, <1>4, <1>5, <1>6, <1>7, <1>8, <1>9, <1>10, <1>11, <1>12, <1>13, <1>14 DEF ClientStreamStep, FinishStep

LEMMA allocateId ==
  ASSUME TypeOK, NEW ok, allocateStream(ok)
  PROVE  lastStreamID \in Nat /\ lastStreamID + 1 \in Ids
<1>1. scn.streams \in 0 .. MaxStreams /\ lastStreamID \in 0 .. MaxStreams
  BY TunnelAssumption DEF TypeOK, Scenario
<1>2. lastStreamID < scn.streams
  BY DEF allocateStream
<1>. QED  BY <1>1, <1>2, TunnelAssumption DEF Ids

\* Of the channel's steps only ClientRecv touches the responses; a stream that
\* is registered is new.
LEMMA ChannelMoves ==
  ASSUME IInv, ChannelStep, ~ClientRecv
  PROVE  /\ s2c' = s2c
         /\ \A t \in Ids : cli'[t].done = cli[t].done /\ UNCHANGED Read(t)
         /\ \A t \in streams' : t \in streams \/ cli[t].new = "none"
<1>0. TypeOK /\ cli \in [Ids -> ClientStream]
  BY DEF IInv, TypeOK
<1>1. s2c' = s2c
  BY DEF ChannelStep, allocateStream, ClientRecvEnd, Close, CloseTearDown, CloseSection
<1>2. ASSUME NEW ok \in BOOLEAN, allocateStream(ok)
      PROVE  /\ \A t \in Ids : cli'[t].done = cli[t].done /\ UNCHANGED Read(t)
             /\ \A t \in streams' : t \in streams \/ cli[t].new = "none"
  <2>1. lastStreamID + 1 \in Ids /\ lastStreamID \in Nat
    BY <1>0, <1>2, allocateId
  <2>2. streams' \subseteq streams \cup {lastStreamID + 1}
    BY <1>2 DEF allocateStream
  <2>3. cli[lastStreamID + 1].new = "none"
    BY <2>1 DEF IInv, Creation, CreationOf
  <2>4. ASSUME NEW t \in Ids
        PROVE  cli'[t].done = cli[t].done /\ UNCHANGED Read(t)
    BY <1>0, <1>2, <2>1, allocateFields DEF Only, End, Read
  <2>. QED  BY <2>2, <2>3, <2>4
<1>3. ASSUME NEW w, CloseSection(w)
      PROVE  streams' = {} /\ \A t \in Ids : cli'[t].done = cli[t].done /\ UNCHANGED Read(t)
  <2>1. streams' = {}
    BY <1>3 DEF CloseSection
  <2>2. ASSUME NEW t \in Ids
        PROVE  cli'[t].done = cli[t].done /\ UNCHANGED Read(t)
    BY <1>0, <1>3, CloseSectionFields DEF End
  <2>. QED  BY <2>1, <2>2
<1>4. ASSUME ClientRecvEnd \/ Close \/ \E w \in {"user", "loop"} : CloseTearDown(w)
      PROVE  cli' = cli /\ streams' = streams
  BY <1>4 DEF ClientRecvEnd, Close, CloseTearDown
<1>. QED  BY <1>1, <1>2, <1>3, <1>4 DEF ChannelStep, Read

\* A stream that is not open has nothing at the server.
LEMMA Fresh ==
  ASSUME IInv, NEW t \in Ids, cli[t].new = "none"
  PROVE  /\ cli[t].items = 0 /\ cli[t].got = 0 /\ cli[t].rd = "ready"
         /\ srv[t].wrote = 0 /\ ~srv[t].sentHeaders
         /\ \A i \in Frames(s2c) : s2c[i].id # t
<1>1. cli[t].items = 0 /\ cli[t].got = 0 /\ cli[t].rd = "ready"
  BY DEF IInv, Creation, CreationOf
<1>2. srv[t].h = "none" /\ srv[t].close = "no"
  BY DEF IInv, Registered
<1>3. srv[t].wrote = 0 /\ ~srv[t].sentHeaders
  BY <1>2 DEF IInv, Registered
<1>4. \A i \in Frames(s2c) : s2c[i].id # t
  BY <1>2 DEF IInv, Responses
<1>. QED  BY <1>1, <1>3, <1>4

LEMMA ResponsesStep ==
  ASSUME IInv, Next, TypeOK'
  PROVE  Responses'
<1>0. TypeOK /\ Responses /\ Outcome /\ cli \in [Ids -> ClientStream] /\ srv \in [Ids -> ServerStream]
  BY DEF IInv, TypeOK
<1>1. ASSUME NEW s \in Ids, ClientStreamStep(s)
      PROVE  Responses'
  <2>1. srv' = srv /\ s2c' = s2c
    BY <1>1, ClientSide, ClientStreamSide
  <2>2. \A t \in Ids : cli'[t].done \in {"EOF", "status"} => cli'[t].done = cli[t].done
    BY <1>1, ClientMoves DEF Only
  <2>. QED  BY <1>0, <2>1, <2>2, ResponsesSame
<1>2. CASE ClientRecv
  BY <1>2, ResponsesTaken
<1>3. CASE ChannelStep /\ ~ClientRecv
  <2>1. srv' = srv
    BY <1>3, ClientSide
  <2>2. s2c' = s2c /\ \A t \in Ids : cli'[t].done = cli[t].done
    BY <1>3, ChannelMoves
  <2>. QED  BY <1>0, <2>1, <2>2, ResponsesSame
<1>4. CASE ServeStep \/ \E s \in Ids : ServerStreamStep(s)
  <2>1. cli' = cli
    BY <1>4, ServerSide
  <2>2. \A t \in Ids : /\ srv[t].h # "none" => srv'[t].h # "none"
                       /\ srv[t].close # "no" => srv'[t].close # "no"
                       /\ srv[t].close = "sent" => srv'[t].close = "sent" /\ srv'[t].stat = srv[t].stat
    BY <1>4, ServerMoves DEF Keeps
  <2>3. CASE s2c' = s2c
    BY <1>0, <2>1, <2>2, <2>3, ResponsesSame
  <2>4. CASE s2c' = <<>>
    <3>1. Frames(s2c') = {}
      BY <2>4 DEF Frames
    <3>. QED  BY <1>0, <2>1, <2>2, <3>1 DEF Responses, OnItsWay
  <2>5. ASSUME NEW s \in Ids, Sends(s)
        PROVE  Responses'
    <3>1. srv[s].h = "write" => ~Succeeded(s)
      BY <1>0 DEF Outcome
    <3>2. srv[s].stat \in {Nil, "status"}
      BY <1>0 DEF ServerStream
    <3>3. srv[s].h # "none" \/ srv[s].close # "no" => srv'[s].h # "none" \/ srv'[s].close # "no"
      BY <2>2
    <3>4. CASE SendToClient("headers", s, Nil) /\ srv[s].h # "none"
      BY <1>0, <2>1, <2>2, <2>5, <3>3, <3>4, ResponsesSent DEF Sends
    <3>5. CASE SendToClient("headers", s, srv[s].stat) /\ srv[s].close # "no"
      BY <1>0, <2>1, <2>2, <2>5, <3>2, <3>3, <3>5, ResponsesSent DEF Sends
    <3>6. CASE SendToClient("msg", s, Nil) /\ srv[s].h = "write"
      BY <1>0, <2>1, <2>2, <2>5, <3>1, <3>3, <3>6, ResponsesSent DEF Sends
    <3>7. CASE SendToClient("close", s, srv[s].stat) /\ srv[s].close = "close" /\ srv'[s].close = "sent"
      <4>1. srv'[s].stat = srv[s].stat
        BY <1>4, <3>7, ServerMoves DEF Keeps
      <4>. QED  BY <1>0, <2>1, <2>2, <2>5, <3>2, <3>3, <3>7, <4>1, ResponsesSent DEF Sends
    <3>. QED  BY <2>5, <3>4, <3>5, <3>6, <3>7 DEF Sends
  <2>. QED  BY <1>4, <2>3, <2>4, <2>5, ServerMoves
<1>. QED  BY <1>1, <1>2, <1>3, <1>4, Steps
-----------------------------------------------------------------------------
(***************************************************************************)
(* The responses on their way to the client, counted.                      *)
(***************************************************************************)
LEMMA MsgsFinite ==
  ASSUME NEW q, Len(q) \in Nat, NEW t
  PROVE  IsFiniteSet(Msgs(q, t)) /\ Cardinality(Msgs(q, t)) \in Nat
<1>1. IsFiniteSet(Frames(q))
  BY FS_Interval DEF Frames
<1>2. IsFiniteSet(Msgs(q, t))
  BY <1>1, FS_Subset DEF Msgs
<1>. QED  BY <1>2, FS_CardinalityType

LEMMA MsgsSent ==
  ASSUME TypeOK, NEW s \in Ids, NEW k \in {"headers", "msg", "close"}, NEW x \in {Nil, "status"},
         SendToClient(k, s, x), ~ServerSendFails, NEW t
  PROVE  Cardinality(Msgs(s2c', t)) = Cardinality(Msgs(s2c, t)) + IF k = "msg" /\ t = s THEN 1 ELSE 0
<1> DEFINE n == Len(s2c) + 1
<1>1. /\ Frames(s2c') = Frames(s2c) \cup {n} /\ n \notin Frames(s2c)
      /\ \A i \in Frames(s2c) : s2c'[i] = s2c[i]
      /\ s2c'[n].kind = k /\ s2c'[n].id = s
  BY Sent
<1>. HIDE DEF n
<1>2. IsFiniteSet(Msgs(s2c, t)) /\ Cardinality(Msgs(s2c, t)) \in Nat
  BY ResponsesTypes, MsgsFinite
<1>3. CASE k = "msg" /\ t = s
  <2>1. Msgs(s2c', t) = Msgs(s2c, t) \cup {n} /\ n \notin Msgs(s2c, t)
    BY <1>1, <1>3 DEF Msgs
  <2>. QED  BY <1>2, <1>3, <2>1, FS_AddElement
<1>4. CASE ~(k = "msg" /\ t = s)
  <2>1. Msgs(s2c', t) = Msgs(s2c, t)
    BY <1>1, <1>4 DEF Msgs
  <2>. QED  BY <1>2, <1>4, <2>1
<1>. QED  BY <1>3, <1>4

LEMMA MsgsTaken ==
  ASSUME TypeOK, ClientRecv, NEW t
  PROVE  Cardinality(Msgs(s2c, t)) =
           Cardinality(Msgs(s2c', t)) + IF s2c[1].kind = "msg" /\ s2c[1].id = t THEN 1 ELSE 0
<1> DEFINE A == Msgs(s2c', t)
           B == Msgs(s2c, t) \ {1}
           f == [i \in A |-> i + 1]
<1>1. /\ 1 \in Frames(s2c) /\ Len(s2c') \in Nat /\ Len(s2c) \in Nat
      /\ \A i \in Frames(s2c') : i \in Nat /\ s2c'[i] = s2c[i + 1] /\ i + 1 \in Frames(s2c) /\ i + 1 # 1
      /\ \A i \in Frames(s2c) : i # 1 => i \in Nat /\ i - 1 \in Frames(s2c') /\ s2c'[i - 1] = s2c[i] /\ (i - 1) + 1 = i
  BY TakenFacts
<1>2. IsFiniteSet(A) /\ IsFiniteSet(Msgs(s2c, t)) /\ Cardinality(A) \in Nat /\ Cardinality(Msgs(s2c, t)) \in Nat
  BY <1>1, MsgsFinite
<1>3. f \in [A -> B]
  BY <1>1 DEF Msgs
<1>4. \A i, j \in A : f[i] = f[j] => i = j
  BY <1>1 DEF Msgs
<1>5. \A j \in B : \E i \in A : f[i] = j
  <2>1. SUFFICES ASSUME NEW j \in B PROVE \E i \in A : f[i] = j
    OBVIOUS
  <2>2. j \in Frames(s2c) /\ j # 1
    BY DEF Msgs
  <2>3. j - 1 \in A /\ f[j - 1] = j
    BY <1>1, <2>2 DEF Msgs
  <2>. QED  BY <2>3
<1>6. ExistsBijection(A, B)
  <2>. HIDE DEF A, B, f
  <2>1. f \in Bijection(A, B)
    BY <1>3, <1>4, <1>5 DEF Bijection, Injection, Surjection, IsInjective
  <2>. QED  BY <2>1 DEF ExistsBijection
<1>7. Cardinality(B) = Cardinality(A)
  BY <1>2, <1>6, FS_Bijection
<1>8. 1 \in Msgs(s2c, t) <=> s2c[1].kind = "msg" /\ s2c[1].id = t
  BY <1>1 DEF Msgs
<1>. HIDE DEF A
<1>9. Cardinality(B) = IF 1 \in Msgs(s2c, t) THEN Cardinality(Msgs(s2c, t)) - 1 ELSE Cardinality(Msgs(s2c, t))
  BY <1>2, FS_RemoveElement
<1>. HIDE DEF B
<1>. QED  BY <1>2, <1>7, <1>8, <1>9 DEF A

LEMMA HeadersLeadStep ==
  ASSUME IInv, Next, TypeOK'
  PROVE  HeadersLead'
<1>0. TypeOK /\ HeadersLead /\ Outcome /\ Finishing
  BY DEF IInv
<1>f. ServerSendFails => ServerSendFails'
  BY <1>0, Flags
<1>c. \A i \in Frames(s2c) : i \in Nat
  BY <1>0, ResponsesTypes
<1>1. ASSUME NEW s \in Ids, ClientStreamStep(s), NEW t \in Ids
      PROVE  HeadersLeadOf(t)'
  <2>1. srv' = srv /\ s2c' = s2c /\ streams' \subseteq streams
    BY <1>1, ClientSide, ClientStreamSide
  <2>2. cli'[t].headers = "no" => cli[t].headers = "no"
    BY <1>1, ClientMoves DEF Only
  <2>3. (cli'[t].items > 0 \/ cli'[t].rd # "ready") => (cli[t].items > 0 \/ cli[t].rd # "ready")
    BY <1>1, ClientMoves DEF Only, Reads
  <2>. QED  BY <1>0, <1>f, <2>1, <2>2, <2>3 DEF HeadersLead, HeadersLeadOf, Failed, OnItsWay
<1>2. ASSUME ClientRecv, NEW t \in Ids
      PROVE  HeadersLeadOf(t)'
  <2>1. /\ 1 \in Frames(s2c)
        /\ \A i \in Frames(s2c') : i \in Nat /\ s2c'[i] = s2c[i + 1] /\ i + 1 \in Frames(s2c)
        /\ \A i \in Frames(s2c) : i # 1 => i - 1 \in Frames(s2c') /\ s2c'[i - 1] = s2c[i] /\ (i - 1) + 1 = i
    BY <1>0, <1>2, TakenFacts
  <2>2. srv' = srv /\ streams' = streams
    BY <1>2 DEF ClientRecv, serverVars
  <2>3. PICK f : f = s2c[1] /\ f.id \in Ids /\ ((f.id \notin streams /\ cli' = cli) \/ (f.id \in streams /\ Received(f)))
    BY <1>0, <1>2, ReceiveCases
  <2>4. cli \in [Ids -> ClientStream]
    BY <1>0 DEF TypeOK
  <2>5. cli'[t].rd = cli[t].rd /\ (cli[t].headers # "no" => cli'[t].headers # "no")
    BY <2>3, <2>4, ReceivedFields DEF Only
  <2>6. cli'[t].items > 0 => cli[t].items > 0 \/ (f.kind = "msg" /\ f.id = t /\ t \in streams)
    BY <2>3, <2>4, ReceivedFields DEF Only
  <2>7. f.kind = "msg" /\ f.id = t /\ t \in streams => cli[t].headers # "no" \/ Failed(t)
    BY <1>0, <2>1, <2>3 DEF HeadersLead, HeadersLeadOf
  <2>8. cli'[t].items > 0 \/ cli'[t].rd # "ready" => cli'[t].headers # "no" \/ Failed(t)'
    <3>1. cli[t].items > 0 \/ cli[t].rd # "ready" => cli[t].headers # "no" \/ Failed(t)
      BY <1>0 DEF HeadersLead, HeadersLeadOf
    <3>2. Failed(t)' <=> Failed(t)
      BY <2>2 DEF Failed
    <3>. QED  BY <2>5, <2>6, <2>7, <3>1, <3>2
  <2>9. ASSUME t \in streams', cli'[t].headers = "no", ~Failed(t)'
        PROVE  /\ \A i \in Frames(s2c') : s2c'[i].kind = "msg" /\ s2c'[i].id = t =>
                    \E j \in 1 .. i - 1 : s2c'[j].kind = "headers" /\ s2c'[j].id = t
               /\ srv'[t].sentHeaders /\ srv'[t].h # "gone" /\ ~ServerSendFails' => OnItsWay("headers", t)'
    <3>1. t \in streams /\ cli[t].headers = "no" /\ ~Failed(t)
      BY <2>2, <2>5, <2>9 DEF Failed
    <3>2. ~(s2c[1].kind = "headers" /\ s2c[1].id = t)
      BY <2>3, <2>4, <2>9, <3>1, ReceivedFields
    <3>3. /\ \A i \in Frames(s2c) : s2c[i].kind = "msg" /\ s2c[i].id = t =>
               \E j \in 1 .. i - 1 : s2c[j].kind = "headers" /\ s2c[j].id = t
          /\ srv[t].sentHeaders /\ srv[t].h # "gone" /\ ~ServerSendFails => OnItsWay("headers", t)
      BY <1>0, <3>1 DEF HeadersLead, HeadersLeadOf
    <3>4. ASSUME NEW i \in Frames(s2c'), s2c'[i].kind = "msg", s2c'[i].id = t
          PROVE  \E j \in 1 .. i - 1 : s2c'[j].kind = "headers" /\ s2c'[j].id = t
      <4>1. PICK j \in 1 .. (i + 1) - 1 : s2c[j].kind = "headers" /\ s2c[j].id = t
        BY <2>1, <3>3, <3>4
      <4>2. i \in Nat /\ i + 1 \in Frames(s2c) /\ j # 1
        BY <2>1, <3>2, <4>1
      <4>3. j \in Frames(s2c) /\ j - 1 \in 1 .. i - 1
        BY <4>1, <4>2 DEF Frames
      <4>4. s2c'[j - 1] = s2c[j]
        BY <2>1, <4>2, <4>3
      <4>. QED  BY <4>1, <4>3, <4>4
    <3>5. OnItsWay("headers", t) => OnItsWay("headers", t)'
      BY <2>1, <3>2 DEF OnItsWay
    <3>. QED  BY <1>f, <2>2, <3>3, <3>4, <3>5
  <2>. QED  BY <2>8, <2>9 DEF HeadersLeadOf
<1>3. ASSUME ChannelStep, ~ClientRecv, NEW t \in Ids
      PROVE  HeadersLeadOf(t)'
  <2>1. srv' = srv /\ s2c' = s2c /\ UNCHANGED Read(t) /\ (t \in streams' => t \in streams \/ cli[t].new = "none")
    BY <1>3, ChannelMoves, ClientSide
  <2>2. CASE cli[t].new = "none"
    BY <2>1, <2>2, Fresh DEF HeadersLeadOf, Read
  <2>3. CASE cli[t].new # "none"
    BY <1>0, <1>f, <2>1, <2>3 DEF HeadersLead, HeadersLeadOf, Read, Failed, OnItsWay
  <2>. QED  BY <2>2, <2>3
<1>4. ASSUME ServeStep \/ \E s \in Ids : ServerStreamStep(s), NEW t \in Ids
      PROVE  HeadersLeadOf(t)'
  <2>1. cli' = cli /\ streams' = streams /\ Keeps(t)
    BY <1>4, ServerSide, ServerMoves
  <2>2. Failed(t) => Failed(t)'
    BY <2>1 DEF Keeps, Failed
  <2>3. cli'[t].items > 0 \/ cli'[t].rd # "ready" => cli'[t].headers # "no" \/ Failed(t)'
    BY <1>0, <2>1, <2>2 DEF HeadersLead, HeadersLeadOf
  <2>4. ASSUME t \in streams', cli'[t].headers = "no", ~Failed(t)'
        PROVE  /\ \A i \in Frames(s2c') : s2c'[i].kind = "msg" /\ s2c'[i].id = t =>
                    \E j \in 1 .. i - 1 : s2c'[j].kind = "headers" /\ s2c'[j].id = t
               /\ srv'[t].sentHeaders /\ srv'[t].h # "gone" /\ ~ServerSendFails' => OnItsWay("headers", t)'
    <3>1. /\ \A i \in Frames(s2c) : s2c[i].kind = "msg" /\ s2c[i].id = t =>
               \E j \in 1 .. i - 1 : s2c[j].kind = "headers" /\ s2c[j].id = t
          /\ srv[t].sentHeaders /\ srv[t].h # "gone" /\ ~ServerSendFails => OnItsWay("headers", t)
      BY <1>0, <2>1, <2>2, <2>4 DEF HeadersLead, HeadersLeadOf
    <3>2. CASE s2c' = s2c /\ Settled(t)
      BY <1>f, <2>1, <2>4, <3>1, <3>2 DEF Keeps, Settled, OnItsWay
    <3>3. CASE s2c' = <<>> /\ ServerSendFails'
      <4>1. Frames(s2c') = {}
        BY <3>3 DEF Frames
      <4>. QED  BY <3>3, <4>1
    <3>4. ASSUME NEW s \in Ids, Sends(s), NEW k \in {"headers", "msg", "close"}, NEW x \in {Nil, "status"},
                 SendToClient(k, s, x),
                 k = "msg" => srv[s].h = "write",
                 k # "headers" => srv'[s].sentHeaders = srv[s].sentHeaders
          PROVE  /\ \A i \in Frames(s2c') : s2c'[i].kind = "msg" /\ s2c'[i].id = t =>
                      \E j \in 1 .. i - 1 : s2c'[j].kind = "headers" /\ s2c'[j].id = t
                 /\ srv'[t].sentHeaders /\ srv'[t].h # "gone" /\ ~ServerSendFails' => OnItsWay("headers", t)'
      <4> DEFINE n == Len(s2c) + 1
      <4>1. ~ServerSendFails /\ \A r \in Ids \ {s} : srv'[r] = srv[r]
        BY <3>4 DEF Sends
      <4>2. /\ Frames(s2c') = Frames(s2c) \cup {n} /\ n \in Int
            /\ \A i \in Frames(s2c) : i < n /\ s2c'[i] = s2c[i]
            /\ s2c'[n].kind = k /\ s2c'[n].id = s
        BY <1>0, <3>4, <4>1, Sent, ResponsesTypes
      <4>. HIDE DEF n
      <4>3. \A i \in Frames(s2c) : i \in Nat /\ 1 .. i - 1 \subseteq Frames(s2c)
        BY <1>0, ResponsesTypes DEF Frames
      <4>4. OnItsWay("headers", t) => OnItsWay("headers", t)'
        BY <4>2 DEF OnItsWay
      <4>5. k = "headers" /\ s = t => OnItsWay("headers", t)'
        BY <4>2 DEF OnItsWay
      <4>6. srv'[t].sentHeaders /\ srv'[t].h # "gone" => OnItsWay("headers", t)'
        <5>1. CASE t # s
          BY <3>1, <4>1, <4>4, <5>1
        <5>2. CASE t = s /\ k # "headers"
          BY <2>1, <3>1, <3>4, <4>1, <4>4, <5>2 DEF Keeps
        <5>. QED  BY <4>5, <5>1, <5>2
      <4>7. ASSUME NEW i \in Frames(s2c), s2c'[i].kind = "msg", s2c'[i].id = t
            PROVE  \E j \in 1 .. i - 1 : s2c'[j].kind = "headers" /\ s2c'[j].id = t
        BY <3>1, <4>2, <4>3, <4>7
      <4>8. ASSUME k = "msg", s = t
            PROVE  \E j \in 1 .. n - 1 : s2c'[j].kind = "headers" /\ s2c'[j].id = t
        <5>1. srv[t].sentHeaders /\ srv[t].h # "gone"
          BY <1>0, <3>4, <4>8 DEF Outcome
        <5>2. PICK j \in Frames(s2c) : s2c[j].kind = "headers" /\ s2c[j].id = t
          BY <3>1, <4>1, <5>1 DEF OnItsWay
        <5>3. j \in 1 .. n - 1
          BY <4>2, <5>2 DEF Frames
        <5>. QED  BY <4>2, <5>2, <5>3
      <4>. QED  BY <4>2, <4>6, <4>7, <4>8
    <3>5. ASSUME NEW s \in Ids, Sends(s)
          PROVE  \E k \in {"headers", "msg", "close"}, x \in {Nil, "status"} :
                   /\ SendToClient(k, s, x) /\ (k = "msg" => srv[s].h = "write")
                   /\ k # "headers" => srv'[s].sentHeaders = srv[s].sentHeaders
      <4>1. srv[s].stat \in {Nil, "status"}
        BY <1>0 DEF TypeOK, ServerStream
      <4>. QED  BY <3>5, <4>1 DEF Sends
    <3>. QED  BY <1>4, <3>2, <3>3, <3>4, <3>5, ServerMoves
  <2>. QED  BY <2>3, <2>4 DEF HeadersLeadOf
<1>. QED  BY <1>1, <1>2, <1>3, <1>4, Steps DEF HeadersLead

LEMMA ArrivedType ==
  ASSUME TypeOK, TypeOK', NEW t \in Ids
  PROVE  /\ Taken(cli[t]) \in Nat /\ cli[t].items \in Nat /\ Cardinality(Msgs(s2c, t)) \in Nat
         /\ Arrived(t) = Taken(cli[t]) + cli[t].items + Cardinality(Msgs(s2c, t))
         /\ srv[t].wrote \in Nat
         /\ Taken(cli'[t]) \in Nat /\ cli'[t].items \in Nat /\ Cardinality(Msgs(s2c', t)) \in Nat
         /\ Arrived(t)' = Taken(cli'[t]) + cli'[t].items + Cardinality(Msgs(s2c', t))
<1>1. cli[t] \in ClientStream /\ cli'[t] \in ClientStream /\ Len(s2c) \in Nat /\ Len(s2c') \in Nat
  BY DEF TypeOK
<1>2. srv[t].wrote \in Nat
  BY DEF TypeOK, ServerStream
<1>3. Cardinality(Msgs(s2c, t)) \in Nat /\ Cardinality(Msgs(s2c', t)) \in Nat
  BY <1>1, MsgsFinite
<1>4. Taken(cli[t]) \in Nat /\ cli[t].items \in Nat /\ Taken(cli'[t]) \in Nat /\ cli'[t].items \in Nat
  BY <1>1, TakenValues
<1>. QED  BY <1>2, <1>3, <1>4 DEF Arrived

LEMMA CountedStep ==
  ASSUME IInv, Next, TypeOK'
  PROVE  Counted'
<1>0. TypeOK /\ Counted /\ Outcome /\ Finishing /\ Responses
  BY DEF IInv
<1>f. ServerSendFails => ServerSendFails'
  BY <1>0, Flags
<1>1. ASSUME NEW s \in Ids, ClientStreamStep(s), NEW t \in Ids
      PROVE  CountedOf(t)'
  <2>1. srv' = srv /\ s2c' = s2c /\ streams' \subseteq streams /\ (ServerSendFails' <=> ServerSendFails)
    BY <1>1, ClientSide, ClientStreamSide DEF ServerSendFails
  <2>2. CASE cli'[t] = cli[t]
    BY <1>0, <2>1, <2>2 DEF Counted, CountedOf, Arrived, Succeeded, OnItsWay
  <2>3. CASE t = s
    <3>1. /\ cli'[t].done = cli[t].done \/ (cli[t].done = Nil /\ cli'[t].done \in {"canceled", "multiple"})
          /\ Reads(cli[t], cli'[t])
      BY <1>1, <2>3, ClientMoves
    <3>2. /\ cli[t].closed \/ cli[t].cancelled => cli[t].done # Nil
          /\ cli[t].fin = "cancel" => cli[t].done \notin {Nil, "EOF"}
      BY <1>0 DEF Finishing, FinishingOf, Nil
    <3>3. /\ Arrived(t)' <= Arrived(t)
          /\ \/ Arrived(t)' = Arrived(t) /\ cli'[t].err = cli[t].err
             \/ /\ cli'[t].done # Nil
                /\ cli'[t].err # Nil \/ cli'[t].done # "EOF"
      <4>1. PICK a \in Nat, b \in Nat, c \in Nat, a1 \in Nat, b1 \in Nat :
              /\ a = Taken(cli[t]) /\ b = cli[t].items /\ c = Cardinality(Msgs(s2c, t))
              /\ a1 = Taken(cli'[t]) /\ b1 = cli'[t].items
              /\ Arrived(t) = a + b + c /\ Arrived(t)' = a1 + b1 + c
        BY <1>0, <2>1, ArrivedType DEF Arrived
      <4>2. CASE a1 = a /\ b1 = b /\ cli'[t].err = cli[t].err
        BY <4>1, <4>2
      <4>3. CASE cli[t].fin = "cancel" /\ b1 = 0 /\ a1 = a
        BY <3>1, <3>2, <4>1, <4>3 DEF Nil
      <4>4. CASE b > 0 /\ b1 = b - 1 /\ a1 = a + 1 /\ cli'[t].err = cli[t].err
        BY <4>1, <4>4
      <4>5. CASE /\ b1 = b /\ a1 <= a
                 /\ \/ cli'[t].err = cli[t].done /\ (cli[t].cancelled \/ cli[t].closed)
                    \/ cli'[t].err = "multiple" /\ cli'[t].done # Nil
        BY <3>1, <3>2, <4>1, <4>5 DEF Nil
      <4>. QED  BY <3>1, <4>1, <4>2, <4>3, <4>4, <4>5 DEF Reads
    <3>4. Arrived(t) \in Nat /\ Arrived(t)' \in Nat /\ srv[t].wrote \in Nat
      BY <1>0, ArrivedType
    <3>5. CountedOf(t)
      BY <1>0 DEF Counted
    <3>6. (Succeeded(t)' <=> Succeeded(t)) /\ (OnItsWay("close", t)' <=> OnItsWay("close", t))
      BY <2>1 DEF Succeeded, OnItsWay
    <3>7. Arrived(t)' <= srv'[t].wrote
      BY <2>1, <3>3, <3>4, <3>5 DEF CountedOf
    <3>8. cli'[t].done = Nil => cli[t].done = Nil
      BY <3>1 DEF Nil
    <3>9. cli'[t].done = "EOF" => cli[t].done = "EOF"
      BY <3>1
    <3>. QED  BY <2>1, <3>3, <3>5, <3>6, <3>7, <3>8, <3>9, Zenon DEF CountedOf
  <2>. QED  BY <1>1, <2>2, <2>3, ClientMoves DEF Only
<1>2. ASSUME ClientRecv, NEW t \in Ids
      PROVE  CountedOf(t)'
  <2>1. PICK f : f = s2c[1] /\ f.id \in Ids /\ ((f.id \notin streams /\ cli' = cli) \/ (f.id \in streams /\ Received(f)))
    BY <1>0, <1>2, ReceiveCases
  <2>2. /\ srv' = srv /\ streams' = streams /\ (ServerSendFails' <=> ServerSendFails)
        /\ 1 \in Frames(s2c) /\ (OnItsWay("close", t)' => OnItsWay("close", t))
    <3>1. srv' = srv /\ streams' = streams /\ (ServerSendFails' <=> ServerSendFails)
      BY <1>2 DEF ClientRecv, serverVars, ServerSendFails
    <3>2. 1 \in Frames(s2c) /\ \A i \in Frames(s2c') : s2c'[i] = s2c[i + 1] /\ i + 1 \in Frames(s2c)
      BY <1>0, <1>2, TakenFacts
    <3>. QED  BY <3>1, <3>2 DEF OnItsWay
  <2>3. cli \in [Ids -> ClientStream]
    BY <1>0 DEF TypeOK
  <2>4. PICK a \in Nat, b \in Nat, c \in Nat, a1 \in Nat, b1 \in Nat, c1 \in Nat, w \in Nat :
          /\ a = Taken(cli[t]) /\ b = cli[t].items /\ c = Cardinality(Msgs(s2c, t)) /\ Arrived(t) = a + b + c
          /\ a1 = Taken(cli'[t]) /\ b1 = cli'[t].items /\ c1 = Cardinality(Msgs(s2c', t)) /\ Arrived(t)' = a1 + b1 + c1
          /\ w = srv[t].wrote
    BY <1>0, ArrivedType
  <2>5. c = c1 + IF f.kind = "msg" /\ f.id = t THEN 1 ELSE 0
    BY <1>0, <1>2, <2>1, <2>4, MsgsTaken
  <2>6. a1 = a /\ cli'[t].err = cli[t].err
    <3>1. UNCHANGED <<cli[t].rd, cli[t].got, cli[t].err>>
      BY <2>1, <2>3, ReceivedFields DEF Only
    <3>. QED  BY <2>4, <3>1 DEF Taken
  <2>7. CountedOf(t)
    BY <1>0 DEF Counted
  <2>8. Succeeded(t)' <=> Succeeded(t)
    BY <2>2 DEF Succeeded
  <2>9. CASE f.id # t \/ f.kind = "headers"
    <3>1. c1 = c /\ b1 = b /\ cli'[t].done = cli[t].done
      BY <2>1, <2>3, <2>4, <2>5, <2>9, ReceivedFields DEF Only
    <3>2. Arrived(t)' = Arrived(t)
      BY <2>4, <2>6, <3>1
    <3>. QED  BY <2>2, <2>6, <2>7, <2>8, <3>1, <3>2, Zenon DEF CountedOf
  <2>10. CASE f.id = t /\ f.kind = "msg"
    <3>1. c = c1 + 1 /\ cli'[t].done = cli[t].done /\ (b1 = b \/ b1 = b + 1)
      BY <2>1, <2>3, <2>4, <2>5, <2>10, ReceivedFields DEF Only
    <3>2. cli[t].done # "EOF"
      BY <1>0, <2>1, <2>2, <2>10 DEF Responses, OnItsWay
    <3>3. ASSUME t \in streams
          PROVE  b1 = b + 1
      <4>1. ~cli[t].closed
        BY <1>0, <3>3 DEF Finishing, FinishingOf
      <4>. QED  BY <2>1, <2>3, <2>4, <2>10, <3>3, <4>1, ReceivedFields
    <3>4. Arrived(t)' <= Arrived(t) /\ (t \in streams => Arrived(t)' = Arrived(t)) /\ Arrived(t)' <= srv'[t].wrote
      BY <2>2, <2>4, <2>6, <2>7, <3>1, <3>3 DEF CountedOf
    <3>. QED  BY <2>2, <2>7, <2>8, <3>1, <3>2, <3>4, Zenon DEF CountedOf
  <2>11. CASE f.id = t /\ f.kind = "close"
    <3>1. c = c1 /\ b1 = b
      BY <2>1, <2>3, <2>4, <2>5, <2>11, ReceivedFields
    <3>2. Arrived(t)' = Arrived(t)
      BY <2>4, <2>6, <3>1
    <3>3. CASE cli'[t].done = cli[t].done
      BY <2>2, <2>6, <2>7, <2>8, <3>2, <3>3, Zenon DEF CountedOf
    <3>4. CASE cli'[t].done # cli[t].done
      <4>1. t \in streams /\ cli[t].done = Nil /\ cli'[t].done # Nil /\ (cli'[t].done = "EOF" => s2c[1].stat = Nil)
        BY <2>1, <2>3, <2>11, <3>4, ReceivedFields DEF Nil
      <4>2. OnItsWay("close", t)
        BY <2>1, <2>2, <2>11 DEF OnItsWay
      <4>3. s2c[1].stat = Nil => Succeeded(t)
        BY <1>0, <2>1, <2>2, <2>11 DEF Responses, Succeeded
      <4>. QED  BY <2>2, <2>7, <3>2, <4>1, <4>2, <4>3, Zenon DEF CountedOf
    <3>. QED  BY <3>3, <3>4
  <2>12. f.kind \in {"headers", "msg", "close"}
    BY <1>0, <2>1, <2>2, ResponsesTypes
  <2>. QED  BY <2>9, <2>10, <2>11, <2>12
<1>3. ASSUME ChannelStep, ~ClientRecv, NEW t \in Ids
      PROVE  CountedOf(t)'
  <2>1. /\ srv' = srv /\ s2c' = s2c /\ UNCHANGED Read(t) /\ cli'[t].done = cli[t].done
        /\ t \in streams' => t \in streams \/ cli[t].new = "none"
        /\ ServerSendFails' <=> ServerSendFails
    BY <1>3, ChannelMoves, ClientSide DEF ServerSendFails
  <2>2. Arrived(t)' = Arrived(t)
    BY <2>1 DEF Arrived, Taken, Read
  <2>3. (Succeeded(t)' <=> Succeeded(t)) /\ (OnItsWay("close", t)' <=> OnItsWay("close", t)) /\ cli'[t].err = cli[t].err
    BY <2>1 DEF Succeeded, OnItsWay, Read
  <2>4. CountedOf(t)
    BY <1>0 DEF Counted
  <2>5. ASSUME cli[t].new = "none"
        PROVE  Arrived(t) = srv[t].wrote
    <3>1. Msgs(s2c, t) = {}
      BY <2>5, Fresh DEF Msgs
    <3>2. cli[t].items = 0 /\ Taken(cli[t]) = 0 /\ srv[t].wrote = 0
      <4>1. cli[t] \in ClientStream
        BY <1>0 DEF TypeOK
      <4>. QED  BY <2>5, <4>1, Fresh, TakenValues
    <3>3. Cardinality(Msgs(s2c, t)) = 0
      BY <3>1, FS_EmptySet
    <3>. QED  BY <3>2, <3>3 DEF Arrived
  <2>. QED  BY <2>1, <2>2, <2>3, <2>4, <2>5, Zenon DEF CountedOf
<1>4. ASSUME ServeStep \/ \E s \in Ids : ServerStreamStep(s), NEW t \in Ids
      PROVE  CountedOf(t)'
  <2>1. cli' = cli /\ streams' = streams /\ Keeps(t)
    BY <1>4, ServerSide, ServerMoves
  <2>2. CountedOf(t)
    BY <1>0 DEF Counted
  <2>3. /\ Arrived(t) \in Nat /\ Arrived(t)' \in Nat /\ srv[t].wrote \in Nat /\ Taken(cli[t]) + cli[t].items \in Nat
        /\ Cardinality(Msgs(s2c, t)) \in Nat /\ Cardinality(Msgs(s2c', t)) \in Nat
        /\ Arrived(t) = (Taken(cli[t]) + cli[t].items) + Cardinality(Msgs(s2c, t))
        /\ Arrived(t)' = (Taken(cli[t]) + cli[t].items) + Cardinality(Msgs(s2c', t))
    BY <1>0, <2>1, ArrivedType
  <2>4. OnItsWay("close", t) => srv[t].close = "sent"
    BY <1>0 DEF OnItsWay, Responses
  <2>5. srv[t].close # "no" => (Succeeded(t)' <=> Succeeded(t))
    BY <2>1 DEF Keeps, Succeeded
  <2>6. cli[t].done = "EOF" => Succeeded(t) /\ ~OnItsWay("msg", t)
    BY <1>0 DEF Responses, Succeeded
  <2>7. CASE s2c' = s2c /\ Unsent(t)
    <3>1. Arrived(t)' = Arrived(t) /\ (OnItsWay("close", t)' <=> OnItsWay("close", t))
      BY <2>1, <2>7 DEF Arrived, OnItsWay
    <3>2. Arrived(t)' <= srv'[t].wrote
      BY <2>2, <2>3, <2>7, <3>1 DEF Unsent, CountedOf
    <3>3. Succeeded(t) => Succeeded(t)' /\ srv'[t].wrote = srv[t].wrote
      BY <2>5, <2>7 DEF Unsent, Succeeded
    <3>4. ~ServerSendFails' => srv'[t].wrote = srv[t].wrote
      BY <1>f, <2>7 DEF Unsent
    <3>5. Succeeded(t)' /\ OnItsWay("close", t) => Succeeded(t)
      BY <2>4, <2>5
    <3>. QED  BY <1>f, <2>1, <2>2, <2>6, <3>1, <3>2, <3>3, <3>4, <3>5, Zenon DEF CountedOf
  <2>8. CASE s2c' = <<>> /\ ServerSendFails' /\ srv'[t].wrote = srv[t].wrote
    <3>1. Msgs(s2c', t) = {} /\ ~OnItsWay("close", t)'
      BY <2>8 DEF Msgs, OnItsWay, Frames
    <3>2. Cardinality(Msgs(s2c', t)) = 0
      BY <3>1, FS_EmptySet
    <3>3. Arrived(t)' <= srv'[t].wrote
      BY <2>2, <2>3, <2>8, <3>2 DEF CountedOf
    <3>4. ASSUME cli[t].done = "EOF"
          PROVE  Arrived(t)' = Arrived(t)
      <4>1. Msgs(s2c, t) = {}
        BY <2>6, <3>4 DEF Msgs, OnItsWay
      <4>. QED  BY <2>3, <3>1, <4>1
    <3>. QED  BY <2>1, <2>2, <2>8, <3>1, <3>3, <3>4, Zenon DEF CountedOf
  <2>9. ASSUME NEW s \in Ids, Sends(s)
        PROVE  CountedOf(t)'
    <3>1. ~ServerSendFails /\ \A r \in Ids \ {s} : srv'[r] = srv[r]
      BY <2>9 DEF Sends
    <3>2. srv[s].stat \in {Nil, "status"}
      BY <1>0 DEF TypeOK, ServerStream
    <3>3. PICK k \in {"headers", "msg", "close"}, x \in {Nil, "status"} :
            /\ SendToClient(k, s, x)
            /\ k = "msg" => srv[s].h = "write" /\ srv'[s].wrote = srv[s].wrote + 1
            /\ k # "msg" => srv'[s].wrote = srv[s].wrote
      BY <2>9, <3>2 DEF Sends
    <3>4. Cardinality(Msgs(s2c', t)) = Cardinality(Msgs(s2c, t)) + IF k = "msg" /\ t = s THEN 1 ELSE 0
      BY <1>0, <3>1, <3>3, MsgsSent
    <3>5. CASE k = "msg" /\ t = s
      <4>1. Arrived(t)' = Arrived(t) + 1 /\ srv'[t].wrote = srv[t].wrote + 1
        BY <2>3, <3>3, <3>4, <3>5
      <4>2. cli[t].done # "EOF"
        BY <1>0, <2>6, <3>3, <3>5 DEF Outcome
      <4>. QED  BY <2>1, <2>2, <2>3, <3>1, <4>1, <4>2 DEF CountedOf
    <3>6. CASE ~(k = "msg" /\ t = s)
      <4>1. Arrived(t)' = Arrived(t) /\ srv'[t].wrote = srv[t].wrote
        BY <2>3, <3>1, <3>3, <3>4, <3>6
      <4>. QED  BY <2>1, <2>2, <3>1, <4>1 DEF CountedOf
    <3>. QED  BY <3>5, <3>6
  <2>. QED  BY <1>4, <2>7, <2>8, <2>9, ServerMoves
<1>. QED  BY <1>1, <1>2, <1>3, <1>4, Steps DEF Counted
-----------------------------------------------------------------------------
LEMMA InitInv ==
  ASSUME Init
  PROVE  IInv
<1>0. MaxStreams \in Nat /\ Ids \subseteq Nat \ {0} /\ scn \in Scenario
  BY TunnelAssumption DEF Init, Ids
<1>1. NewClientStream \in ClientStream
  BY DEF NewClientStream, ClientStream, Nil, Errors
<1>2. NewServerStream \in ServerStream
  <2>1. NoFinish \in Finish
    BY DEF NoFinish, Finish, Errors
  <2>2. PICK fin \in [Actors -> Finish] : fin = [w \in Actors |-> NoFinish]
    BY <2>1
  <2>3. RespWindow \in Nat
    BY TunnelAssumption
  <2>. QED  BY <2>2, <2>3 DEF NewServerStream, ServerStream, Nil, Errors
<1>3. \A s \in Ids : cli[s] = NewClientStream /\ srv[s] = NewServerStream
  BY DEF Init
<1>4. s2c = <<>> /\ c2s = <<>> /\ Frames(s2c) = {} /\ Frames(c2s) = {}
  BY DEF Init, Frames
<1>5. TypeOK
  <2>1. cli \in [Ids -> ClientStream] /\ srv \in [Ids -> ServerStream]
    BY <1>1, <1>2 DEF Init
  <2>2. closer \in [{"user", "loop"} -> {"no", "teardown", "section", "end"}]
    BY DEF Init
  <2>3. c2s \in Seq(ClientFrame) /\ s2c \in Seq(ServerFrame)
    BY <1>4
  <2>4. {finished, isClosing, sendClosed, stopped, ended, broken, protoErr} \subseteq BOOLEAN
    BY Zenon DEF Init
  <2>5. lastStreamID \in 0 .. MaxStreams /\ lastSeen \in -1 .. MaxStreams /\ streams = {} /\ svrStreams = {} /\ scn \in Scenarios
    BY <1>0 DEF Init
  <2>. QED  BY <2>1, <2>2, <2>3, <2>4, <2>5, Zenon DEF TypeOK
<1>6. NoProtocolError
  BY DEF Init, NoProtocolError
<1>7. /\ NewClientStream.new = "none" /\ NewClientStream.done = Nil /\ NewClientStream.err = Nil
      /\ NewClientStream.fin = "no" /\ NewClientStream.by = "none" /\ NewClientStream.rd = "ready"
      /\ NewClientStream.items = 0 /\ NewClientStream.got = 0 /\ NewClientStream.cancel = "no"
  BY DEF NewClientStream
<1>8. ~NewClientStream.watch /\ ~NewClientStream.closed /\ ~NewClientStream.cancelled
  BY DEF NewClientStream
<1>9. NewServerStream.h = "none" /\ NewServerStream.close = "no" /\ NewServerStream.wrote = 0
  BY DEF NewServerStream
<1>10. ~NewServerStream.sentHeaders /\ ~NewServerStream.finished /\ \A w \in Actors : NewServerStream.fin[w].pc = "no"
  BY DEF NewServerStream, NoFinish
<1>11. lastStreamID = 0 /\ streams = {} /\ svrStreams = {} /\ lastSeen = -1
  BY DEF Init
<1>12. Creation
  BY <1>0, <1>3, <1>7, <1>8, <1>11 DEF Creation, CreationOf, Scenario
<1>13. Finishing
  BY <1>3, <1>7, <1>8, <1>11 DEF Finishing, FinishingOf, Nil
<1>14. Requests
  BY <1>0, <1>3, <1>4, <1>7, <1>11 DEF Requests
<1>15. Registered
  BY <1>3, <1>9, <1>10, <1>11 DEF Registered
<1>16. Outcome
  BY <1>3, <1>9, <1>10 DEF Outcome, Succeeded, Actors
<1>17. Responses
  BY <1>3, <1>4, <1>7 DEF Responses, Nil
<1>18. HeadersLead
  BY <1>3, <1>7, <1>11 DEF HeadersLead, HeadersLeadOf
<1>19. ASSUME NEW s \in Ids
       PROVE  CountedOf(s)
  <2>1. Msgs(s2c, s) = {}
    BY <1>4 DEF Msgs
  <2>2. Taken(cli[s]) = 0
    BY <1>1, <1>3, <1>7, TakenValues
  <2>3. Arrived(s) = 0 + 0 + 0
    BY <1>3, <1>7, <2>1, <2>2, FS_EmptySet DEF Arrived
  <2>. QED  BY <1>3, <1>9, <2>3 DEF CountedOf
<1>. QED  BY <1>5, <1>6, <1>12, <1>13, <1>14, <1>15, <1>16, <1>17, <1>18, <1>19 DEF IInv, Counted

LEMMA StepInv ==
  ASSUME IInv, [Next]_vars
  PROVE  IInv'
<1>1. CASE Next
  <2>1. TypeOK'
    BY <1>1, TypeStep DEF IInv
  <2>. QED
    BY <1>1, <2>1, NoProtocolErrorStep, CreationStep, FinishingStep, RequestsStep, RegisteredStep, OutcomeStep,
       ResponsesStep, HeadersLeadStep, CountedStep DEF IInv
<1>2. CASE UNCHANGED vars
  BY <1>2 DEF vars, IInv, TypeOK, NoProtocolError, Creation, CreationOf, Finishing, FinishingOf, Requests, Registered,
     Outcome, Responses, HeadersLead, HeadersLeadOf, Counted, CountedOf, Arrived, Succeeded, Failed, OnItsWay,
     ServerSendFails, ClientSendFails
<1>. QED  BY <1>1, <1>2

(***************************************************************************)
(* The theorems.                                                           *)
(***************************************************************************)
\* Every reachable state satisfies the inductive invariant: creation and finish
\* of the streams at both ends agree with the frames between them.
THEOREM Invariance == Spec => []IInv
<1>1. Init => IInv
  BY InitInv
<1>2. IInv /\ [Next]_vars => IInv'
  BY StepInv
<1>. QED  BY <1>1, <1>2, PTL DEF Spec

\* The variables of the channel, of the server and of their streams keep their
\* types.
THEOREM TypeCorrect == Spec => []TypeOK
<1>1. IInv => TypeOK
  BY DEF IInv
<1>. QED  BY <1>1, Invariance, PTL

\* No frame that either end sends is a protocol error to the other: getStream
\* and createStream know every ID they meet, whatever the order in which the
\* streams are created, rejected, cancelled and finished.
THEOREM NeverAProtocolError == Spec => []NoProtocolError
<1>1. IInv => NoProtocolError
  BY DEF IInv
<1>. QED  BY <1>1, Invariance, PTL

\* A caller that has been told of the end of its RPC by RecvMsg finds the
\* headers, the trailers and the error of the stream in place.
THEOREM Published == Spec => []EndIsPublished
<1>1. ASSUME IInv PROVE EndIsPublished
  <2>1. ASSUME NEW s \in Ids, cli[s].err # Nil
        PROVE  /\ cli[s].done # Nil
               /\ cli[s].err = "multiple" \/ (cli[s].doneSignal /\ cli[s].headers # "no")
               /\ cli[s].err \in {"EOF", "status"} => cli[s].trailers
    BY <1>1, <2>1 DEF IInv, Finishing, FinishingOf
  <2>. QED  BY <2>1 DEF EndIsPublished
<1>. QED  BY <1>1, Invariance, PTL

\* finishStream of the server lets one outcome of a stream go to the client.
THEOREM OneOutcome == Spec => []ClosedOnce
<1>1. ASSUME IInv PROVE ClosedOnce
  <2>0. TypeOK /\ Responses
    BY <1>1 DEF IInv
  <2>1. ASSUME NEW s \in Ids
        PROVE  Outcomes(s) + (IF cli[s].done \in {"EOF", "status"} THEN 1 ELSE 0) <= 1
    <3> DEFINE C == {i \in 1 .. Len(s2c) : s2c[i].kind = "close" /\ s2c[i].id = s}
    <3>1. \A i \in C : srv[s].close = "sent" /\ cli[s].done \notin {"EOF", "status"} /\ C = {i}
      <4>1. SUFFICES ASSUME NEW i \in C
                     PROVE  srv[s].close = "sent" /\ cli[s].done \notin {"EOF", "status"} /\ C = {i}
        OBVIOUS
      <4>2. srv[s].close = "sent" /\ cli[s].done \notin {"EOF", "status"}
        BY <2>0 DEF Responses, Frames
      <4>3. \A j \in C : j = i
        BY <2>0 DEF Responses, Frames
      <4>. QED  BY <4>2, <4>3
    <3>2. cli[s].done \in {"EOF", "status"} => srv[s].close = "sent"
      BY <2>0 DEF Responses
    <3>3. Outcomes(s) = Cardinality(C) + (IF srv[s].close \in {"headers", "close"} THEN 1 ELSE 0)
      BY DEF Outcomes
    <3>. HIDE DEF C
    <3>4. CASE C = {}
      <4>1. Cardinality(C) = 0
        BY <3>4, FS_EmptySet
      <4>. QED  BY <3>2, <3>3, <4>1
    <3>5. CASE C # {}
      <4>1. PICK i \in C : TRUE
        BY <3>5
      <4>2. Cardinality(C) = 1
        BY <3>1, <4>1, FS_Singleton
      <4>3. srv[s].close = "sent" /\ cli[s].done \notin {"EOF", "status"}
        BY <3>1, <4>1
      <4>. QED  BY <3>3, <4>2, <4>3
    <3>. QED  BY <3>4, <3>5
  <2>. QED  BY <2>1 DEF ClosedOnce
<1>. QED  BY <1>1, Invariance, PTL
-----------------------------------------------------------------------------
(***************************************************************************)
(* Each stream is an RPC: the refinement of module Rpc.                    *)
(***************************************************************************)
RpcStep(s) == [Call(s)!Next]_(Call(s)!vars)
\* What Rpc sees of the server's part of a stream, and of the client's.
ServerPart(s) == <<srv[s].wrote, srv[s].close, srv[s].stat>>
ClientPart(s) == <<cli[s].ctx, cli[s].headers, cli[s].got, cli[s].err>>

LEMMA RpcInit ==
  ASSUME Init, NEW s \in Ids
  PROVE  Call(s)!Init
<1>1. cli[s] = NewClientStream /\ srv[s] = NewServerStream
  BY DEF Init
<1>2. /\ srv[s].wrote = 0 /\ srv[s].close = "no" /\ cli[s].ctx = FALSE
      /\ cli[s].headers = "no" /\ cli[s].got = 0 /\ cli[s].err = "nil"
  BY <1>1 DEF NewClientStream, NewServerStream, Nil
<1>. QED  BY <1>2 DEF Call!Init

LEMMA RpcStutters ==
  ASSUME NEW s \in Ids, UNCHANGED ServerPart(s), UNCHANGED ClientPart(s)
  PROVE  RpcStep(s)
BY DEF RpcStep, ServerPart, ClientPart, Call!vars

LEMMA RpcCancels ==
  ASSUME NEW s \in Ids, cli'[s] \in ClientStream, UNCHANGED ServerPart(s),
         cli'[s].ctx, UNCHANGED <<cli[s].headers, cli[s].got, cli[s].err>>
  PROVE  RpcStep(s)
<1>1. cli'[s].ctx = TRUE
  BY DEF ClientStream
<1>. QED  BY <1>1 DEF RpcStep, ServerPart, Call!vars, Call!Next, Call!Cancel

LEMMA RpcHeaders ==
  ASSUME NEW s \in Ids, UNCHANGED ServerPart(s), cli'[s].headers # "no" \/ cli'[s].headers = cli[s].headers,
         UNCHANGED <<cli[s].ctx, cli[s].got, cli[s].err>>
  PROVE  RpcStep(s)
BY DEF RpcStep, ServerPart, Call!vars, Call!Next, Call!HeadersKnown

\* Responses that RecvMsg has taken from the queue were written.
LEMMA GotResponses ==
  ASSUME IInv, NEW s \in Ids, cli[s].rd # "ready"
  PROVE  cli[s].got < srv[s].wrote
<1>0. cli[s] \in ClientStream /\ srv[s] \in ServerStream /\ Len(s2c) \in Nat
  BY DEF IInv, TypeOK
<1>1. Cardinality(Msgs(s2c, s)) \in Nat
  BY <1>0, MsgsFinite
<1>2. Taken(cli[s]) > cli[s].got /\ Taken(cli[s]) \in Nat /\ cli[s].items \in Nat /\ cli[s].got \in Nat
  BY <1>0, TakenValues DEF ClientStream
<1>3. Arrived(s) <= srv[s].wrote /\ srv[s].wrote \in Nat
  BY <1>0 DEF IInv, Counted, CountedOf, ServerStream
<1>. QED  BY <1>1, <1>2, <1>3 DEF Arrived

\* ClientAck, when RecvMsg returns with a response.
LEMMA RpcReceives ==
  ASSUME IInv, NEW s \in Ids, UNCHANGED ServerPart(s), cli[s].rd = "update",
         cli'[s].got = cli[s].got + 1, UNCHANGED <<cli[s].ctx, cli[s].headers, cli[s].err>>
  PROVE  RpcStep(s)
<1>1. cli[s].err = "nil"
  BY DEF IInv, Finishing, FinishingOf, Nil
<1>2. cli[s].headers # "no" \/ Failed(s)
  BY DEF IInv, HeadersLead, HeadersLeadOf
<1>3. cli[s].got < srv[s].wrote
  BY GotResponses
<1>. QED  BY <1>1, <1>2, <1>3 DEF RpcStep, ServerPart, Failed, Nil, Call!vars, Call!Next, Call!Receive

\* ClientRecvMsg, when it reports the end of the stream.
LEMMA RpcEnds ==
  ASSUME IInv, NEW s \in Ids, UNCHANGED ServerPart(s), ClientRecvMsg(s),
         UNCHANGED <<cli[s].ctx, cli[s].headers>>,
         cli[s].cancelled \/ (cli[s].items = 0 /\ cli[s].closed),
         cli'[s].err = cli[s].done,
         \/ cli[s].rd = "second" /\ cli[s].done = "EOF" /\ cli'[s].got = cli[s].got + 1
         \/ (cli[s].rd = "ready" \/ cli[s].done # "EOF") /\ cli'[s].got = cli[s].got
  PROVE  RpcStep(s)
<1>0. TypeOK /\ Finishing /\ Responses /\ Counted
  BY DEF IInv
<1>1. cli[s].err = "nil" /\ cli[s].rd \in {"ready", "second"}
  BY DEF ClientRecvMsg, Nil
<1>2. cli[s].done # Nil /\ cli[s].headers # "no" /\ cli[s].done # "multiple" /\ (cli[s].done = "canceled" => cli[s].ctx)
  BY <1>0, <1>1 DEF Finishing, FinishingOf, Nil
<1>3. cli[s].done \in Errors /\ cli[s].ctx \in BOOLEAN
  BY <1>0 DEF TypeOK, ClientStream
<1>4. CASE cli[s].done = "EOF"
  <2>1. srv[s].close = "sent" /\ srv[s].stat = Nil /\ ~OnItsWay("msg", s)
    BY <1>0, <1>4 DEF Responses
  <2>2. cli[s].items = 0
    BY <1>0, <1>4 DEF Finishing, FinishingOf
  <2>3. Cardinality(Msgs(s2c, s)) = 0
    <3>1. Msgs(s2c, s) = {}
      BY <2>1 DEF Msgs, OnItsWay
    <3>. QED  BY <3>1, FS_EmptySet
  <2>4. Arrived(s) = srv[s].wrote
    BY <1>0, <1>1, <1>4 DEF Counted, CountedOf, Nil
  <2>5. cli[s] \in ClientStream
    BY <1>0 DEF TypeOK
  <2>6. Taken(cli[s]) \in Nat /\ Taken(cli[s]) = cli'[s].got
    BY <1>1, <1>4, <2>5, TakenValues
  <2>7. cli'[s].got = srv[s].wrote
    BY <2>2, <2>3, <2>4, <2>6 DEF Arrived
  <2>8. cli'[s].got \in {cli[s].got, cli[s].got + 1}
    OBVIOUS
  <2>. QED  BY <1>1, <1>2, <1>4, <2>1, <2>7, <2>8 DEF RpcStep, ServerPart, Call!vars, Call!Next, Call!End
<1>5. CASE cli[s].done = "status"
  <2>1. srv[s].close = "sent" /\ srv[s].stat = "status"
    BY <1>0, <1>5 DEF Responses
  <2>. QED  BY <1>1, <1>2, <1>5, <2>1 DEF RpcStep, ServerPart, Nil, Call!vars, Call!Next, Call!End
<1>6. CASE cli[s].done = "canceled"
  BY <1>1, <1>2, <1>6 DEF RpcStep, ServerPart, Call!vars, Call!Next, Call!End
<1>. QED  BY <1>2, <1>3, <1>4, <1>5, <1>6 DEF Errors

\* ClientReadFails.
LEMMA RpcFails ==
  ASSUME IInv, NEW s \in Ids, UNCHANGED ServerPart(s), cli[s].rd = "failed",
         cli'[s].err = "multiple", UNCHANGED <<cli[s].ctx, cli[s].headers, cli[s].got>>
  PROVE  RpcStep(s)
<1>1. cli[s].err = "nil"
  BY DEF IInv, Finishing, FinishingOf, Nil
<1>2. cli[s].got < srv[s].wrote
  BY GotResponses
<1>. QED  BY <1>1, <1>2 DEF RpcStep, ServerPart, Call!vars, Call!Next, Call!End

\* A step of the server that leaves the client alone.
LEMMA RpcServes ==
  ASSUME IInv, NEW s \in Ids, UNCHANGED ClientPart(s), Keeps(s), srv' \in [Ids -> ServerStream]
  PROVE  RpcStep(s)
<1>1. srv'[s].close = "no" => srv[s].close = "no"
  BY DEF Keeps
<1>2. CASE srv'[s].wrote # srv[s].wrote
  <2>1. ~Succeeded(s)
    BY <1>2 DEF IInv, Outcome, Keeps
  <2>. QED  BY <1>2, <2>1 DEF RpcStep, ClientPart, Keeps, Succeeded, Call!vars, Call!Next, Call!Write
<1>3. CASE srv'[s].wrote = srv[s].wrote /\ (srv[s].close # "no" \/ srv'[s].close = "no")
  BY <1>1, <1>3 DEF RpcStep, ClientPart, Keeps, Call!vars
<1>4. CASE srv'[s].wrote = srv[s].wrote /\ srv[s].close = "no" /\ srv'[s].close # "no"
  BY <1>4 DEF RpcStep, ClientPart, Call!vars, Call!Next, Call!Decide
<1>. QED  BY <1>2, <1>3, <1>4

LEMMA RpcSteps ==
  ASSUME IInv, TypeOK', Next, NEW t \in Ids
  PROVE  RpcStep(t)
<1>0. TypeOK /\ cli \in [Ids -> ClientStream] /\ cli' \in [Ids -> ClientStream] /\ srv' \in [Ids -> ServerStream]
  BY DEF IInv, TypeOK
<1>1. ASSUME NEW s \in Ids, ClientStreamStep(s)
      PROVE  RpcStep(t)
  <2>1. UNCHANGED ServerPart(t)
    BY <1>1, ClientSide DEF ServerPart
  <2>2. CASE t # s
    <3>1. UNCHANGED ClientPart(t)
      BY <1>1, <2>2, ClientMoves DEF Only, ClientPart
    <3>. QED  BY <2>1, <3>1, RpcStutters
  <2>3. CASE t = s
    <3>1. CASE CancelContext(s) \/ FinishContext(s)
      <4>1. cli'[t].ctx /\ UNCHANGED Read(t)
        BY <1>0, <2>3, <3>1, CancelContextFields, FinishContextFields
      <4>2. UNCHANGED <<cli[t].headers, cli[t].got, cli[t].err>>
        BY <4>1 DEF Read
      <4>. QED  BY <1>0, <2>1, <4>1, <4>2, RpcCancels
    <3>2. CASE FinishMeta(s)
      <4>1. cli'[t].headers # "no" /\ UNCHANGED <<cli[t].ctx, cli[t].got, cli[t].err>>
        BY <1>0, <2>3, <3>2, FinishMetaFields DEF Life
      <4>. QED  BY <2>1, <4>1, RpcHeaders
    <3>3. CASE \/ SendNewStream(s) \/ Watch(s) \/ FinishRemove(s) \/ FinishClose(s) \/ FinishCancel(s) \/ SendCancel(s)
               \/ ClientSendMsg(s) \/ CloseSend(s)
      <4>1. CASE SendNewStream(s) \/ Watch(s) \/ SendCancel(s)
        BY <1>0, <2>1, <2>3, <4>1, SendNewStreamFields, WatchFields, SendCancelFields, RpcStutters DEF Read, ClientPart
      <4>2. CASE FinishRemove(s) \/ FinishClose(s)
        BY <1>0, <2>1, <2>3, <4>2, FinishRemoveFields, FinishCloseFields, RpcStutters DEF Life, Read, ClientPart
      <4>3. CASE FinishCancel(s)
        BY <1>0, <2>1, <2>3, <4>3, FinishCancelFields, RpcStutters DEF ClientPart
      <4>4. CASE ClientSendMsg(s) \/ CloseSend(s)
        BY <1>0, <2>1, <2>3, <4>4, SendFields, RpcStutters DEF Life, Read, ClientPart
      <4>. QED  BY <3>3, <4>1, <4>2, <4>3, <4>4
    <3>4. CASE ClientAck(s)
      <4>1. UNCHANGED <<cli[t].ctx, cli[t].headers, cli[t].err>>
        BY <1>0, <2>3, <3>4, AckFields DEF Life
      <4>2. \/ cli[t].rd = "update" /\ cli'[t].got = cli[t].got + 1
            \/ cli'[t].got = cli[t].got
        BY <1>0, <2>3, <3>4, AckFields
      <4>. QED  BY <2>1, <4>1, <4>2, RpcReceives, RpcStutters DEF ClientPart
    <3>5. CASE ClientRecvMsg(s)
      <4>1. UNCHANGED <<cli[t].ctx, cli[t].headers>>
        BY <1>0, <2>3, <3>5, RecvMsgFields DEF Life
      <4>2. \/ cli'[t].got = cli[t].got /\ cli'[t].err = cli[t].err
            \/ /\ cli[t].cancelled \/ (cli[t].items = 0 /\ cli[t].closed)
               /\ cli'[t].err = cli[t].done
               /\ \/ cli[t].rd = "second" /\ cli[t].done = "EOF" /\ cli'[t].got = cli[t].got + 1
                  \/ (cli[t].rd = "ready" \/ cli[t].done # "EOF") /\ cli'[t].got = cli[t].got
        BY <1>0, <2>3, <3>5, RecvMsgFields
      <4>. QED  BY <2>1, <2>3, <3>5, <4>1, <4>2, RpcEnds, RpcStutters DEF ClientPart
    <3>6. CASE ClientReadFails(s)
      <4>1. cli[t].rd = "failed"
        BY <2>3, <3>6 DEF ClientReadFails
      <4>2. cli'[t].err = "multiple" /\ UNCHANGED <<cli[t].ctx, cli[t].headers, cli[t].got>>
        BY <1>0, <2>3, <3>6, ClientReadFailsFields DEF Life
      <4>. QED  BY <2>1, <4>1, <4>2, RpcFails
    <3>. QED  BY <1>1, <3>1, <3>2, <3>3, <3>4, <3>5, <3>6 DEF ClientStreamStep, FinishStep
  <2>. QED  BY <2>2, <2>3
<1>2. CASE ClientRecv
  <2>1. UNCHANGED ServerPart(t)
    BY <1>2 DEF ClientRecv, serverVars, ServerPart
  <2>2. PICK f : f.id \in Ids /\ (cli' = cli \/ Received(f))
    BY <1>0, <1>2, ReceiveCases
  <2>3. /\ cli'[t].headers # "no" \/ cli'[t].headers = cli[t].headers
        /\ UNCHANGED <<cli[t].ctx, cli[t].got, cli[t].err>>
    BY <1>0, <2>2, ReceivedFields DEF Only, Life
  <2>. QED  BY <2>1, <2>3, RpcHeaders
<1>3. CASE ChannelStep /\ ~ClientRecv
  <2>1. UNCHANGED ServerPart(t)
    BY <1>3, ClientSide DEF ServerPart
  <2>2. UNCHANGED <<cli[t].headers, cli[t].got, cli[t].err>>
    BY <1>3, ChannelMoves DEF Read
  <2>3. cli'[t].ctx \/ cli'[t].ctx = cli[t].ctx
    <3>1. cli[t].ctx \in BOOLEAN /\ cli'[t].ctx \in BOOLEAN
      BY <1>0 DEF ClientStream
    <3>2. cli[t].ctx => cli'[t].ctx
      <4>1. ASSUME NEW ok \in BOOLEAN, allocateStream(ok)
            PROVE  cli'[t].ctx = cli[t].ctx
        <5>1. lastStreamID + 1 \in Ids
          BY <1>0, <4>1, allocateId
        <5>. QED  BY <1>0, <4>1, <5>1, allocateFields DEF Only
      <4>2. ASSUME NEW w, CloseSection(w)
            PROVE  cli[t].ctx => cli'[t].ctx
        BY <1>0, <4>2, CloseSectionFields
      <4>3. ASSUME ClientRecvEnd \/ Close \/ \E w \in {"user", "loop"} : CloseTearDown(w)
            PROVE  cli' = cli
        BY <4>3 DEF ClientRecvEnd, Close, CloseTearDown
      <4>. QED  BY <1>3, <4>1, <4>2, <4>3 DEF ChannelStep
    <3>. QED  BY <3>1, <3>2
  <2>. QED  BY <1>0, <2>1, <2>2, <2>3, RpcCancels, RpcStutters DEF ClientPart
<1>4. CASE ServeStep \/ \E s \in Ids : ServerStreamStep(s)
  <2>1. UNCHANGED ClientPart(t)
    BY <1>4, ServerSide DEF ClientPart
  <2>2. Keeps(t)
    BY <1>4, ServerMoves
  <2>. QED  BY <1>0, <2>1, <2>2, RpcServes
<1>. QED  BY <1>1, <1>2, <1>3, <1>4, Steps

\* Every stream of a tunnel, whatever else the tunnel carries and however it
\* ends, is an RPC as module Rpc describes it: RecvMsg reports success only with
\* every response of the handler delivered, and otherwise what the server
\* decided or the client's own reason.
THEOREM ImplementsRpc == Spec => RpcSpec
<1>1. Init => \A s \in Ids : Call(s)!Init
  BY RpcInit
<1>2. IInv /\ [Next]_vars => [\A s \in Ids : [Call(s)!Next]_(Call(s)!vars)]_vars
  <2>1. ASSUME IInv, Next
        PROVE  \A s \in Ids : [Call(s)!Next]_(Call(s)!vars)
    <3>1. TypeOK'
      BY <2>1, TypeStep DEF IInv
    <3>2. \A s \in Ids : RpcStep(s)
      BY <2>1, <3>1, RpcSteps
    <3>. QED  BY <3>2 DEF RpcStep
  <2>. QED  BY <2>1
<1>. QED  BY <1>1, <1>2, Invariance, PTL DEF Spec, RpcSpec
=============================================================================
