---------------------- MODULE FlowControlStreamProofs ----------------------
(***************************************************************************)
(* What comes out of FlowControl, for every instance of it: messages       *)
(* whole, unmixed and in order.  So the safety of MessageStream is kept.   *)
(*                                                                         *)
(* Everything between the reader and the thread in send is one chain of    *)
(* frames, the pipe: each frame goes on with the message of the one before *)
(* it, or starts a later message.  The reader's buffer says where the      *)
(* chain begins, the message of the thread in send where it will go on.    *)
(***************************************************************************)
EXTENDS FlowControlProofs

\* Nothing has made send give up on a message.
Steady == ~ctxDone /\ ~broken

\* The reader may still return messages: it has met neither a malformed one
\* nor a cancelled receiver.
Reading == ~cancelled /\ ~readErr

\* What the reader may still get: a closed receiver drops what is in flight.
Pipe == IF closed THEN items ELSE items \o frames

(***************************************************************************)
(* A place in the stream is a message i and an offset o in it: so many     *)
(* bytes of the message have gone by, or all of it.                        *)
(***************************************************************************)
AllOf == -1
Offsets == Nat \cup {AllOf}

\* The end of message i, whose size is in q.
Whole(q, i, o) == o = AllOf \/ (i \in 1 .. Len(q) /\ o = q[i])

\* f (a frame, or what a thread has yet to send) may come after this place:
\* it goes on there, or starts a later message.
After(i, o, f) ==
  /\ f.first => f.lo = 0 /\ i < f.id
  /\ ~f.first => f.id = i /\ f.lo = o

\* Nothing is missing between this place and f.
Link(q, i, o, f) == f.first => f.id = i + 1 /\ Whole(q, i, o)

\* The frames of s follow each other, the first one a given place.
Chain(s, i, o) ==
  /\ s # <<>> => After(i, o, s[1])
  /\ \A j, k \in 1 .. Len(s) : k = j + 1 => After(s[j].id, s[j].lo + s[j].len, s[k])

TightChain(q, s, i, o) ==
  /\ s # <<>> => Link(q, i, o, s[1])
  /\ \A j, k \in 1 .. Len(s) : k = j + 1 => Link(q, s[j].id, s[j].lo + s[j].len, s[k])

\* The place at which s ends, if it begins after message i and offset o.
EndId(s, i) == IF s = <<>> THEN i ELSE s[Len(s)].id
EndOff(s, o) == IF s = <<>> THEN o ELSE s[Len(s)].lo + s[Len(s)].len

\* A frame is a part of a message that was given to send.
Genuine(q, f) ==
  /\ f.id \in 1 .. Len(q)
  /\ f.lo + f.len <= q[f.id]
  /\ f.first => f.size = q[f.id]
  /\ ~f.first => f.lo < q[f.id]

AllGenuine(q, s) == \A k \in 1 .. Len(s) : Genuine(q, s[k])
-----------------------------------------------------------------------------
\* The number of the message delivered last.
LastId == IF delivered = <<>> THEN 0 ELSE delivered[Len(delivered)].id

\* The place the reader has come to.
ReadId == IF msgLen = NoMessage THEN LastId ELSE buf.id
ReadOff == IF msgLen = NoMessage THEN AllOf ELSE buf.len

\* The thread in send works on the message that was given to send last.
Working ==
  \A t \in Threads : pc[t] # "idle" =>
    /\ Len(sent) >= 1 /\ msg[t].id = Len(sent) /\ msg[t].size = sent[Len(sent)]
    /\ msg[t].first => msg[t].lo = 0

\* What readMsgLocked has put together so far is the start of one message.
Assembling ==
  msgLen # NoMessage =>
    /\ buf.id \in 1 .. Len(sent) /\ msgLen = sent[buf.id] /\ buf.len < msgLen
    /\ LastId < buf.id
    /\ Steady => buf.id = LastId + 1

\* Where the reader is once it has met a malformed message.
Stopped ==
  /\ rd = "failed" => readErr
  /\ readErr => rd \in {"update", "failed", "done"}

\* The thread in send will go on at this place; if there is none, everything
\* that was sent is before it.
Joined(i, o) ==
  /\ \A t \in Threads : pc[t] # "idle" => After(i, o, msg[t]) /\ (Steady => Link(sent, i, o, msg[t]))
  /\ mu = NoThread /\ Steady => i = Len(sent) /\ Whole(sent, i, o)

\* The pipe leads from the reader to the thread in send.
Piped ==
  Reading =>
    /\ AllGenuine(sent, Pipe)
    /\ Chain(Pipe, ReadId, ReadOff)
    /\ Steady => TightChain(sent, Pipe, ReadId, ReadOff)
    /\ ~closed => Joined(EndId(Pipe, ReadId), EndOff(Pipe, ReadOff))

\* The invariant that DeliveredInOrder needs: it is a matter of what is in the
\* pipe, which it does not mention.
SInv == Working /\ Assembling /\ Stopped /\ Piped /\ DeliveredInOrder
-----------------------------------------------------------------------------
(***************************************************************************)
(* Chains.                                                                 *)
(***************************************************************************)
\* Moving a frame from one sequence to the next, or off the end of the last,
\* does what one expects to the sequence they make up.
LEMMA ConcatFacts ==
  ASSUME NEW R, NEW s \in Seq(R), NEW u \in Seq(R)
  PROVE  /\ s \o u \in Seq(R)
         /\ s \o <<>> = s
         /\ \A e \in R : s \o Append(u, e) = Append(s \o u, e)
         /\ u # <<>> => Append(s, Head(u)) \o Tail(u) = s \o u
         /\ s # <<>> => s \o u # <<>> /\ Head(s \o u) = Head(s) /\ Tail(s \o u) = Tail(s) \o u
<1>1. s \o u \in Seq(R) /\ s \o <<>> = s
  OBVIOUS
<1>2. \A e \in R : s \o Append(u, e) = Append(s \o u, e)
  OBVIOUS
<1>3. u # <<>> => Append(s, Head(u)) \o Tail(u) = s \o u
  OBVIOUS
<1>4. s # <<>> => s \o u # <<>> /\ Head(s \o u) = Head(s) /\ Tail(s \o u) = Tail(s) \o u
  OBVIOUS
<1>. QED  BY <1>1, <1>2, <1>3, <1>4

\* A chain goes on with a frame that comes after its end.
LEMMA ChainAppend ==
  ASSUME NEW s \in Seq(Frame), NEW e \in Frame, NEW i, NEW o, Chain(s, i, o), After(EndId(s, i), EndOff(s, o), e)
  PROVE  Chain(Append(s, e), i, o) /\ EndId(Append(s, e), i) = e.id /\ EndOff(Append(s, e), o) = e.lo + e.len
<1> DEFINE s2 == Append(s, e)
           n == Len(s)
<1>1. /\ n \in Nat /\ Len(s2) = n + 1 /\ s2 # <<>> /\ (s = <<>> <=> n = 0)
      /\ s2[n + 1] = e /\ \A j \in 1 .. n : s2[j] = s[j]
  BY AppendFacts
<1>2. /\ s # <<>> => After(i, o, s[1])
      /\ \A j, k \in 1 .. n : k = j + 1 => After(s[j].id, s[j].lo + s[j].len, s[k])
  BY DEF Chain
<1>3. (s = <<>> => After(i, o, e)) /\ (s # <<>> => After(s[n].id, s[n].lo + s[n].len, e))
  BY DEF EndId, EndOff
<1> HIDE DEF s2, n
<1>4. After(i, o, s2[1])
  <2>1. CASE n = 0
    BY <1>1, <1>3, <2>1
  <2>2. CASE n # 0
    <3>1. 1 \in 1 .. n BY <1>1, <2>2
    <3>. QED  BY <1>1, <1>2, <2>2, <3>1
  <2>. QED  BY <2>1, <2>2
<1>5. ASSUME NEW j \in 1 .. n + 1, NEW k \in 1 .. n + 1, k = j + 1
      PROVE  After(s2[j].id, s2[j].lo + s2[j].len, s2[k])
  <2>1. j \in 1 .. n /\ s2[j] = s[j]
    BY <1>1, <1>5
  <2>2. CASE k = n + 1
    <3>1. j = n /\ n # 0 BY <1>1, <1>5, <2>1, <2>2
    <3>2. s2[k] = e /\ s # <<>> BY <1>1, <2>2, <3>1
    <3>. QED  BY <1>3, <2>1, <3>1, <3>2
  <2>3. CASE k # n + 1
    <3>1. k \in 1 .. n /\ s2[k] = s[k] BY <1>1, <1>5, <2>3
    <3>. QED  BY <1>2, <1>5, <2>1, <3>1
  <2>. QED  BY <2>2, <2>3
<1>6. Chain(s2, i, o)
  BY <1>1, <1>4, <1>5 DEF Chain
<1>7. EndId(s2, i) = e.id /\ EndOff(s2, o) = e.lo + e.len
  BY <1>1 DEF EndId, EndOff
<1>. QED  BY <1>6, <1>7 DEF s2

\* The same for a chain without gaps.
LEMMA TightChainAppend ==
  ASSUME NEW q, NEW s \in Seq(Frame), NEW e \in Frame, NEW i, NEW o, TightChain(q, s, i, o),
         Link(q, EndId(s, i), EndOff(s, o), e)
  PROVE  TightChain(q, Append(s, e), i, o)
<1> DEFINE s2 == Append(s, e)
           n == Len(s)
<1>1. /\ n \in Nat /\ Len(s2) = n + 1 /\ s2 # <<>> /\ (s = <<>> <=> n = 0)
      /\ s2[n + 1] = e /\ \A j \in 1 .. n : s2[j] = s[j]
  BY AppendFacts
<1>2. /\ s # <<>> => Link(q, i, o, s[1])
      /\ \A j, k \in 1 .. n : k = j + 1 => Link(q, s[j].id, s[j].lo + s[j].len, s[k])
  BY DEF TightChain
<1>3. (s = <<>> => Link(q, i, o, e)) /\ (s # <<>> => Link(q, s[n].id, s[n].lo + s[n].len, e))
  BY DEF EndId, EndOff
<1> HIDE DEF s2, n
<1>4. Link(q, i, o, s2[1])
  <2>1. CASE n = 0
    BY <1>1, <1>3, <2>1
  <2>2. CASE n # 0
    <3>1. 1 \in 1 .. n BY <1>1, <2>2
    <3>. QED  BY <1>1, <1>2, <2>2, <3>1
  <2>. QED  BY <2>1, <2>2
<1>5. ASSUME NEW j \in 1 .. n + 1, NEW k \in 1 .. n + 1, k = j + 1
      PROVE  Link(q, s2[j].id, s2[j].lo + s2[j].len, s2[k])
  <2>1. j \in 1 .. n /\ s2[j] = s[j]
    BY <1>1, <1>5
  <2>2. CASE k = n + 1
    <3>1. j = n /\ n # 0 BY <1>1, <1>5, <2>1, <2>2
    <3>2. s2[k] = e /\ s # <<>> BY <1>1, <2>2, <3>1
    <3>. QED  BY <1>3, <2>1, <3>1, <3>2
  <2>3. CASE k # n + 1
    <3>1. k \in 1 .. n /\ s2[k] = s[k] BY <1>1, <1>5, <2>3
    <3>. QED  BY <1>2, <1>5, <2>1, <3>1
  <2>. QED  BY <2>2, <2>3
<1>6. TightChain(q, s2, i, o)
  BY <1>1, <1>4, <1>5 DEF TightChain
<1>. QED  BY <1>6 DEF s2

\* Without its first frame a chain begins where that frame ends.
LEMMA ChainTail ==
  ASSUME NEW s \in Seq(Frame), s # <<>>, NEW i, NEW o, Chain(s, i, o)
  PROVE  LET f == Head(s) IN
         /\ f \in Frame /\ After(i, o, f) /\ Chain(Tail(s), f.id, f.lo + f.len)
         /\ EndId(Tail(s), f.id) = EndId(s, i) /\ EndOff(Tail(s), f.lo + f.len) = EndOff(s, o)
<1> DEFINE u == Tail(s)
           n == Len(s)
           f == Head(s)
<1>1. /\ u \in Seq(Frame) /\ n \in Nat /\ n >= 1 /\ Len(u) = n - 1 /\ f = s[1] /\ f \in Frame
      /\ (u = <<>> <=> n = 1) /\ \A j \in 1 .. n - 1 : u[j] = s[j + 1]
  BY TailFacts
<1>2. After(i, o, s[1]) /\ \A j, k \in 1 .. n : k = j + 1 => After(s[j].id, s[j].lo + s[j].len, s[k])
  BY DEF Chain
<1>9. EndId(s, i) = s[n].id /\ EndOff(s, o) = s[n].lo + s[n].len
  BY DEF EndId, EndOff
<1> HIDE DEF u, n, f
<1>3. u # <<>> => After(f.id, f.lo + f.len, u[1])
  <2> SUFFICES ASSUME n # 1 PROVE After(f.id, f.lo + f.len, u[1])
    BY <1>1
  <2>1. 1 \in 1 .. n - 1 /\ 1 \in 1 .. n /\ 2 \in 1 .. n /\ 2 = 1 + 1
    BY <1>1
  <2>. QED  BY <1>1, <1>2, <2>1
<1>4. ASSUME NEW j \in 1 .. n - 1, NEW k \in 1 .. n - 1, k = j + 1
      PROVE  After(u[j].id, u[j].lo + u[j].len, u[k])
  <2>1. j + 1 \in 1 .. n /\ k + 1 \in 1 .. n /\ k + 1 = (j + 1) + 1
    BY <1>1, <1>4
  <2>. QED  BY <1>1, <1>2, <2>1
<1>5. Chain(u, f.id, f.lo + f.len)
  BY <1>1, <1>3, <1>4 DEF Chain
<1>6. EndId(u, f.id) = s[n].id /\ EndOff(u, f.lo + f.len) = s[n].lo + s[n].len
  <2>1. CASE n = 1
    BY <1>1, <2>1 DEF EndId, EndOff
  <2>2. CASE n # 1
    <3>1. n - 1 \in 1 .. n - 1 /\ (n - 1) + 1 = n
      BY <1>1, <2>2
    <3>2. u[n - 1] = s[n]
      BY <1>1, <3>1
    <3>. QED  BY <1>1, <2>2, <3>2 DEF EndId, EndOff
  <2>. QED  BY <2>1, <2>2
<1>. QED  BY <1>1, <1>2, <1>5, <1>6, <1>9 DEF u, f

\* The same for a chain without gaps.
LEMMA TightChainTail ==
  ASSUME NEW q, NEW s \in Seq(Frame), s # <<>>, NEW i, NEW o, TightChain(q, s, i, o)
  PROVE  LET f == Head(s) IN Link(q, i, o, f) /\ TightChain(q, Tail(s), f.id, f.lo + f.len)
<1> DEFINE u == Tail(s)
           n == Len(s)
           f == Head(s)
<1>1. /\ u \in Seq(Frame) /\ n \in Nat /\ n >= 1 /\ Len(u) = n - 1 /\ f = s[1] /\ f \in Frame
      /\ (u = <<>> <=> n = 1) /\ \A j \in 1 .. n - 1 : u[j] = s[j + 1]
  BY TailFacts
<1>2. Link(q, i, o, s[1]) /\ \A j, k \in 1 .. n : k = j + 1 => Link(q, s[j].id, s[j].lo + s[j].len, s[k])
  BY DEF TightChain
<1> HIDE DEF u, n, f
<1>3. u # <<>> => Link(q, f.id, f.lo + f.len, u[1])
  <2> SUFFICES ASSUME n # 1 PROVE Link(q, f.id, f.lo + f.len, u[1])
    BY <1>1
  <2>1. 1 \in 1 .. n - 1 /\ 1 \in 1 .. n /\ 2 \in 1 .. n /\ 2 = 1 + 1
    BY <1>1
  <2>. QED  BY <1>1, <1>2, <2>1
<1>4. ASSUME NEW j \in 1 .. n - 1, NEW k \in 1 .. n - 1, k = j + 1
      PROVE  Link(q, u[j].id, u[j].lo + u[j].len, u[k])
  <2>1. j + 1 \in 1 .. n /\ k + 1 \in 1 .. n /\ k + 1 = (j + 1) + 1
    BY <1>1, <1>4
  <2>. QED  BY <1>1, <1>2, <2>1
<1>5. TightChain(q, u, f.id, f.lo + f.len)
  BY <1>1, <1>3, <1>4 DEF TightChain
<1>. QED  BY <1>1, <1>2, <1>5 DEF u, f

\* What a chain is made of stays genuine.
LEMMA GenuineFacts ==
  ASSUME NEW q, NEW s \in Seq(Frame), AllGenuine(q, s)
  PROVE  /\ \A e \in Frame : Genuine(q, e) => AllGenuine(q, Append(s, e))
         /\ s # <<>> => Genuine(q, Head(s)) /\ AllGenuine(q, Tail(s))
<1>1. ASSUME NEW e \in Frame, Genuine(q, e)
      PROVE  AllGenuine(q, Append(s, e))
  <2>1. /\ Len(s) \in Nat /\ Len(Append(s, e)) = Len(s) + 1 /\ Append(s, e)[Len(s) + 1] = e
        /\ \A i \in 1 .. Len(s) : Append(s, e)[i] = s[i]
    BY AppendFacts
  <2>2. ASSUME NEW k \in 1 .. Len(s) + 1 PROVE Genuine(q, Append(s, e)[k])
    <3>1. CASE k = Len(s) + 1
      BY <1>1, <2>1, <3>1
    <3>2. CASE k # Len(s) + 1
      <4>1. k \in 1 .. Len(s) BY <2>1, <3>2
      <4>. QED  BY <2>1, <4>1 DEF AllGenuine
    <3>. QED  BY <3>1, <3>2
  <2>. QED  BY <2>1, <2>2 DEF AllGenuine
<1>2. ASSUME s # <<>>
      PROVE  Genuine(q, Head(s)) /\ AllGenuine(q, Tail(s))
  <2>1. /\ Len(s) \in Nat /\ Len(s) >= 1 /\ Len(Tail(s)) = Len(s) - 1 /\ Head(s) = s[1]
        /\ \A i \in 1 .. Len(s) - 1 : Tail(s)[i] = s[i + 1]
    BY <1>2, TailFacts
  <2>2. 1 \in 1 .. Len(s) /\ \A k \in 1 .. Len(s) - 1 : k + 1 \in 1 .. Len(s)
    BY <2>1
  <2>. QED  BY <2>1, <2>2 DEF AllGenuine
<1>. QED  BY <1>1, <1>2

\* The first frames of a chain are one.
LEMMA ChainPrefix ==
  ASSUME NEW q, NEW s \in Seq(Frame), NEW u \in Seq(Frame), NEW i, NEW o
  PROVE  /\ AllGenuine(q, s \o u) => AllGenuine(q, s)
         /\ Chain(s \o u, i, o) => Chain(s, i, o)
         /\ TightChain(q, s \o u, i, o) => TightChain(q, s, i, o)
<1> DEFINE w == s \o u
           n == Len(s)
<1>1. /\ n \in Nat /\ Len(w) \in Nat /\ n <= Len(w) /\ (s # <<>> => n >= 1 /\ w # <<>>)
      /\ \A k \in 1 .. n : w[k] = s[k]
  <2>1. Len(w) = Len(s) + Len(u) /\ Len(s) \in Nat /\ Len(u) \in Nat /\ \A k \in 1 .. n : w[k] = s[k]
    OBVIOUS
  <2>. QED  BY <2>1, ConcatFacts
<1> HIDE DEF w, n
<1>2. \A k \in 1 .. n : k \in 1 .. Len(w)
  BY <1>1
<1>3. s # <<>> => 1 \in 1 .. n
  BY <1>1
<1>4. AllGenuine(q, w) => AllGenuine(q, s)
  BY <1>1, <1>2 DEF AllGenuine, n
<1>5. Chain(w, i, o) => Chain(s, i, o)
  BY <1>1, <1>2, <1>3 DEF Chain, n
<1>6. TightChain(q, w, i, o) => TightChain(q, s, i, o)
  BY <1>1, <1>2, <1>3 DEF TightChain, n
<1>. QED  BY <1>4, <1>5, <1>6 DEF w

\* A message that is given to send later changes nothing about frames of
\* earlier ones.
LEMMA SentGrows ==
  ASSUME NEW q \in Seq(Nat), NEW z \in Nat
  PROVE  LET r == Append(q, z) IN
         /\ \A i, o : Whole(q, i, o) => Whole(r, i, o)
         /\ \A i, o, f : Link(q, i, o, f) => Link(r, i, o, f)
         /\ \A f : Genuine(q, f) => Genuine(r, f)
         /\ \A s : AllGenuine(q, s) => AllGenuine(r, s)
         /\ \A s, i, o : TightChain(q, s, i, o) => TightChain(r, s, i, o)
<1> DEFINE r == Append(q, z)
<1>1. Len(q) \in Nat /\ Len(r) = Len(q) + 1 /\ \A i \in 1 .. Len(q) : r[i] = q[i] /\ i \in 1 .. Len(r)
  OBVIOUS
<1> HIDE DEF r
<1>2. \A i, o : Whole(q, i, o) => Whole(r, i, o)
  BY <1>1 DEF Whole
<1>3. \A i, o, f : Link(q, i, o, f) => Link(r, i, o, f)
  BY <1>2 DEF Link
<1>4. \A f : Genuine(q, f) => Genuine(r, f)
  BY <1>1 DEF Genuine
<1>5. \A s : AllGenuine(q, s) => AllGenuine(r, s)
  BY <1>4 DEF AllGenuine
<1>6. \A s, i, o : TightChain(q, s, i, o) => TightChain(r, s, i, o)
  BY <1>3 DEF TightChain
<1>. QED  BY <1>2, <1>3, <1>4, <1>5, <1>6 DEF r

\* After the end of a message comes the start of one, so it does not matter how
\* the end is written.
LEMMA EndIsAllOf ==
  ASSUME NEW q, NEW s \in Seq(Frame), NEW i, NEW o, AllGenuine(q, s), i \in 1 .. Len(q), o = q[i]
  PROVE  /\ Chain(s, i, o) => Chain(s, i, AllOf)
         /\ TightChain(q, s, i, o) => TightChain(q, s, i, AllOf)
         /\ (s # <<>> => EndOff(s, o) = EndOff(s, AllOf))
<1>1. Chain(s, i, o) => Chain(s, i, AllOf)
  <2> SUFFICES ASSUME Chain(s, i, o), s # <<>> PROVE After(i, AllOf, s[1])
    BY DEF Chain
  <2>1. s[1] \in Frame /\ 1 \in 1 .. Len(s)
    OBVIOUS
  <2>2. Genuine(q, s[1]) /\ After(i, o, s[1])
    BY <2>1 DEF AllGenuine, Chain
  <2>3. s[1].first
    <3> SUFFICES ASSUME ~s[1].first PROVE FALSE
      OBVIOUS
    <3>1. s[1].lo < q[i] /\ s[1].lo = q[i] /\ s[1].lo \in Nat
      BY <2>1, <2>2, FrameFields DEF Genuine, After
    <3>. QED  BY <3>1
  <2>. QED  BY <2>2, <2>3 DEF After
<1>2. TightChain(q, s, i, o) => TightChain(q, s, i, AllOf)
  BY DEF TightChain, Link, Whole
<1>3. s # <<>> => EndOff(s, o) = EndOff(s, AllOf)
  BY DEF EndOff
<1>. QED  BY <1>1, <1>2, <1>3
-----------------------------------------------------------------------------
(***************************************************************************)
(* The invariant: initially, and one lemma for each kind of step.          *)
(***************************************************************************)
\* At first the pipe is empty and nothing was sent.
LEMMA InitSInv == Init => SInv
<1> SUFFICES ASSUME Init PROVE SInv
  OBVIOUS
<1>1. /\ items = <<>> /\ frames = <<>> /\ sent = <<>> /\ delivered = <<>> /\ msgLen = NoMessage
      /\ mu = NoThread /\ rd = "ready" /\ ~readErr /\ ~closed
      /\ \A t \in Threads : pc[t] = "idle"
  BY DEF Init
<1>2. Pipe = <<>> /\ ReadId = 0 /\ ReadOff = AllOf /\ Len(sent) = 0
  BY <1>1 DEF Pipe, ReadId, ReadOff, LastId
<1>3. Working /\ Assembling /\ Stopped
  BY <1>1 DEF Working, Assembling, Stopped
<1>4. Joined(0, AllOf)
  BY <1>1, <1>2 DEF Joined, Whole
<1>5. AllGenuine(sent, <<>>) /\ Chain(<<>>, 0, AllOf) /\ TightChain(sent, <<>>, 0, AllOf)
  BY DEF AllGenuine, Chain, TightChain
<1>6. EndId(<<>>, 0) = 0 /\ EndOff(<<>>, AllOf) = AllOf
  BY DEF EndId, EndOff
<1>7. Piped
  BY <1>2, <1>4, <1>5, <1>6 DEF Piped
<1>8. DeliveredInOrder
  BY <1>1 DEF DeliveredInOrder
<1>. QED  BY <1>3, <1>7, <1>8 DEF SInv

\* The last element of a sequence.
LEMMA LastOfSeq ==
  ASSUME NEW R, NEW s \in Seq(R), s # <<>>
  PROVE  Len(s) \in Nat /\ Len(s) >= 1 /\ s[Len(s)] \in R
OBVIOUS

\* The types the lemmas below need.
LEMMA StreamTypes ==
  ASSUME TypeOK
  PROVE  /\ items \in Seq(Frame) /\ frames \in Seq(Frame) /\ Pipe \in Seq(Frame)
         /\ sent \in Seq(Nat) /\ Len(sent) \in Nat
         /\ delivered \in Seq([id : Nat, len : Nat]) /\ Len(delivered) \in Nat
         /\ LastId \in Nat /\ ReadId \in Nat /\ ReadOff \in Offsets
         /\ msgLen \in Nat \cup {NoMessage} /\ buf.id \in Nat /\ buf.len \in Nat
         /\ pc \in [Threads -> {"idle", "load", "wait", "cas", "write"}]
         /\ msg \in [Threads -> [id : Nat, size : Nat, lo : Nat, first : BOOLEAN]]
<1>1. /\ items \in Seq(Frame) /\ frames \in Seq(Frame) /\ sent \in Seq(Nat)
      /\ delivered \in Seq([id : Nat, len : Nat])
      /\ msgLen \in Nat \cup {NoMessage} /\ buf \in [id : Nat, len : Nat]
      /\ pc \in [Threads -> {"idle", "load", "wait", "cas", "write"}]
      /\ msg \in [Threads -> [id : Nat, size : Nat, lo : Nat, first : BOOLEAN]]
  BY DEF TypeOK, SenderTypes, TunnelTypes, ReceiverTypes, ReaderTypes, HistoryTypes
<1>2. Pipe \in Seq(Frame)
  BY <1>1, ConcatFacts DEF Pipe
<1>3. Len(sent) \in Nat /\ Len(delivered) \in Nat
  BY <1>1
<1>4. LastId \in Nat
  <2>1. ASSUME delivered # <<>> PROVE delivered[Len(delivered)].id \in Nat
    <3>1. delivered[Len(delivered)] \in [id : Nat, len : Nat] BY <1>1, <2>1, LastOfSeq
    <3>. QED  BY <3>1
  <2>. QED  BY <2>1 DEF LastId
<1>5. buf.id \in Nat /\ buf.len \in Nat
  BY <1>1
<1>6. ReadId \in Nat /\ ReadOff \in Offsets
  BY <1>4, <1>5 DEF ReadId, ReadOff, Offsets
<1>. QED  BY <1>1, <1>2, <1>3, <1>4, <1>5, <1>6

\* A step that leaves the pipe and both its ends alone, and does not undo a
\* failure.
LEMMA QuietKeeps ==
  ASSUME SInv, UNCHANGED <<mu, msg, frames, items, closed, cancelled, msgLen, buf, readErr, sent, delivered>>,
         Steady' => Steady, \A t \in Threads : pc'[t] # "idle" => pc[t] # "idle", Stopped'
  PROVE  SInv'
<1>1. Pipe' = Pipe /\ ReadId' = ReadId /\ ReadOff' = ReadOff /\ LastId' = LastId /\ (Reading' => Reading)
  BY DEF Pipe, ReadId, ReadOff, LastId, Reading
<1>2. Working' /\ Assembling'
  BY <1>1 DEF SInv, Working, Assembling
<1>4. Piped'
  <2> SUFFICES ASSUME Reading'
               PROVE  /\ AllGenuine(sent, Pipe) /\ Chain(Pipe, ReadId, ReadOff)
                      /\ Steady' => TightChain(sent, Pipe, ReadId, ReadOff)
                      /\ ~closed => Joined(EndId(Pipe, ReadId), EndOff(Pipe, ReadOff))'
    BY <1>1 DEF Piped
  <2>1. /\ AllGenuine(sent, Pipe) /\ Chain(Pipe, ReadId, ReadOff)
        /\ Steady => TightChain(sent, Pipe, ReadId, ReadOff)
        /\ ~closed => Joined(EndId(Pipe, ReadId), EndOff(Pipe, ReadOff))
    BY <1>1 DEF SInv, Piped
  <2>. QED  BY <1>1, <2>1 DEF Joined
<1>5. DeliveredInOrder'
  BY DEF SInv, DeliveredInOrder, Steady
<1>. QED  BY <1>2, <1>4, <1>5 DEF SInv

\* Steps that are quiet in that sense.
LEMMA QuietSteps ==
  ASSUME IInv, SInv,
         \/ \E t \in Threads : LoadWindow(t) \/ WakeSender(t) \/ ReserveChunk(t)
         \/ CloseSend \/ CancelContext \/ BreakTunnel \/ AddWindow \/ SignalSender \/ EndStream \/ Abandon
         \/ SendAck
         \/ dequeue /\ (cancelled \/ items = <<>>)
         \/ UNCHANGED vars
  PROVE  SInv'
<1> USE DEF sndVars, ctlVars, updVars, rcvVars, readVars
<1>0. Stopped /\ pc \in [Threads -> {"idle", "load", "wait", "cas", "write"}]
  BY StreamTypes DEF SInv, IInv
<1>1. ASSUME NEW t \in Threads, LoadWindow(t) \/ WakeSender(t) \/ ReserveChunk(t)
      PROVE  SInv'
  <2>1. /\ UNCHANGED <<mu, msg, frames, items, closed, cancelled, msgLen, buf, readErr, sent, delivered>>
        /\ UNCHANGED <<ctxDone, broken, rd>> /\ pc[t] # "idle"
        /\ \A u \in Threads : u # t => pc'[u] = pc[u]
    BY <1>0, <1>1 DEF LoadWindow, WakeSender, ReserveChunk
  <2>2. Stopped' /\ (Steady' => Steady) /\ \A u \in Threads : pc'[u] # "idle" => pc[u] # "idle"
    BY <1>0, <2>1 DEF Stopped, Steady
  <2>. QED  BY <2>1, <2>2, QuietKeeps
<1>2. CASE CloseSend \/ CancelContext \/ BreakTunnel \/ AddWindow \/ SignalSender \/ EndStream \/ Abandon
  <2>1. /\ UNCHANGED <<mu, msg, frames, items, closed, cancelled, msgLen, buf, readErr, sent, delivered>>
        /\ UNCHANGED <<pc, rd>> /\ (ctxDone => ctxDone') /\ (broken => broken')
    BY <1>2 DEF CloseSend, CancelContext, BreakTunnel, AddWindow, SignalSender, EndStream, Abandon
  <2>2. Stopped' /\ (Steady' => Steady)
    BY <1>0, <2>1 DEF Stopped, Steady
  <2>. QED  BY <2>1, <2>2, QuietKeeps
<1>3. CASE SendAck
  <2>1. /\ UNCHANGED <<mu, msg, frames, items, closed, cancelled, msgLen, buf, readErr, sent, delivered>>
        /\ UNCHANGED <<pc, ctxDone, broken>> /\ rd' = IF readErr THEN "failed" ELSE "ready"
    BY <1>3 DEF SendAck
  <2>2. Stopped' /\ (Steady' => Steady)
    BY <2>1 DEF Stopped, Steady
  <2>. QED  BY <2>1, <2>2, QuietKeeps
<1>4. CASE dequeue /\ (cancelled \/ items = <<>>)
  <2>1. /\ UNCHANGED <<mu, msg, frames, items, closed, cancelled, msgLen, buf, readErr, sent, delivered>>
        /\ UNCHANGED <<pc, ctxDone, broken>> /\ rd \in {"ready", "woken"} /\ rd' \in {"done", "wait"}
    BY <1>4 DEF dequeue
  <2>2. Stopped' /\ (Steady' => Steady)
    BY <1>0, <2>1 DEF Stopped, Steady
  <2>. QED  BY <2>1, <2>2, QuietKeeps
<1>5. CASE UNCHANGED vars
  <2>1. Stopped' /\ (Steady' => Steady)
    BY <1>0, <1>5 DEF Stopped, Steady, vars
  <2>. QED  BY <1>5, <2>1, QuietKeeps DEF vars
<1>. QED  BY <1>1, <1>2, <1>3, <1>4, <1>5

\* WakeReader moves a reader that waits, and no other.
LEMMA WakeStops == ASSUME Stopped, WakeReader, readErr' = readErr PROVE Stopped'
BY DEF Stopped, WakeReader

\* A step that leaves the sending end, the reader's buffer and what was
\* delivered alone keeps the invariant, if the pipe stays a chain.
LEMMA ReceiverKeeps ==
  ASSUME SInv, UNCHANGED <<sndVars, ctlVars, sent, msgLen, buf, readErr, delivered>>, Stopped', Piped'
  PROVE  SInv'
<1> USE DEF sndVars, ctlVars
<1>1. Working' /\ Assembling'
  BY DEF SInv, Working, Assembling, LastId, Steady
<1>2. DeliveredInOrder'
  BY DEF SInv, DeliveredInOrder
<1>. QED  BY <1>1, <1>2 DEF SInv

\* accept moves a frame along the pipe, or drops one that is not in it.
LEMMA AcceptKeeps == ASSUME IInv, SInv, accept PROVE SInv'
<1> USE DEF sndVars, ctlVars
<1>0. /\ UNCHANGED <<sndVars, ctlVars, sent, msgLen, buf, readErr, delivered>> /\ UNCHANGED <<closed, cancelled>>
      /\ frames # <<>> /\ ~broken /\ frames' = Tail(frames)
      /\ items \in Seq(Frame) /\ frames \in Seq(Frame)
  BY StreamTypes DEF accept, rcvVars, IInv
<1>1. Pipe' = Pipe /\ Stopped'
  <2>1. CASE closed
    <3>1. items' = items /\ rd' = rd
      BY <2>1 DEF accept, rcvVars
    <3>. QED  BY <1>0, <2>1, <3>1 DEF Pipe, SInv, Stopped
  <2>2. CASE ~closed
    <3>1. charge(Head(frames)) <= rcvWindow
      BY <1>0, <2>2, NextFrameFits
    <3>2. items' = Append(items, Head(frames)) /\ WakeReader
      BY <2>2, <3>1 DEF accept, Fits, Enqueue
    <3>. QED  BY <1>0, <2>2, <3>2, ConcatFacts, WakeStops DEF Pipe, SInv
  <2>. QED  BY <2>1, <2>2
<1>2. Piped'
  <2>1. ReadId' = ReadId /\ ReadOff' = ReadOff /\ Reading' = Reading
    BY <1>0 DEF ReadId, ReadOff, LastId, Reading
  <2>. QED  BY <1>0, <1>1, <2>1 DEF SInv, Piped, Joined, Steady
<1>. QED  BY <1>0, <1>1, <1>2, ReceiverKeeps

\* close cuts off the part of the pipe that is still in flight.
LEMMA CloseKeeps == ASSUME IInv, SInv, close PROVE SInv'
<1> USE DEF sndVars, ctlVars
<1>0. /\ UNCHANGED <<sndVars, ctlVars, sent, msgLen, buf, readErr, delivered>> /\ UNCHANGED <<items, frames, cancelled>>
      /\ ~closed /\ closed' /\ WakeReader
      /\ items \in Seq(Frame) /\ frames \in Seq(Frame)
  BY StreamTypes DEF close, Closing, IInv
<1>1. Pipe = items \o frames /\ Pipe' = items
  BY <1>0 DEF Pipe
<1>2. Piped'
  <2>1. ReadId' = ReadId /\ ReadOff' = ReadOff /\ (Reading' => Reading) /\ (Steady' => Steady)
    BY <1>0 DEF ReadId, ReadOff, LastId, Reading, Steady
  <2> SUFFICES ASSUME Reading
               PROVE  /\ AllGenuine(sent, items) /\ Chain(items, ReadId, ReadOff)
                      /\ Steady => TightChain(sent, items, ReadId, ReadOff)
    BY <1>0, <1>1, <2>1 DEF Piped
  <2>2. /\ AllGenuine(sent, items \o frames) /\ Chain(items \o frames, ReadId, ReadOff)
        /\ Steady => TightChain(sent, items \o frames, ReadId, ReadOff)
    BY <1>1 DEF SInv, Piped
  <2>. QED  BY <1>0, <2>2, ChainPrefix
<1>3. Stopped'
  BY <1>0, WakeStops DEF SInv
<1>. QED  BY <1>0, <1>2, <1>3, ReceiverKeeps

\* After cancel, and after the reader has failed, nothing is read any more.
LEMMA CancelKeeps == ASSUME IInv, SInv, cancel \/ FailRead PROVE SInv'
<1> USE DEF sndVars, ctlVars
<1>1. /\ UNCHANGED <<sndVars, ctlVars, sent, msgLen, buf, readErr, delivered>>
  BY DEF cancel, FailRead
<1>2. CASE cancel
  BY <1>1, <1>2, WakeStops, ReceiverKeeps DEF cancel, Piped, Reading, SInv
<1>3. CASE FailRead
  <2>1. rd = "failed" /\ rd' = "done" /\ readErr /\ readErr'
    BY <1>1, <1>3 DEF FailRead, SInv, Stopped
  <2>2. Stopped' /\ Piped'
    BY <2>1 DEF Stopped, Piped, Reading
  <2>. QED  BY <1>1, <2>2, ReceiverKeeps
<1>. QED  BY <1>2, <1>3

\* Nothing that was delivered or is in the pipe is of a message not yet sent.
LEMMA EndBound ==
  ASSUME TypeOK, DeliveredInOrder, Assembling, NEW s \in Seq(Frame), AllGenuine(sent, s)
  PROVE  ReadId <= Len(sent) /\ EndId(s, ReadId) \in Nat /\ EndId(s, ReadId) <= Len(sent)
<1>1. LastId <= Len(sent)
  <2>1. CASE delivered = <<>>
    BY <2>1, StreamTypes DEF LastId
  <2>2. CASE delivered # <<>>
    <3>1. Len(delivered) \in 1 .. Len(delivered)
      BY <2>2, StreamTypes, LastOfSeq
    <3>2. delivered[Len(delivered)].id \in 1 .. Len(sent)
      BY <3>1 DEF DeliveredInOrder
    <3>. QED  BY <2>2, <3>2, StreamTypes DEF LastId
  <2>. QED  BY <2>1, <2>2
<1>2. ReadId <= Len(sent)
  BY <1>1, StreamTypes DEF ReadId, Assembling
<1>3. CASE s = <<>>
  BY <1>2, <1>3, StreamTypes DEF EndId
<1>4. CASE s # <<>>
  <2>1. Len(s) \in 1 .. Len(s)
    BY <1>4, LastOfSeq
  <2>2. s[Len(s)].id \in 1 .. Len(sent)
    BY <2>1 DEF AllGenuine, Genuine
  <2>. QED  BY <1>2, <1>4, <2>2, StreamTypes DEF EndId
<1>. QED  BY <1>2, <1>3, <1>4

\* A new message joins the end of the pipe.
LEMMA SendKeeps == ASSUME IInv, SInv, NEW t \in Threads, NEW n \in Sizes, send(t, n) PROVE SInv'
<1> USE DEF ctlVars, rcvVars, readVars
<1>0. /\ UNCHANGED <<ctxDone, broken, frames, items, closed, cancelled, msgLen, buf, readErr, delivered, rd>>
      /\ sent' = Append(sent, n) /\ mu' = t /\ mu = NoThread /\ pc' = [pc EXCEPT ![t] = "load"]
      /\ msg' = [msg EXCEPT ![t] = [id |-> Len(sent) + 1, size |-> n, lo |-> 0, first |-> TRUE]]
  BY DEF send, Unlocked
<1>1. n \in Nat
  BY FlowAssumption
<1>2. TypeOK /\ Working /\ Assembling /\ Stopped /\ Piped /\ DeliveredInOrder
  BY DEF IInv, SInv
<1>3. /\ \A u \in Threads : u # t => pc'[u] = "idle"
      /\ msg'[t].id = Len(sent) + 1 /\ msg'[t].size = n /\ msg'[t].lo = 0 /\ msg'[t].first
      /\ t # NoThread
  <2>1. \A u \in Threads : pc[u] = "idle"
    BY <1>0, Constants DEF IInv, Mutex
  <2>. QED  BY <1>0, <1>2, <2>1, StreamTypes, Constants
<1>4. /\ Len(sent) \in Nat /\ Len(sent') = Len(sent) + 1 /\ sent'[Len(sent) + 1] = n
      /\ \A i \in 1 .. Len(sent) : sent'[i] = sent[i] /\ i \in 1 .. Len(sent')
  BY <1>0, <1>1, <1>2, StreamTypes
<1>5. Working'
  BY <1>3, <1>4 DEF Working
<1>6. LastId' = LastId /\ ReadId' = ReadId /\ ReadOff' = ReadOff /\ Pipe' = Pipe /\ (Reading' => Reading)
      /\ (Steady' => Steady)
  BY <1>0 DEF LastId, ReadId, ReadOff, Pipe, Reading, Steady
<1>7. Assembling'
  BY <1>0, <1>2, <1>4, <1>6 DEF Assembling
<1>8. Stopped'
  BY <1>0, <1>2 DEF Stopped
<1>9. Piped'
  <2> DEFINE i == EndId(Pipe, ReadId)
             o == EndOff(Pipe, ReadOff)
  <2> SUFFICES ASSUME Reading
               PROVE  /\ AllGenuine(sent', Pipe) /\ Chain(Pipe, ReadId, ReadOff)
                      /\ Steady => TightChain(sent', Pipe, ReadId, ReadOff)
                      /\ ~closed => /\ After(i, o, msg'[t])
                                    /\ Steady => Link(sent', i, o, msg'[t])
    BY <1>0, <1>3, <1>6 DEF Piped, Joined
  <2>1. /\ AllGenuine(sent, Pipe) /\ Chain(Pipe, ReadId, ReadOff)
        /\ Steady => TightChain(sent, Pipe, ReadId, ReadOff)
        /\ ~closed /\ Steady => i = Len(sent) /\ Whole(sent, i, o)
    BY <1>0, <1>2 DEF Piped, Joined
  <2>2. i \in Nat /\ i <= Len(sent)
    BY <1>2, <2>1, EndBound, StreamTypes
  <2> HIDE DEF i, o
  <2>3. AllGenuine(sent', Pipe) /\ (Steady => TightChain(sent', Pipe, ReadId, ReadOff))
    BY <1>0, <1>1, <1>2, <2>1, SentGrows, StreamTypes
  <2>4. After(i, o, msg'[t])
    BY <1>3, <1>4, <2>2 DEF After
  <2>5. ~closed /\ Steady => Link(sent', i, o, msg'[t])
    <3> SUFFICES ASSUME ~closed, Steady PROVE Link(sent', i, o, msg'[t])
      OBVIOUS
    <3>1. Whole(sent', i, o)
      BY <1>0, <1>1, <1>2, <2>1, SentGrows, StreamTypes
    <3>. QED  BY <1>3, <2>1, <3>1 DEF Link
  <2>. QED  BY <2>1, <2>3, <2>4, <2>5
<1>10. DeliveredInOrder'
  BY <1>0, <1>2, <1>4 DEF DeliveredInOrder
<1>. QED  BY <1>5, <1>7, <1>8, <1>9, <1>10 DEF SInv

\* No thread is in send once the one that was has left.
LEMMA AllIdle ==
  ASSUME IInv, NEW t \in Threads, pc[t] # "idle", Leave(t)
  PROVE  mu' = NoThread /\ \A u \in Threads : pc'[u] = "idle"
BY Alone, StreamTypes DEF Leave, IInv

\* A thread gives up: from now on messages may be missing.
LEMMA AbortKeeps == ASSUME IInv, SInv, NEW t \in Threads, AbortSend(t) PROVE SInv'
<1> USE DEF ctlVars, rcvVars, readVars
<1>0. /\ UNCHANGED <<ctxDone, broken, frames, items, closed, cancelled, msgLen, buf, readErr, delivered, rd, sent>>
      /\ ctxDone /\ \A u \in Threads : pc'[u] = "idle"
  BY AllIdle DEF AbortSend
<1>1. Working' /\ Stopped' /\ ~Steady'
  BY <1>0 DEF SInv, Working, Stopped, Steady
<1>2. LastId' = LastId /\ ReadId' = ReadId /\ ReadOff' = ReadOff /\ Pipe' = Pipe /\ (Reading' => Reading)
  BY <1>0 DEF LastId, ReadId, ReadOff, Pipe, Reading
<1>3. Assembling'
  BY <1>0, <1>1, <1>2 DEF SInv, Assembling
<1>4. Piped'
  BY <1>0, <1>1, <1>2 DEF SInv, Piped, Joined
<1>5. DeliveredInOrder'
  BY <1>0 DEF SInv, DeliveredInOrder
<1>. QED  BY <1>1, <1>3, <1>4, <1>5 DEF SInv

\* The frame that a thread writes is the next one of its message, and so the
\* next one of the pipe.
LEMMA WriteKeeps == ASSUME IInv, SInv, NEW t \in Threads, WriteChunk(t) PROVE SInv'
<1> USE DEF ctlVars, rcvVars, readVars
<1> DEFINE e == NextFrame(t)
<1>0. /\ UNCHANGED <<ctxDone, broken, items, closed, cancelled, msgLen, buf, readErr, delivered, rd, sent>>
      /\ pc[t] = "write" /\ (broken => frames' = frames) /\ (~broken => frames' = Append(frames, e))
  BY DEF WriteChunk
<1>1. TypeOK /\ Working /\ Assembling /\ Stopped /\ Piped /\ DeliveredInOrder /\ Sending
  BY DEF IInv, SInv
<1>2. LastId' = LastId /\ ReadId' = ReadId /\ ReadOff' = ReadOff /\ (Reading' => Reading) /\ Steady' = Steady
  BY <1>0 DEF LastId, ReadId, ReadOff, Reading, Steady
<1>3. Assembling' /\ Stopped' /\ DeliveredInOrder'
  BY <1>0, <1>1, <1>2 DEF Assembling, Stopped, DeliveredInOrder
<1>4. PICK m \in [id : Nat, size : Nat, lo : Nat, first : BOOLEAN] : m = msg[t]
  BY <1>1, StreamTypes
<1>5. PICK k \in Nat : k = chunk[t] /\ k <= m.size - m.lo
  BY <1>0, <1>1, <1>4, ThreadFacts DEF Sending, remaining
<1>6. /\ m.id = Len(sent) /\ Len(sent) >= 1 /\ m.size = sent[Len(sent)] /\ (m.first => m.lo = 0)
      /\ (~m.first => m.lo < m.size)
  BY <1>0, <1>1, <1>4 DEF Working, Sending
<1>7. e \in Frame /\ e.first = m.first /\ e.id = m.id /\ e.lo = m.lo /\ e.len = k /\ (m.first => e.size = m.size)
  <2>1. overhead(t) \in Nat /\ charged - overhead(t) - k \in Nat /\ charged \in Nat
    <3>1. overhead(t) \in Nat /\ Pending = overhead(t) + k
      BY <1>0, <1>1, <1>5, ThreadFacts, PendingFacts DEF IInv
    <3>2. PICK v \in Nat : v = overhead(t)
      BY <3>1
    <3>3. accepted <= charged - (v + k)
      BY <3>1, <3>2, MarkOrder
    <3>. QED  BY <3>2, <3>3, MarkTypes
  <2>2. e = [first |-> m.first, size |-> IF m.first THEN m.size ELSE 0, id |-> m.id, lo |-> m.lo, len |-> k,
             from |-> charged - overhead(t) - k, to |-> charged]
    BY <1>4, <1>5 DEF NextFrame
  <2>. QED  BY <2>1, <2>2 DEF Frame
<1>8. Genuine(sent, e)
  <2> HIDE DEF e
  <2>1. m.id \in 1 .. Len(sent) /\ sent[m.id] = m.size /\ m.lo + k <= m.size
    BY <1>1, <1>5, <1>6, StreamTypes
  <2>. QED  BY <1>6, <1>7, <2>1 DEF Genuine
<1> HIDE DEF e
<1>9. \/ /\ broken \/ k = m.size - m.lo
         /\ mu' = NoThread /\ \A u \in Threads : pc'[u] = "idle"
      \/ /\ ~broken /\ k # m.size - m.lo /\ mu' # NoThread
         /\ \A u \in Threads : u # t => pc'[u] = "idle"
         /\ msg'[t].id = m.id /\ msg'[t].size = m.size /\ msg'[t].lo = m.lo + k /\ ~msg'[t].first
  <2>1. CASE broken \/ chunk[t] = remaining(t)
    <3>1. Leave(t)
      BY <2>1 DEF WriteChunk
    <3>. QED  BY <1>0, <1>4, <1>5, <2>1, <3>1, AllIdle DEF remaining
  <2>2. CASE ~(broken \/ chunk[t] = remaining(t))
    <3>1. /\ msg' = [msg EXCEPT ![t] = [msg[t] EXCEPT !.lo = @ + chunk[t], !.first = FALSE]]
          /\ pc' = [pc EXCEPT ![t] = "load"] /\ mu' = mu
      BY <2>2 DEF WriteChunk
    <3>2. msg'[t] = [m EXCEPT !.lo = m.lo + k, !.first = FALSE]
      BY <1>1, <1>4, <1>5, <3>1, StreamTypes
    <3>3. msg'[t].id = m.id /\ msg'[t].size = m.size /\ msg'[t].lo = m.lo + k /\ ~msg'[t].first
      BY <3>2
    <3>4. mu = t /\ t # NoThread /\ \A u \in Threads : u # t => pc[u] = "idle"
      BY <1>0, Alone, Constants
    <3>5. \A u \in Threads : u # t => pc'[u] = "idle"
      BY <1>1, <3>1, <3>4, StreamTypes
    <3>. QED  BY <1>4, <1>5, <2>2, <3>1, <3>3, <3>4, <3>5 DEF remaining
  <2>. QED  BY <2>1, <2>2
<1>10. Working'
  BY <1>0, <1>6, <1>9 DEF Working
<1>11. Piped'
  <2> DEFINE i == EndId(Pipe, ReadId)
             o == EndOff(Pipe, ReadOff)
  <2>1. SUFFICES ASSUME Reading PROVE Piped'
    BY <1>2 DEF Piped
  <2>2. /\ AllGenuine(sent, Pipe) /\ Chain(Pipe, ReadId, ReadOff)
        /\ Steady => TightChain(sent, Pipe, ReadId, ReadOff)
        /\ ~closed => After(i, o, m) /\ (Steady => Link(sent, i, o, m))
    BY <1>0, <1>1, <1>4, <2>1 DEF Piped, Joined
  <2>3. CASE closed
    <3>1. Pipe' = Pipe
      BY <1>0, <2>3 DEF Pipe
    <3>. QED  BY <1>0, <1>2, <2>2, <2>3, <3>1 DEF Piped
  <2>4. CASE ~closed /\ broken
    <3>1. Pipe' = Pipe /\ ~Steady /\ ~Steady'
      BY <1>0, <2>4 DEF Pipe, Steady
    <3>. QED  BY <1>0, <1>2, <1>9, <2>2, <2>4, <3>1 DEF Piped, Joined
  <2>5. CASE ~closed /\ ~broken
    <3>1. Pipe' = Append(Pipe, e) /\ Pipe \in Seq(Frame)
      <4>1. Pipe = items \o frames /\ Pipe' = items \o Append(frames, e)
        BY <1>0, <2>5 DEF Pipe
      <4>2. items \in Seq(Frame) /\ frames \in Seq(Frame) /\ Pipe \in Seq(Frame)
        BY <1>1, StreamTypes
      <4>. QED  BY <1>7, <4>1, <4>2, ConcatFacts
    <3>2. After(i, o, e) /\ (Steady => Link(sent, i, o, e))
      BY <1>7, <2>2, <2>5 DEF After, Link
    <3>3. /\ AllGenuine(sent, Pipe') /\ Chain(Pipe', ReadId, ReadOff)
          /\ Steady => TightChain(sent, Pipe', ReadId, ReadOff)
          /\ EndId(Pipe', ReadId) = m.id /\ EndOff(Pipe', ReadOff) = m.lo + k
      BY <1>7, <1>8, <2>2, <3>1, <3>2, ChainAppend, TightChainAppend, GenuineFacts
    <3>4. Joined(m.id, m.lo + k)'
      <4>1. CASE k = m.size - m.lo /\ mu' = NoThread /\ \A u \in Threads : pc'[u] = "idle"
        <5>1. m.lo + k = m.size
          BY <4>1
        <5>2. m.id \in 1 .. Len(sent)
          BY <1>6
        <5>3. Whole(sent, m.id, m.lo + k)
          BY <1>6, <5>1, <5>2 DEF Whole
        <5>. QED  BY <1>0, <1>6, <4>1, <5>3 DEF Joined
      <4>2. CASE /\ mu' # NoThread /\ \A u \in Threads : u # t => pc'[u] = "idle"
                 /\ msg'[t].id = m.id /\ msg'[t].lo = m.lo + k /\ ~msg'[t].first
        BY <4>2 DEF Joined, After, Link
      <4>. QED  BY <1>9, <2>5, <4>1, <4>2
    <3>. QED  BY <1>0, <1>2, <2>5, <3>3, <3>4 DEF Piped
  <2>. QED  BY <2>3, <2>4, <2>5
<1>. QED  BY <1>3, <1>10, <1>11 DEF SInv

\* What the reader makes of the next frame of the pipe: as long as send has not
\* given up it is well-formed, and if it is, it continues the message that the
\* reader is at, or starts the next.
LEMMA ReadNext ==
  ASSUME IInv, SInv, rd \in {"ready", "woken"}, ~cancelled, items # <<>>
  PROVE  LET f == Head(items) IN
         /\ f \in Frame /\ Genuine(sent, f) /\ Reading
         /\ Pipe # <<>> /\ Pipe \in Seq(Frame) /\ Head(Pipe) = f
         /\ Steady => ~Malformed(f)
         /\ ~Malformed(f) =>
              /\ Extend(f) = [id |-> f.id, len |-> f.lo + f.len] /\ Expect(f) = sent[f.id]
              /\ LastId < f.id /\ (Steady => f.id = LastId + 1)
<1> DEFINE f == Head(items)
<1>0. TypeOK /\ Assembling /\ Stopped /\ Piped
  BY DEF IInv, SInv
<1>1. items \in Seq(Frame) /\ frames \in Seq(Frame)
  BY <1>0, StreamTypes
<1>2. Pipe # <<>> /\ Pipe \in Seq(Frame) /\ Head(Pipe) = f
  BY <1>0, <1>1, ConcatFacts, StreamTypes DEF Pipe
<1>3. Reading
  BY <1>0 DEF Stopped, Reading
<1>4. /\ f \in Frame /\ Genuine(sent, f) /\ After(ReadId, ReadOff, f)
      /\ Steady => Link(sent, ReadId, ReadOff, f)
  BY <1>0, <1>2, <1>3, ChainTail, TightChainTail, GenuineFacts DEF Piped
<1>5. /\ f.len \in Nat /\ f.id \in Nat /\ f.lo \in Nat /\ f.size \in Nat
      /\ f.id \in 1 .. Len(sent) /\ sent[f.id] \in Nat /\ f.lo + f.len <= sent[f.id]
  <2>1. f.id \in 1 .. Len(sent) /\ f.lo + f.len <= sent[f.id] /\ sent \in Seq(Nat)
    BY <1>0, <1>4, StreamTypes DEF Genuine
  <2>. QED  BY <1>4, <2>1, FrameFields
<1>6. /\ LastId \in Nat /\ buf.id \in Nat /\ buf.len \in Nat /\ msgLen \in Nat \cup {NoMessage}
      /\ NoMessage = -1 /\ AllOf = -1
  BY <1>0, StreamTypes DEF NoMessage, AllOf
<1> HIDE DEF f
<1>7. CASE f.first /\ msgLen = NoMessage
  <2>1. ReadId = LastId /\ f.lo = 0 /\ LastId < f.id /\ f.size = sent[f.id]
    BY <1>4, <1>7 DEF ReadId, After, Genuine
  <2>2. Extend(f) = [id |-> f.id, len |-> f.lo + f.len] /\ Expect(f) = sent[f.id]
    BY <1>5, <1>7, <2>1 DEF Extend, Expect
  <2>3. Extend(f).len = f.lo + f.len
    BY <2>2
  <2>4. ~(Extend(f).len > Expect(f))
    BY <1>5, <2>2, <2>3
  <2>5. ~Malformed(f)
    BY <1>7, <2>4 DEF Malformed
  <2>6. Steady => f.id = LastId + 1
    BY <1>4, <1>7, <2>1 DEF Link
  <2>. QED  BY <1>2, <1>3, <1>4, <2>1, <2>2, <2>5, <2>6 DEF f
<1>8. CASE ~f.first /\ msgLen # NoMessage
  <2>1. /\ f.id = buf.id /\ f.lo = buf.len /\ msgLen = sent[f.id] /\ LastId < f.id
        /\ Steady => f.id = LastId + 1
    BY <1>0, <1>4, <1>8 DEF ReadId, ReadOff, After, Assembling
  <2>2. Extend(f) = [id |-> f.id, len |-> f.lo + f.len] /\ Expect(f) = sent[f.id]
    BY <1>5, <1>8, <2>1 DEF Extend, Expect
  <2>3. Extend(f).len = f.lo + f.len
    BY <2>2
  <2>4. ~(Extend(f).len > Expect(f))
    BY <1>5, <2>2, <2>3
  <2>5. ~Malformed(f)
    BY <1>8, <2>4 DEF Malformed
  <2>. QED  BY <1>2, <1>3, <1>4, <2>1, <2>2, <2>5 DEF f
<1>9. CASE f.first <=> msgLen # NoMessage
  <2>1. Malformed(f)
    BY <1>9 DEF Malformed
  <2>2. ~Steady
    <3>1. CASE f.first /\ msgLen # NoMessage
      <4> SUFFICES ASSUME Steady PROVE FALSE
        OBVIOUS
      <4>1. Whole(sent, buf.id, buf.len) /\ buf.len < sent[buf.id]
        BY <1>0, <1>4, <3>1 DEF Link, ReadId, ReadOff, Assembling
      <4>. QED  BY <1>0, <1>6, <3>1, <4>1 DEF Whole, Assembling
    <3>2. CASE ~f.first /\ msgLen = NoMessage
      <4>1. f.lo = -1
        BY <1>4, <1>6, <3>2 DEF After, ReadOff
      <4>. QED  BY <1>5, <4>1
    <3>. QED  BY <1>9, <3>1, <3>2
  <2>. QED  BY <1>2, <1>3, <1>4, <2>1, <2>2 DEF f
<1>. QED  BY <1>7, <1>8, <1>9

\* What it returns comes after all that it has returned before.
LEMMA DeliverNext ==
  ASSUME TypeOK, DeliveredInOrder, NEW i \in 1 .. Len(sent), NEW d \in [id : Nat, len : Nat],
         d.id = i, d.len = sent[i], LastId < i, Steady => i = LastId + 1 /\ ~readErr,
         delivered' = Append(delivered, d), sent' = sent, Steady' => Steady /\ ~readErr'
  PROVE  DeliveredInOrder' /\ LastId' = i
<1> DEFINE n == Len(delivered)
<1>1. /\ n \in Nat /\ Len(delivered') = n + 1 /\ delivered' # <<>> /\ (delivered = <<>> <=> n = 0)
      /\ delivered'[n + 1] = d /\ \A k \in 1 .. n : delivered'[k] = delivered[k]
  <2>1. delivered \in Seq([id : Nat, len : Nat])
    BY StreamTypes
  <2>. QED  BY <2>1, AppendFacts
<1>2. LastId' = i
  BY <1>1 DEF LastId
<1>3. n # 0 => LastId = delivered[n].id
  BY <1>1 DEF LastId
<1>4. n = 0 => LastId = 0
  BY <1>1 DEF LastId
<1>5. \A k \in 1 .. n : /\ delivered[k].id \in 1 .. Len(sent) /\ delivered[k].len = sent[delivered[k].id]
                        /\ k > 1 => delivered[k - 1].id < delivered[k].id
  BY DEF DeliveredInOrder
<1>6. Steady => \A k \in 1 .. n : delivered[k].id = k
  BY DEF DeliveredInOrder, Steady
<1> HIDE DEF n
<1>7. ASSUME NEW k \in 1 .. n + 1
      PROVE  /\ delivered'[k].id \in 1 .. Len(sent) /\ delivered'[k].len = sent[delivered'[k].id]
             /\ k > 1 => delivered'[k - 1].id < delivered'[k].id
  <2>1. CASE k = n + 1
    <3>1. k > 1 => n # 0 /\ n \in 1 .. n /\ k - 1 = n
      BY <1>1, <2>1
    <3>. QED  BY <1>1, <1>3, <2>1, <3>1
  <2>2. CASE k # n + 1
    <3>1. k \in 1 .. n /\ (k > 1 => k - 1 \in 1 .. n)
      BY <1>1, <2>2
    <3>. QED  BY <1>1, <1>5, <3>1
  <2>. QED  BY <2>1, <2>2
<1>8. ASSUME Steady', NEW k \in 1 .. n + 1 PROVE delivered'[k].id = k
  <2>1. Steady /\ i = LastId + 1
    BY <1>8
  <2>2. LastId = n
    <3>1. CASE n = 0
      BY <1>4, <3>1
    <3>2. CASE n # 0
      <4>1. n \in 1 .. n BY <1>1, <3>2
      <4>. QED  BY <1>3, <1>6, <2>1, <3>2, <4>1
    <3>. QED  BY <3>1, <3>2
  <2>3. CASE k = n + 1
    BY <1>1, <2>1, <2>2, <2>3
  <2>4. CASE k # n + 1
    <3>1. k \in 1 .. n
      BY <1>1, <2>4
    <3>. QED  BY <1>1, <1>6, <2>1, <3>1
  <2>. QED  BY <2>3, <2>4
<1>9. DeliveredInOrder'
  BY <1>1, <1>7, <1>8 DEF DeliveredInOrder, Steady
<1>. QED  BY <1>2, <1>9

\* A thread that is to go on after the end of a message starts a new one.
LEMMA JoinedAllOf ==
  ASSUME TypeOK, Sending, Working, NEW i, NEW o, Joined(i, o), i \in 1 .. Len(sent), o = sent[i]
  PROVE  Joined(i, AllOf)
<1>1. ASSUME NEW t \in Threads, pc[t] # "idle"
      PROVE  After(i, AllOf, msg[t]) /\ (Steady => Link(sent, i, AllOf, msg[t]))
  <2>1. After(i, o, msg[t]) /\ (Steady => Link(sent, i, o, msg[t]))
    BY <1>1 DEF Joined
  <2>2. msg[t].first
    <3> SUFFICES ASSUME ~msg[t].first PROVE FALSE
      OBVIOUS
    <3>1. msg[t].lo = sent[i] /\ msg[t].id = i /\ msg[t].lo < msg[t].size /\ msg[t].size = sent[Len(sent)]
          /\ msg[t].id = Len(sent) /\ msg[t].lo \in Nat
      BY <1>1, <2>1, ThreadFacts DEF After, Working, Sending
    <3>. QED  BY <3>1
  <2>. QED  BY <2>1, <2>2 DEF After, Link, Whole
<1>2. mu = NoThread /\ Steady => i = Len(sent) /\ Whole(sent, i, AllOf)
  BY DEF Joined, Whole
<1>. QED  BY <1>1, <1>2 DEF Joined

\* Reading a frame takes it off the pipe, and moves the reader to its end.
LEMMA DequeueKeeps ==
  ASSUME IInv, SInv, dequeue, ~cancelled, items # <<>>
  PROVE  SInv'
<1> USE DEF sndVars, ctlVars
<1> DEFINE f == Head(items)
<1>0. /\ UNCHANGED <<sndVars, ctlVars, frames, sent, closed, cancelled>> /\ rd \in {"ready", "woken"}
      /\ ReadItem(f) /\ items' = Tail(items)
      /\ rd' \in {"update", IF Malformed(f) THEN "failed" ELSE "ready"}
  BY DEF dequeue, TakeItem
<1>1. TypeOK /\ Working /\ Assembling /\ Stopped /\ Piped /\ DeliveredInOrder /\ Sending
  BY DEF IInv, SInv
<1>2. /\ f \in Frame /\ Genuine(sent, f) /\ Reading
      /\ Pipe # <<>> /\ Pipe \in Seq(Frame) /\ Head(Pipe) = f
      /\ Steady => ~Malformed(f)
      /\ ~Malformed(f) =>
           /\ Extend(f) = [id |-> f.id, len |-> f.lo + f.len] /\ Expect(f) = sent[f.id]
           /\ LastId < f.id /\ (Steady => f.id = LastId + 1)
  BY <1>0, ReadNext
<1>3. Pipe' = Tail(Pipe)
  <2>1. items \in Seq(Frame) /\ frames \in Seq(Frame)
    BY <1>1, StreamTypes
  <2>2. CASE closed
    BY <1>0, <2>2 DEF Pipe
  <2>3. CASE ~closed
    <3>1. Pipe = items \o frames /\ Pipe' = Tail(items) \o frames
      BY <1>0, <2>3 DEF Pipe
    <3>. QED  BY <2>1, <3>1, ConcatFacts
  <2>. QED  BY <2>2, <2>3
<1> HIDE DEF f
<1>4. Working' /\ (Steady' <=> Steady)
  BY <1>0, <1>1 DEF Working, Steady
<1>5. CASE Malformed(f)
  <2>1. readErr' /\ msgLen' = NoMessage /\ delivered' = delivered /\ ~Steady /\ rd' \in {"update", "failed"}
    BY <1>0, <1>2, <1>5 DEF ReadItem
  <2>2. Assembling' /\ Stopped' /\ Piped'
    BY <2>1 DEF Assembling, Stopped, Piped, Reading
  <2>3. DeliveredInOrder'
    BY <1>0, <1>1, <2>1 DEF DeliveredInOrder, Steady
  <2>. QED  BY <1>4, <2>2, <2>3 DEF SInv
<1>6. CASE ~Malformed(f)
  <2> DEFINE off == f.lo + f.len
  <2>0. PICK i \in 1 .. Len(sent), z \in Nat, x \in Nat :
            /\ i = f.id /\ z = sent[f.id] /\ x = off /\ x <= z
    <3>1. f.id \in 1 .. Len(sent) /\ off <= sent[f.id] /\ sent \in Seq(Nat)
      BY <1>1, <1>2, StreamTypes DEF Genuine
    <3>2. off \in Nat /\ sent[f.id] \in Nat
      BY <1>2, <3>1, FrameFields
    <3>. QED  BY <3>1, <3>2
  <2>1. /\ Extend(f) = [id |-> i, len |-> x] /\ Expect(f) = z /\ LastId < i /\ (Steady => i = LastId + 1)
        /\ ~readErr' /\ rd' \in {"update", "ready"}
    BY <1>0, <1>2, <1>6, <2>0 DEF ReadItem
  <2>2. Stopped'
    BY <2>1 DEF Stopped
  <2>3. /\ AllGenuine(sent, Pipe') /\ Chain(Pipe', i, x)
        /\ Steady => TightChain(sent, Pipe', i, x)
        /\ ~closed => Joined(EndId(Pipe', i), EndOff(Pipe', x))
        /\ Pipe' \in Seq(Frame)
    <3>1. /\ AllGenuine(sent, Pipe) /\ Chain(Pipe, ReadId, ReadOff)
          /\ Steady => TightChain(sent, Pipe, ReadId, ReadOff)
          /\ ~closed => Joined(EndId(Pipe, ReadId), EndOff(Pipe, ReadOff))
      BY <1>1, <1>2 DEF Piped
    <3>2. /\ Chain(Tail(Pipe), f.id, off) /\ EndId(Tail(Pipe), f.id) = EndId(Pipe, ReadId)
          /\ EndOff(Tail(Pipe), off) = EndOff(Pipe, ReadOff)
      BY <1>2, <3>1, ChainTail
    <3>3. Steady => TightChain(sent, Tail(Pipe), f.id, off)
      BY <1>2, <3>1, TightChainTail
    <3>4. AllGenuine(sent, Tail(Pipe)) /\ Tail(Pipe) \in Seq(Frame)
      BY <1>2, <3>1, GenuineFacts, TailFacts
    <3>. QED  BY <1>3, <2>0, <3>1, <3>2, <3>3, <3>4
  <2> HIDE DEF off
  <2>4. CASE x = z
    <3>1. msgLen' = NoMessage /\ delivered' = Append(delivered, [id |-> i, len |-> x])
      BY <1>0, <1>6, <2>1, <2>4 DEF ReadItem
    <3>2. Assembling'
      BY <3>1 DEF Assembling
    <3>3. DeliveredInOrder' /\ LastId' = i
      <4> DEFINE d == [id |-> i, len |-> x]
      <4>1. d \in [id : Nat, len : Nat] /\ d.id = i /\ d.len = sent[i]
        BY <2>0, <2>4
      <4>2. (Steady => i = LastId + 1 /\ ~readErr) /\ (Steady' => Steady /\ ~readErr')
        BY <1>2, <1>4, <2>1 DEF Reading
      <4> HIDE DEF d
      <4>. QED  BY <1>0, <1>1, <2>1, <3>1, <4>1, <4>2, DeliverNext DEF d
    <3>4. ReadId' = i /\ ReadOff' = AllOf
      BY <3>1, <3>3 DEF ReadId, ReadOff
    <3>5. /\ Chain(Pipe', i, AllOf) /\ (Steady => TightChain(sent, Pipe', i, AllOf))
          /\ (Pipe' # <<>> => EndOff(Pipe', x) = EndOff(Pipe', AllOf))
      BY <2>0, <2>3, <2>4, EndIsAllOf
    <3>6. ~closed => Joined(EndId(Pipe', i), EndOff(Pipe', AllOf))
      <4>1. CASE Pipe' # <<>>
        BY <2>3, <3>5, <4>1
      <4>2. CASE Pipe' = <<>>
        <5>1. EndId(Pipe', i) = i /\ EndOff(Pipe', x) = x /\ EndOff(Pipe', AllOf) = AllOf
          BY <4>2 DEF EndId, EndOff
        <5>. QED  BY <1>1, <2>0, <2>3, <2>4, <5>1, JoinedAllOf
      <4>. QED  BY <4>1, <4>2
    <3>7. Piped'
      BY <1>0, <1>4, <2>3, <3>4, <3>5, <3>6 DEF Piped, Joined
    <3>. QED  BY <1>4, <2>2, <3>2, <3>3, <3>7 DEF SInv
  <2>5. CASE x # z
    <3>1. msgLen' = z /\ buf' = [id |-> i, len |-> x] /\ delivered' = delivered
      <4>1. Extend(f).len # Expect(f)
        BY <2>1, <2>5
      <4>. QED  BY <1>0, <1>6, <2>1, <4>1 DEF ReadItem
    <3>2. buf'.id = i /\ buf'.len = x /\ LastId' = LastId /\ msgLen' # NoMessage /\ x < z
      BY <2>0, <2>5, <3>1 DEF LastId, NoMessage
    <3>3. Assembling'
      BY <1>0, <1>4, <2>0, <2>1, <3>1, <3>2 DEF Assembling
    <3>4. ReadId' = i /\ ReadOff' = x
      BY <3>2 DEF ReadId, ReadOff
    <3>5. Piped'
      BY <1>0, <1>4, <2>3, <3>4 DEF Piped, Joined
    <3>6. DeliveredInOrder'
      BY <1>0, <1>1, <2>1, <3>1 DEF DeliveredInOrder
    <3>. QED  BY <1>4, <2>2, <3>3, <3>5, <3>6 DEF SInv
  <2>. QED  BY <2>4, <2>5
<1>. QED  BY <1>5, <1>6

\* Every step keeps the invariant.
LEMMA StepSInv == IInv /\ SInv /\ [Next]_vars => SInv'
<1> SUFFICES ASSUME IInv, SInv, [Next]_vars PROVE SInv'
  OBVIOUS
<1>1. ASSUME NEW t \in Threads, NEW n \in Sizes, send(t, n) PROVE SInv'
  BY <1>1, SendKeeps
<1>2. ASSUME NEW t \in Threads, SenderStep(t) PROVE SInv'
  BY <1>2, QuietSteps, AbortKeeps, WriteKeeps DEF SenderStep
<1>3. CASE CloseSend \/ CancelContext \/ BreakTunnel \/ AddWindow \/ SignalSender \/ EndStream \/ Abandon \/ SendAck
           \/ UNCHANGED vars
  BY <1>3, QuietSteps
<1>4. CASE dequeue
  BY <1>4, QuietSteps, DequeueKeeps
<1>5. CASE accept \/ close \/ cancel \/ FailRead
  BY <1>5, AcceptKeeps, CloseKeeps, CancelKeeps
<1>. QED  BY <1>1, <1>2, <1>3, <1>4, <1>5 DEF Next

\* The pipe is a chain in every reachable state.
THEOREM StreamInductive == Spec => []SInv
BY InitSInv, Inductive, StepSInv, PTL DEF Spec

\* For every window, chunk size and schedule: RecvMsg returns messages whole,
\* unmixed and in the order of send, without a gap and without a framing error
\* unless send has given up on a message or the tunnel has failed.
THEOREM InOrder == Spec => []DeliveredInOrder
<1>1. SInv => DeliveredInOrder
  BY DEF SInv
<1>. QED  BY StreamInductive, <1>1, PTL
-----------------------------------------------------------------------------
(***************************************************************************)
(* The safety of MessageStream: every step is one of the abstract stream,  *)
(* or does not show.                                                       *)
(***************************************************************************)
\* No failure is ever undone.
LEMMA FailedStays ==
  ASSUME [Next]_vars
  PROVE  Failed => Failed'
<1> USE DEF sndVars, ctlVars, updVars, rcvVars, readVars
<1>1. ASSUME NEW t \in Threads, NEW n \in Sizes, send(t, n)
      PROVE  UNCHANGED <<ctxDone, broken, cancelled, abandoned>>
  BY <1>1 DEF send
<1>2. ASSUME NEW t \in Threads, SenderStep(t)
      PROVE  UNCHANGED <<ctxDone, broken, cancelled, abandoned>>
  BY <1>2 DEF SenderStep, LoadWindow, WakeSender, AbortSend, ReserveChunk, WriteChunk
<1>3. CASE CloseSend \/ CancelContext \/ BreakTunnel \/ AddWindow \/ SignalSender \/ EndStream \/ Abandon
  BY <1>3 DEF CloseSend, CancelContext, BreakTunnel, AddWindow, SignalSender, EndStream, Abandon, Failed
<1>4. CASE accept \/ close \/ cancel
  BY <1>4 DEF accept, close, cancel, Failed
<1>5. CASE dequeue \/ SendAck \/ FailRead \/ UNCHANGED vars
  BY <1>5 DEF dequeue, SendAck, FailRead, Failed, vars
<1>. QED  BY <1>1, <1>2, <1>3, <1>4, <1>5 DEF Next, Failed

\* A step that neither sends nor delivers a message is a failure or nothing.
LEMMA SilentStep ==
  ASSUME [Next]_vars, sent' = sent, delivered' = delivered
  PROVE  [Stream!Next]_(Stream!vars)
<1>1. Failed \in BOOLEAN /\ Failed' \in BOOLEAN
  BY Zenon DEF Failed
<1>2. CASE Failed' = Failed
  BY <1>2, Zenon DEF Stream!vars
<1>3. CASE ~Failed /\ Failed'
  <2>1. Failed' = TRUE
    BY <1>3, Zenon
  <2>2. Stream!Fail
    BY <1>3, <2>1, Zenon DEF Stream!Fail
  <2>. QED  BY <2>2, Zenon DEF Stream!Next
<1>4. Failed' = Failed \/ (~Failed /\ Failed')
  BY FailedStays, Zenon DEF Failed
<1>. QED  BY <1>2, <1>3, <1>4, Zenon

\* RecvMsg returns what the abstract stream delivers next.
LEMMA ReadStep ==
  ASSUME IInv, SInv, dequeue, ~cancelled, items # <<>>
  PROVE  delivered' = delivered \/ Stream!Deliver
<1> USE DEF sndVars, ctlVars
<1> DEFINE f == Head(items)
<1>0. UNCHANGED <<ctxDone, broken, sent, cancelled, abandoned>> /\ rd \in {"ready", "woken"} /\ ReadItem(f)
  BY DEF dequeue
<1>1. Failed' = Failed
  BY <1>0, Zenon DEF Failed
<1>2. /\ Genuine(sent, f)
      /\ ~Malformed(f) =>
           /\ Extend(f) = [id |-> f.id, len |-> f.lo + f.len] /\ Expect(f) = sent[f.id]
           /\ LastId < f.id /\ (Steady => f.id = LastId + 1)
  BY <1>0, ReadNext
<1> HIDE DEF f
<1>3. CASE Malformed(f) \/ Extend(f).len # Expect(f)
  BY <1>0, <1>3 DEF ReadItem
<1>4. CASE ~Malformed(f) /\ Extend(f).len = Expect(f)
  <2>1. delivered' = Append(delivered, Extend(f))
    BY <1>0, <1>4 DEF ReadItem
  <2>2. f.id \in 1 .. Len(sent) /\ LastId < f.id /\ (Steady => f.id = LastId + 1)
    BY <1>2, <1>4 DEF Genuine
  <2>3. Extend(f) = [id |-> f.id, len |-> sent[f.id]]
    <3>1. Extend(f).len = f.lo + f.len
      BY <1>2, <1>4
    <3>. QED  BY <1>2, <1>4, <3>1
  <2>4. f.id \in (LastId + 1) .. Len(sent)
    BY <2>2, StreamTypes DEF IInv
  <2>5. f.id = LastId + 1 \/ Failed
    BY <2>2, Zenon DEF Steady, Failed
  <2>6. Stream!Last = LastId
    BY DEF Stream!Last, LastId
  <2>7. Stream!Deliver
    BY <1>0, <1>1, <2>1, <2>3, <2>4, <2>5, <2>6, Zenon DEF Stream!Deliver
  <2>. QED  BY <2>7
<1>. QED  BY <1>3, <1>4

\* A step of any kind.
LEMMA StreamStep ==
  ASSUME IInv, SInv, [Next]_vars
  PROVE  [Stream!Next]_(Stream!vars)
<1> USE DEF sndVars, ctlVars, updVars, rcvVars, readVars
<1>1. ASSUME NEW t \in Threads, NEW n \in Sizes, send(t, n) PROVE Stream!Next
  <2>1. sent' = Append(sent, n) /\ delivered' = delivered /\ UNCHANGED <<ctxDone, broken, cancelled, abandoned>>
    BY <1>1 DEF send
  <2>2. Failed' = Failed
    BY <2>1, Zenon DEF Failed
  <2>3. Stream!Submit(n)
    BY <2>1, <2>2, Zenon DEF Stream!Submit
  <2>. QED  BY <2>3, Zenon DEF Stream!Next
<1>2. ASSUME NEW t \in Threads, SenderStep(t) PROVE UNCHANGED <<sent, delivered>>
  BY <1>2 DEF SenderStep, LoadWindow, WakeSender, AbortSend, ReserveChunk, WriteChunk
<1>3. CASE CloseSend \/ CancelContext \/ BreakTunnel \/ AddWindow \/ SignalSender \/ EndStream \/ Abandon
  <2>1. UNCHANGED <<sent, delivered>>
    BY <1>3 DEF CloseSend, CancelContext, BreakTunnel, AddWindow, SignalSender, EndStream, Abandon
  <2>. QED  BY <2>1, SilentStep
<1>4. CASE accept \/ close \/ cancel \/ SendAck \/ FailRead \/ UNCHANGED vars
  <2>1. UNCHANGED <<sent, delivered>>
    BY <1>4 DEF accept, close, cancel, SendAck, FailRead, vars
  <2>. QED  BY <2>1, SilentStep
<1>5. CASE dequeue
  <2>1. sent' = sent
    BY <1>5 DEF dequeue
  <2>2. CASE cancelled \/ items = <<>>
    <3>1. delivered' = delivered
      BY <1>5, <2>2 DEF dequeue
    <3>. QED  BY <2>1, <3>1, SilentStep
  <2>3. CASE ~cancelled /\ items # <<>>
    <3>1. delivered' = delivered \/ Stream!Deliver
      BY <1>5, <2>3, ReadStep
    <3>2. CASE delivered' = delivered
      BY <2>1, <3>2, SilentStep
    <3>3. CASE Stream!Deliver
      BY <3>3, Zenon DEF Stream!Next
    <3>. QED  BY <3>1, <3>2, <3>3
  <2>. QED  BY <2>2, <2>3
<1>. QED  BY <1>1, <1>2, <1>3, <1>4, <1>5, SilentStep DEF Next

\* One direction of a stream is a MessageStream, as far as safety goes: what is
\* sent comes out in order, and is left out only once the stream has failed.
THEOREM ImplementsStream == Spec => Stream!Init /\ [][Stream!Next]_(Stream!vars)
<1>1. Init => Stream!Init
  <2> SUFFICES ASSUME Init PROVE Stream!Init
    OBVIOUS
  <2>1. Failed = FALSE
    BY Zenon DEF Init, Failed
  <2>2. sent = <<>> /\ delivered = <<>>
    BY DEF Init
  <2>. QED  BY <2>1, <2>2, Zenon DEF Stream!Init
<1>2. IInv /\ SInv /\ [Next]_vars => [Stream!Next]_(Stream!vars)
  BY StreamStep
<1>. QED  BY Inductive, StreamInductive, <1>1, <1>2, PTL DEF Spec
=============================================================================
