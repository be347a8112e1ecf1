------------------------- MODULE FlowControlProofs -------------------------
(***************************************************************************)
(* Safety of FlowControl for every window, chunk size, update size, set of *)
(* goroutines and message sizes.                                           *)
(*                                                                         *)
(* All that the sender ever charges against its window is laid out on one  *)
(* line.  Frames and acknowledgements are stretches of that line: from is  *)
(* where one starts, to where it ends.  Each stage has a mark on the line: *)
(*                                                                         *)
(*   returned <= credited <= consumed <= accepted <= charged               *)
(*                                                                         *)
(* and a queue between two stages holds the stretches between their marks. *)
(***************************************************************************)
EXTENDS FlowControl, TLAPS

\* The stretches of s lie between lo and hi, in order and without overlap.
Segment(s, lo, hi) ==
  \A i \in 1 .. Len(s) :
    /\ lo <= s[i].from /\ s[i].from <= s[i].to /\ s[i].to <= hi
    /\ \A j \in 1 .. Len(s) : i < j => s[i].to <= s[j].from

\* They cover everything between lo and hi.
Tight(s, lo, hi) ==
  /\ s = <<>> => lo = hi
  /\ s # <<>> => s[1].from = lo /\ s[Len(s)].to = hi
  /\ \A i, j \in 1 .. Len(s) : j = i + 1 => s[i].to = s[j].from

\* None of them is empty, so from the start of one to hi there is at least one
\* unit for it and for each that follows.
Dense(s, hi) == \A i \in 1 .. Len(s) : hi - s[i].from >= Len(s) - i + 1

Positive(s) == \A i \in 1 .. Len(s) : s[i].from < s[i].to

\* What the thread in send has reserved and not yet written.
Pending == IF mu \in Threads /\ pc[mu] = "write" THEN overhead(mu) + chunk[mu] ELSE 0

written == charged - Pending

\* sender.mu is held by exactly the thread that is in send.
Mutex == \A t \in Threads : pc[t] # "idle" <=> mu = t

\* What a thread knows at each point of send.
Sending ==
  \A t \in Threads :
    /\ pc[t] # "idle" => msg[t].lo <= msg[t].size /\ (~msg[t].first => msg[t].lo < msg[t].size)
    /\ pc[t] = "cas" => needed(t) <= win[t] /\ win[t] <= Window
    /\ pc[t] = "write" => chunk[t] <= remaining(t)
    /\ pc[t] = "write" /\ msgOverhead > 0 => overhead(t) + chunk[t] >= 1

\* A frame's stretch is its charge; a window update's is what it adds.
FramesMeasured(s) == \A i \in 1 .. Len(s) : s[i].to - s[i].from = charge(s[i])

AcksMeasured(s) == \A i \in 1 .. Len(s) : s[i].to - s[i].from = s[i].add

Measured == FramesMeasured(frames) /\ FramesMeasured(items) /\ AcksMeasured(acks)

\* The windows are what the marks say.
Windows ==
  /\ sndWindow = Window - charged + returned
  /\ rcvWindow = Window - accepted + credited
  /\ windowUpdate = consumed - credited

\* The running totals are in order: nothing is acknowledged before it has been
\* consumed, nor consumed before it has been accepted and written.
Marks ==
  /\ returned <= credited - sendUpdate
  /\ credited <= consumed
  /\ consumed <= accepted
  /\ accepted <= written
  /\ rd # "update" => sendUpdate = 0

\* Each queue lies between its two marks, and fills the space between them as
\* long as nothing has been dropped.
Queues ==
  /\ Segment(frames, accepted, written)
  /\ Segment(items, consumed, accepted)
  /\ Segment(acks, returned, credited - sendUpdate)
  /\ ~closed /\ ~broken => Tight(frames, accepted, written)
  /\ ~cancelled => Tight(items, consumed, accepted)
  /\ ~ended /\ ~broken => Tight(acks, returned, credited - sendUpdate)
  /\ closed => ended

\* Since revision two no frame is free of charge.
Density ==
  msgOverhead > 0 => Dense(frames, written) /\ Dense(items, accepted) /\ Positive(frames)

\* What dequeue may hold back once the queue is empty.
HeldBack ==
  ~cancelled /\ items = <<>> =>
    /\ windowUpdate < minUpdateSize
    /\ msgOverhead = 0 \/ windowUpdate = 0 \/ rcvWindow > msgOverhead

\* The inductive invariant: the windows of the two ends, and everything in the
\* queues between them, are accounted for by the running totals.
IInv ==
  /\ TypeOK /\ Mutex /\ Sending /\ Measured /\ Windows /\ Marks /\ Queues /\ Density /\ HeldBack
  /\ ~rejected /\ NoLostWakeup /\ ReaderAwake
-----------------------------------------------------------------------------
(***************************************************************************)
(* Sequences of stretches.                                                 *)
(***************************************************************************)
\* A sequence of anything that has a start and an end.
IsLine(s, R) == s \in Seq(R) /\ \A i \in 1 .. Len(s) : s[i].from \in Int /\ s[i].to \in Int

\* What Append does to the length and the elements of a sequence.
LEMMA AppendFacts ==
  ASSUME NEW R, NEW s \in Seq(R), NEW e \in R
  PROVE  /\ Append(s, e) \in Seq(R) /\ Append(s, e) # <<>>
         /\ Len(s) \in Nat /\ (s = <<>> <=> Len(s) = 0)
         /\ Len(Append(s, e)) = Len(s) + 1
         /\ \A i \in 1 .. Len(s) : Append(s, e)[i] = s[i]
         /\ Append(s, e)[Len(s) + 1] = e
  OBVIOUS

\* What Head and Tail of a sequence that is not empty are.
LEMMA TailFacts ==
  ASSUME NEW R, NEW s \in Seq(R), s # <<>>
  PROVE  /\ Tail(s) \in Seq(R) /\ Head(s) = s[1] /\ Head(s) \in R
         /\ Len(s) \in Nat /\ Len(s) >= 1
         /\ Len(Tail(s)) = Len(s) - 1
         /\ \A i \in 1 .. (Len(s) - 1) : Tail(s)[i] = s[i + 1]
         /\ (Tail(s) = <<>> <=> Len(s) = 1)
<1>1. Len(s) \in Nat /\ Len(s) >= 1 /\ Tail(s) \in Seq(R) /\ Len(Tail(s)) = Len(s) - 1
  OBVIOUS
<1>2. Head(s) = s[1] /\ Head(s) \in R
  BY <1>1
<1>3. \A i \in 1 .. (Len(s) - 1) : Tail(s)[i] = s[i + 1]
  BY <1>1
<1>4. Tail(s) = <<>> <=> Len(Tail(s)) = 0
  BY <1>1
<1> QED BY <1>1, <1>2, <1>3, <1>4

\* Appending a stretch that starts where the others end, or later.
LEMMA SegmentAppend ==
  ASSUME NEW R, NEW s \in Seq(R), NEW e \in R, NEW lo \in Int, NEW hi \in Int, NEW hi2 \in Int,
         IsLine(s, R), e.from \in Int, e.to \in Int,
         Segment(s, lo, hi), lo <= hi, hi <= e.from, e.from <= e.to, e.to <= hi2
  PROVE  Segment(Append(s, e), lo, hi2)
<1> DEFINE s2 == Append(s, e)
           n == Len(s)
<1>1. n \in Nat /\ Len(s2) = n + 1 /\ s2[n + 1] = e /\ \A i \in 1 .. n : s2[i] = s[i]
  BY AppendFacts
<1>2. \A i \in 1 .. n : /\ s[i].from \in Int /\ s[i].to \in Int
                        /\ lo <= s[i].from /\ s[i].from <= s[i].to /\ s[i].to <= hi
  BY DEF Segment, IsLine
<1>3. \A i, j \in 1 .. n : i < j => s[i].to <= s[j].from
  BY DEF Segment
<1>h. hi <= hi2
  OBVIOUS
<1> HIDE DEF s2, n
<1>4. ASSUME NEW i \in 1 .. (n + 1)
      PROVE  lo <= s2[i].from /\ s2[i].from <= s2[i].to /\ s2[i].to <= hi2
  <2>1. CASE i \in 1 .. n BY <2>1, <1>1, <1>2, <1>h
  <2>2. CASE i = n + 1 BY <2>2, <1>1
  <2> QED BY <2>1, <2>2, <1>1
<1>5. ASSUME NEW i \in 1 .. (n + 1), NEW j \in 1 .. (n + 1), i < j
      PROVE  s2[i].to <= s2[j].from
  <2>1. i \in 1 .. n BY <1>5, <1>1
  <2>2. CASE j \in 1 .. n BY <2>1, <2>2, <1>1, <1>3, <1>5
  <2>3. CASE j = n + 1
    <3>1. s2[i].to = s[i].to /\ s2[j].from = e.from BY <2>1, <2>3, <1>1
    <3> QED BY <3>1, <2>1, <1>2
  <2> QED BY <2>2, <2>3, <1>1
<1>6. Segment(s2, lo, hi2)
  BY <1>1, <1>4, <1>5 DEF Segment
<1> QED BY <1>6 DEF s2

\* Appending a stretch that starts exactly where the others end leaves no gap.
LEMMA TightAppend ==
  ASSUME NEW R, NEW s \in Seq(R), NEW e \in R, NEW lo, Tight(s, lo, e.from)
  PROVE  Tight(Append(s, e), lo, e.to)
<1> DEFINE s2 == Append(s, e)
           n == Len(s)
<1>1. /\ n \in Nat /\ Len(s2) = n + 1 /\ s2[n + 1] = e /\ \A i \in 1 .. n : s2[i] = s[i]
      /\ s2 # <<>> /\ (s = <<>> <=> n = 0)
  BY AppendFacts
<1>2. /\ n = 0 => lo = e.from
      /\ n > 0 => s[1].from = lo /\ s[n].to = e.from
      /\ \A i, j \in 1 .. n : j = i + 1 => s[i].to = s[j].from
  BY <1>1 DEF Tight
<1> HIDE DEF s2, n
<1>3. s2[1].from = lo
  <2>1. CASE n = 0 BY <2>1, <1>1, <1>2
  <2>2. CASE n > 0 BY <2>2, <1>1, <1>2
  <2> QED BY <2>1, <2>2, <1>1
<1>4. ASSUME NEW i \in 1 .. (n + 1), NEW j \in 1 .. (n + 1), j = i + 1
      PROVE  s2[i].to = s2[j].from
  <2>1. CASE j \in 1 .. n BY <2>1, <1>1, <1>2, <1>4
  <2>2. CASE j = n + 1
    <3>1. i = n /\ n > 0 BY <2>2, <1>4, <1>1
    <3>2. s2[i] = s[n] /\ s2[j] = e BY <3>1, <2>2, <1>1
    <3> QED BY <3>1, <3>2, <1>2
  <2> QED BY <2>1, <2>2, <1>1
<1>5. Tight(s2, lo, e.to)
  BY <1>1, <1>3, <1>4 DEF Tight
<1> QED BY <1>5 DEF s2

\* Appending a stretch that is not empty keeps the number of stretches within their extent.
LEMMA DenseAppend ==
  ASSUME NEW R, NEW s \in Seq(R), NEW e \in R, NEW hi \in Int, NEW hi2 \in Int,
         IsLine(s, R), e.from \in Int, Dense(s, hi), hi <= e.from, e.from < hi2
  PROVE  Dense(Append(s, e), hi2)
<1> DEFINE s2 == Append(s, e)
           n == Len(s)
<1>1. n \in Nat /\ Len(s2) = n + 1 /\ s2[n + 1] = e /\ \A i \in 1 .. n : s2[i] = s[i]
  BY AppendFacts
<1>2. \A i \in 1 .. n : s[i].from \in Int /\ hi - s[i].from >= n - i + 1
  BY DEF Dense, IsLine
<1> HIDE DEF s2, n
<1>3. ASSUME NEW i \in 1 .. (n + 1)
      PROVE  hi2 - s2[i].from >= (n + 1) - i + 1
  <2>1. CASE i \in 1 .. n
    <3>1. hi < hi2 OBVIOUS
    <3>2. s2[i].from = s[i].from /\ s[i].from \in Int /\ hi - s[i].from >= n - i + 1
      BY <2>1, <1>1, <1>2
    <3>3. \A x \in Int : hi - x >= n - i + 1 => hi2 - x >= (n + 1) - i + 1
      BY <3>1, <2>1, <1>1
    <3> QED BY <3>2, <3>3
  <2>2. CASE i = n + 1 BY <2>2, <1>1
  <2> QED BY <2>1, <2>2, <1>1
<1>4. Dense(s2, hi2)
  BY <1>1, <1>3 DEF Dense
<1> QED BY <1>4 DEF s2

\* Taking the first stretch away.
LEMMA SegmentTail ==
  ASSUME NEW R, NEW s \in Seq(R), s # <<>>, IsLine(s, R), NEW lo \in Int, NEW hi \in Int, NEW lo2 \in Int,
         Segment(s, lo, hi), lo2 <= Head(s).to
  PROVE  Segment(Tail(s), lo2, hi)
<1> DEFINE s2 == Tail(s)
           n == Len(s)
<1>1. /\ n \in Nat /\ n >= 1 /\ Len(s2) = n - 1 /\ Head(s) = s[1]
      /\ \A i \in 1 .. (n - 1) : s2[i] = s[i + 1]
  BY TailFacts
<1>2. \A i \in 1 .. n : /\ s[i].from \in Int /\ s[i].to \in Int
                        /\ s[i].from <= s[i].to /\ s[i].to <= hi
  BY DEF Segment, IsLine
<1>3. \A i, j \in 1 .. n : i < j => s[i].to <= s[j].from
  BY DEF Segment
<1>4. lo2 <= s[1].to
  BY <1>1
<1> HIDE DEF s2, n
<1>5. ASSUME NEW i \in 1 .. (n - 1)
      PROVE  lo2 <= s2[i].from /\ s2[i].from <= s2[i].to /\ s2[i].to <= hi
  <2>1. i + 1 \in 1 .. n /\ 1 \in 1 .. n /\ 1 < i + 1 BY <1>1
  <2>2. s2[i] = s[i + 1] /\ s[1].to <= s[i + 1].from BY <2>1, <1>1, <1>3
  <2> QED BY <2>1, <2>2, <1>2, <1>4
<1>6. ASSUME NEW i \in 1 .. (n - 1), NEW j \in 1 .. (n - 1), i < j
      PROVE  s2[i].to <= s2[j].from
  <2>1. i + 1 \in 1 .. n /\ j + 1 \in 1 .. n /\ i + 1 < j + 1 BY <1>1, <1>6
  <2>2. s2[i] = s[i + 1] /\ s2[j] = s[j + 1] BY <1>1
  <2> QED BY <2>1, <2>2, <1>3
<1>7. Segment(s2, lo2, hi)
  BY <1>1, <1>5, <1>6 DEF Segment
<1> QED BY <1>7 DEF s2

\* Without its first stretch a sequence without gaps starts where that stretch ended.
LEMMA TightTail ==
  ASSUME NEW R, NEW s \in Seq(R), s # <<>>, NEW lo, NEW hi, Tight(s, lo, hi)
  PROVE  Tight(Tail(s), Head(s).to, hi) /\ Head(s).from = lo
<1> DEFINE s2 == Tail(s)
           n == Len(s)
<1>1. /\ n \in Nat /\ n >= 1 /\ Len(s2) = n - 1 /\ Head(s) = s[1]
      /\ \A i \in 1 .. (n - 1) : s2[i] = s[i + 1]
      /\ (s2 = <<>> <=> n = 1)
  BY TailFacts
<1>2. s[1].from = lo /\ s[n].to = hi /\ \A i, j \in 1 .. n : j = i + 1 => s[i].to = s[j].from
  BY DEF Tight
<1> HIDE DEF s2, n
<1>3. s2 = <<>> => s[1].to = hi
  BY <1>1, <1>2
<1>4. s2 # <<>> => s2[1].from = s[1].to /\ s2[n - 1].to = hi
  BY <1>1, <1>2
<1>5. ASSUME NEW i \in 1 .. (n - 1), NEW j \in 1 .. (n - 1), j = i + 1
      PROVE  s2[i].to = s2[j].from
  <2>1. i + 1 \in 1 .. n /\ j + 1 \in 1 .. n /\ j + 1 = (i + 1) + 1 BY <1>1, <1>5
  <2>2. s2[i] = s[i + 1] /\ s2[j] = s[j + 1] BY <1>1
  <2> QED BY <2>1, <2>2, <1>2
<1>6. Tight(s2, s[1].to, hi)
  BY <1>1, <1>3, <1>4, <1>5 DEF Tight
<1> QED BY <1>6, <1>1, <1>2 DEF s2

\* Without its first stretch a sequence is as dense as before.
LEMMA DenseTail ==
  ASSUME NEW R, NEW s \in Seq(R), s # <<>>, NEW hi, Dense(s, hi)
  PROVE  Dense(Tail(s), hi)
<1> DEFINE s2 == Tail(s)
           n == Len(s)
<1>1. n \in Nat /\ n >= 1 /\ Len(s2) = n - 1 /\ \A i \in 1 .. (n - 1) : s2[i] = s[i + 1]
  BY TailFacts
<1>2. \A i \in 1 .. n : hi - s[i].from >= n - i + 1
  BY DEF Dense
<1> HIDE DEF s2, n
<1>3. ASSUME NEW i \in 1 .. (n - 1)
      PROVE  hi - s2[i].from >= (n - 1) - i + 1
  <2>1. i + 1 \in 1 .. n /\ s2[i] = s[i + 1] /\ n - (i + 1) + 1 = (n - 1) - i + 1 BY <1>1
  <2> QED BY <2>1, <1>2
<1>4. Dense(s2, hi)
  BY <1>1, <1>3 DEF Dense
<1> QED BY <1>4 DEF s2

\* Appending a stretch that is not empty to stretches that are not.
LEMMA PositiveAppend ==
  ASSUME NEW R, NEW s \in Seq(R), NEW e \in R, Positive(s), e.from < e.to
  PROVE  Positive(Append(s, e))
<1> DEFINE s2 == Append(s, e)
           n == Len(s)
<1>1. n \in Nat /\ Len(s2) = n + 1 /\ s2[n + 1] = e /\ \A i \in 1 .. n : s2[i] = s[i]
  BY AppendFacts
<1>2. \A i \in 1 .. n : s[i].from < s[i].to
  BY DEF Positive
<1> HIDE DEF s2, n
<1>3. ASSUME NEW i \in 1 .. (n + 1) PROVE s2[i].from < s2[i].to
  <2>1. CASE i \in 1 .. n BY <2>1, <1>1, <1>2
  <2>2. CASE i = n + 1 BY <2>2, <1>1
  <2> QED BY <2>1, <2>2, <1>1
<1>4. Positive(s2) BY <1>1, <1>3 DEF Positive
<1> QED BY <1>4 DEF s2

\* The rest of a sequence of stretches that are not empty.
LEMMA PositiveTail ==
  ASSUME NEW R, NEW s \in Seq(R), s # <<>>, Positive(s)
  PROVE  Positive(Tail(s)) /\ Head(s).from < Head(s).to
<1>1. /\ Len(s) \in Nat /\ Len(s) >= 1 /\ Len(Tail(s)) = Len(s) - 1 /\ Head(s) = s[1]
      /\ \A i \in 1 .. (Len(s) - 1) : Tail(s)[i] = s[i + 1]
  BY TailFacts
<1>2. ASSUME NEW i \in 1 .. (Len(s) - 1) PROVE Tail(s)[i] = s[i + 1] /\ i + 1 \in 1 .. Len(s)
  BY <1>1
<1> QED BY <1>1, <1>2 DEF Positive

\* Measures of the stretches.
LEMMA FramesMeasuredAppend ==
  ASSUME NEW s \in Seq(Frame), NEW e \in Frame, FramesMeasured(s), e.to - e.from = charge(e)
  PROVE  FramesMeasured(Append(s, e))
<1> DEFINE s2 == Append(s, e)
           n == Len(s)
<1>1. n \in Nat /\ Len(s2) = n + 1 /\ s2[n + 1] = e /\ \A i \in 1 .. n : s2[i] = s[i]
  BY AppendFacts
<1>2. \A i \in 1 .. n : s[i].to - s[i].from = charge(s[i])
  BY DEF FramesMeasured
<1> HIDE DEF s2, n
<1>3. ASSUME NEW i \in 1 .. (n + 1) PROVE s2[i].to - s2[i].from = charge(s2[i])
  <2>1. CASE i \in 1 .. n BY <2>1, <1>1, <1>2
  <2>2. CASE i = n + 1 BY <2>2, <1>1
  <2> QED BY <2>1, <2>2, <1>1
<1>4. FramesMeasured(s2) BY <1>1, <1>3 DEF FramesMeasured
<1> QED BY <1>4 DEF s2

\* The same for window updates.
LEMMA AcksMeasuredAppend ==
  ASSUME NEW s \in Seq(Ack), NEW e \in Ack, AcksMeasured(s), e.to - e.from = e.add
  PROVE  AcksMeasured(Append(s, e))
<1> DEFINE s2 == Append(s, e)
           n == Len(s)
<1>1. n \in Nat /\ Len(s2) = n + 1 /\ s2[n + 1] = e /\ \A i \in 1 .. n : s2[i] = s[i]
  BY AppendFacts
<1>2. \A i \in 1 .. n : s[i].to - s[i].from = s[i].add
  BY DEF AcksMeasured
<1> HIDE DEF s2, n
<1>3. ASSUME NEW i \in 1 .. (n + 1) PROVE s2[i].to - s2[i].from = s2[i].add
  <2>1. CASE i \in 1 .. n BY <2>1, <1>1, <1>2
  <2>2. CASE i = n + 1 BY <2>2, <1>1
  <2> QED BY <2>1, <2>2, <1>1
<1>4. AcksMeasured(s2) BY <1>1, <1>3 DEF AcksMeasured
<1> QED BY <1>4 DEF s2

\* The rest of a queue of frames that measure what they charge.
LEMMA FramesMeasuredTail ==
  ASSUME NEW s \in Seq(Frame), s # <<>>, FramesMeasured(s)
  PROVE  FramesMeasured(Tail(s)) /\ Head(s).to - Head(s).from = charge(Head(s))
<1>1. /\ Len(s) \in Nat /\ Len(s) >= 1 /\ Len(Tail(s)) = Len(s) - 1 /\ Head(s) = s[1]
      /\ \A i \in 1 .. (Len(s) - 1) : Tail(s)[i] = s[i + 1]
  BY TailFacts
<1>2. ASSUME NEW i \in 1 .. (Len(s) - 1) PROVE Tail(s)[i] = s[i + 1] /\ i + 1 \in 1 .. Len(s)
  BY <1>1
<1> QED BY <1>1, <1>2 DEF FramesMeasured

\* The rest of a queue of updates that measure what they add.
LEMMA AcksMeasuredTail ==
  ASSUME NEW s \in Seq(Ack), s # <<>>, AcksMeasured(s)
  PROVE  AcksMeasured(Tail(s)) /\ Head(s).to - Head(s).from = Head(s).add
<1>1. /\ Len(s) \in Nat /\ Len(s) >= 1 /\ Len(Tail(s)) = Len(s) - 1 /\ Head(s) = s[1]
      /\ \A i \in 1 .. (Len(s) - 1) : Tail(s)[i] = s[i + 1]
  BY TailFacts
<1>2. ASSUME NEW i \in 1 .. (Len(s) - 1) PROVE Tail(s)[i] = s[i + 1] /\ i + 1 \in 1 .. Len(s)
  BY <1>1
<1> QED BY <1>1, <1>2 DEF AcksMeasured

\* Looser bounds.
LEMMA SegmentWiden ==
  ASSUME NEW R, NEW s \in Seq(R), IsLine(s, R), NEW lo \in Int, NEW hi \in Int,
         NEW lo2 \in Int, NEW hi2 \in Int, Segment(s, lo, hi), lo2 <= lo, hi <= hi2
  PROVE  Segment(s, lo2, hi2)
  BY DEF Segment, IsLine

\* A larger extent has room for as many stretches.
LEMMA DenseWiden ==
  ASSUME NEW R, NEW s \in Seq(R), IsLine(s, R), NEW hi \in Int, NEW hi2 \in Int, Dense(s, hi), hi <= hi2
  PROVE  Dense(s, hi2)
  BY DEF Dense, IsLine
-----------------------------------------------------------------------------
(***************************************************************************)
(* The constants, and what a thread computes from them.                    *)
(***************************************************************************)
LEMMA Constants ==
  /\ msgOverhead \in Nat
  /\ Window \in Nat /\ Uint \in Nat /\ Window >= msgOverhead + 1 /\ Window < Uint
  /\ minUpdateSize \in Nat /\ minUpdateSize >= 1 /\ minUpdateSize <= Window
  /\ maxChunkSize \in Nat /\ maxChunkSize >= 1 /\ maxChunkSize <= Window
  /\ NoThread \notin Threads
<1>1. msgOverhead \in Nat /\ minWindowSize(Revision) = msgOverhead + 1
  BY FlowAssumption DEF msgOverhead, messageOverhead, minWindowSize
<1>2. Window \in Nat /\ Uint \in Nat /\ Window >= msgOverhead + 1 /\ Window < Uint
  BY <1>1, FlowAssumption
<1> QED BY <1>1, <1>2, FlowAssumption DEF minUpdateSize, maxChunkSize, Lesser

\* What remaining, overhead and needed are for a thread that is in send.
LEMMA ThreadFacts ==
  ASSUME TypeOK, Sending, NEW t \in Threads
  PROVE  /\ overhead(t) \in Nat /\ overhead(t) <= msgOverhead
         /\ needed(t) \in Nat /\ needed(t) >= 1 /\ needed(t) <= msgOverhead + 1
         /\ msg[t].lo \in Nat /\ msg[t].size \in Nat /\ chunk[t] \in Nat /\ win[t] \in Nat
         /\ pc[t] # "idle" => remaining(t) \in Nat /\ needed(t) >= overhead(t)
         /\ pc[t] # "idle" /\ remaining(t) > 0 => needed(t) >= overhead(t) + 1
<1>1. /\ msg[t] \in [id : Nat, size : Nat, lo : Nat, first : BOOLEAN]
      /\ chunk[t] \in Nat /\ win[t] \in Nat
  BY DEF TypeOK, SenderTypes, TunnelTypes, ReceiverTypes, ReaderTypes, HistoryTypes
<1>2. overhead(t) \in Nat /\ overhead(t) <= msgOverhead
  BY Constants DEF overhead
<1>3. remaining(t) \in Int /\ Lesser(remaining(t), 1) \in Int /\ Lesser(remaining(t), 1) <= 1
  BY <1>1 DEF remaining, Lesser
<1>4. pc[t] # "idle" => remaining(t) \in Nat
  BY <1>1 DEF Sending, remaining
<1>5. needed(t) \in Nat /\ needed(t) >= 1 /\ needed(t) <= msgOverhead + 1
  BY <1>2, <1>3, Constants DEF needed
<1>6. /\ pc[t] # "idle" => needed(t) >= overhead(t)
      /\ pc[t] # "idle" /\ remaining(t) > 0 => needed(t) >= overhead(t) + 1
  BY <1>2, <1>4 DEF needed, Lesser
<1> QED BY <1>1, <1>2, <1>4, <1>5, <1>6

\* The types of the fields of a frame and of what it is charged.
LEMMA FrameFields ==
  ASSUME NEW f \in Frame
  PROVE  f.from \in Nat /\ f.to \in Nat /\ f.len \in Nat /\ f.size \in Nat /\ f.id \in Nat /\ f.lo \in Nat
  BY DEF Frame

\* Queues of frames and of window updates are lines.
LEMMA Lines ==
  ASSUME TypeOK
  PROVE  IsLine(frames, Frame) /\ IsLine(items, Frame) /\ IsLine(acks, Ack)
<1>1. frames \in Seq(Frame) /\ items \in Seq(Frame) /\ acks \in Seq(Ack)
  BY DEF TypeOK, SenderTypes, TunnelTypes, ReceiverTypes, ReaderTypes, HistoryTypes
<1>2. ASSUME NEW s \in Seq(Frame), NEW i \in 1 .. Len(s) PROVE s[i].from \in Int /\ s[i].to \in Int
  <2>1. s[i] \in Frame OBVIOUS
  <2> QED BY <2>1, FrameFields
<1>3. ASSUME NEW s \in Seq(Ack), NEW i \in 1 .. Len(s) PROVE s[i].from \in Int /\ s[i].to \in Int
  <2>1. s[i] \in Ack OBVIOUS
  <2> QED BY <2>1 DEF Ack
<1> QED BY <1>1, <1>2, <1>3 DEF IsLine

\* Only the thread in send has reserved anything.
LEMMA PendingFacts ==
  ASSUME TypeOK, Mutex, Sending
  PROVE  /\ Pending \in Nat
         /\ \A t \in Threads : pc[t] = "write" => Pending = overhead(t) + chunk[t]
         /\ (\A t \in Threads : pc[t] # "write") => Pending = 0
         /\ written \in Int
<1>1. \A t \in Threads : overhead(t) \in Nat /\ chunk[t] \in Nat
  BY ThreadFacts
<1>2. \A t \in Threads : pc[t] = "write" => mu = t
  BY DEF Mutex
<1>3. charged \in Nat
  BY DEF TypeOK, SenderTypes, TunnelTypes, ReceiverTypes, ReaderTypes, HistoryTypes
<1> QED BY <1>1, <1>2, <1>3 DEF Pending, written
-----------------------------------------------------------------------------
(***************************************************************************)
(* The invariant: initially, and one lemma for each action.                *)
(***************************************************************************)
LEMMA InitInv == Init => IInv
<1> SUFFICES ASSUME Init PROVE IInv
  OBVIOUS
<1>1. TypeOK
  <2>1. NoMsg \in [id : Nat, size : Nat, lo : Nat, first : BOOLEAN] /\ Empty \in [id : Nat, len : Nat]
    BY DEF NoMsg, Empty
  <2>2. /\ <<>> \in Seq(Frame) /\ <<>> \in Seq(Ack) /\ <<>> \in Seq(Nat)
        /\ <<>> \in Seq([id : Nat, len : Nat])
    OBVIOUS
  <2>3. /\ mu \in Threads \cup {NoThread}
        /\ pc \in [Threads -> {"idle", "load", "wait", "cas", "write"}]
        /\ msg \in [Threads -> [id : Nat, size : Nat, lo : Nat, first : BOOLEAN]]
        /\ win \in [Threads -> Nat] /\ chunk \in [Threads -> Nat]
    BY <2>1 DEF Init
  <2>4. /\ sndWindow \in 0 .. Window /\ rcvWindow \in 0 .. Window
        /\ prevWindow \in Nat \cup {NoUpdate} /\ msgLen \in Nat \cup {NoMessage}
    BY Constants DEF Init
  <2> QED BY <2>1, <2>2, <2>3, <2>4 DEF Init, TypeOK, SenderTypes, TunnelTypes, ReceiverTypes, ReaderTypes, HistoryTypes
<1>2. Pending = 0 /\ written = 0
  BY DEF Init, Pending, written
<1>3. Mutex /\ Sending /\ NoLostWakeup /\ ReaderAwake /\ ~rejected
  BY Constants DEF Init, Mutex, Sending, NoLostWakeup, ReaderAwake
<1>4. Len(frames) = 0 /\ Len(items) = 0 /\ Len(acks) = 0
  BY DEF Init
<1>5. Measured /\ Queues /\ Density
  BY <1>2, <1>4 DEF Init, Measured, FramesMeasured, AcksMeasured, Queues, Density, Segment, Tight, Dense, Positive
<1>6. Windows /\ Marks /\ HeldBack
  BY <1>2, Constants DEF Init, Windows, Marks, HeldBack
<1> QED BY <1>1, <1>3, <1>5, <1>6 DEF IInv

\* What a step that leaves the sender alone keeps.
LEMMA SenderSame ==
  ASSUME IInv, UNCHANGED <<mu, pc, msg, win, chunk, charged>>
  PROVE  Mutex' /\ Sending' /\ Pending' = Pending /\ written' = written
<1>1. Mutex' BY DEF IInv, Mutex
<1>2. Sending' BY DEF IInv, Sending, remaining, overhead, needed
<1>3. Pending' = Pending /\ written' = written BY DEF Pending, written, overhead
<1> QED BY <1>1, <1>2, <1>3

\* NoLostWakeup depends on the sender, its token and updateWindow only.
LEMMA WakeupSame ==
  ASSUME IInv, UNCHANGED <<pc, msg, sndWindow, windowUpdates, prevWindow>>
  PROVE  NoLostWakeup'
  BY DEF IInv, NoLostWakeup, needed, overhead, remaining

\* The marks are integers, and so are the bounds of the queues.
LEMMA MarkTypes ==
  ASSUME IInv
  PROVE  /\ charged \in Nat /\ returned \in Nat /\ accepted \in Nat /\ consumed \in Nat /\ credited \in Nat
         /\ sendUpdate \in Nat /\ windowUpdate \in Nat /\ Pending \in Nat /\ written \in Int
         /\ sndWindow \in Nat /\ rcvWindow \in Nat
         /\ sndWindow <= Window /\ rcvWindow <= Window
  BY PendingFacts, Constants DEF IInv, TypeOK, SenderTypes, TunnelTypes, ReceiverTypes, ReaderTypes, HistoryTypes

\* Windows and Marks, in the form the steps below use.
LEMMA MarkOrder ==
  ASSUME IInv
  PROVE  /\ returned <= credited - sendUpdate /\ credited <= consumed
         /\ consumed <= accepted /\ accepted <= charged - Pending
         /\ sndWindow = Window - charged + returned
         /\ rcvWindow = Window - accepted + credited
         /\ windowUpdate = consumed - credited
  BY DEF IInv, Windows, Marks, written

\* A step that changes nothing keeps the invariant.
LEMMA StutterInv == ASSUME IInv, UNCHANGED vars PROVE IInv'
<1> USE DEF vars, sndVars, ctlVars, updVars, rcvVars, readVars
<1>1. TypeOK' BY DEF IInv, TypeOK, SenderTypes, TunnelTypes, ReceiverTypes, ReaderTypes, HistoryTypes
<1>2. Mutex' /\ Sending' /\ Pending' = Pending /\ written' = written BY SenderSame
<1>3. NoLostWakeup' BY WakeupSame
<1>4. Measured' /\ Windows' BY DEF IInv, Measured, Windows
<1>5. Marks' /\ Queues' /\ Density' /\ HeldBack' BY <1>2 DEF IInv, Marks, Queues, Density, HeldBack
<1>6. ReaderAwake' /\ ~rejected' BY DEF IInv, ReaderAwake
<1> QED BY <1>1, <1>2, <1>3, <1>4, <1>5, <1>6 DEF IInv

\* Steps that only set a flag which weakens what the invariant says.
LEMMA FlagInv ==
  ASSUME IInv, CloseSend \/ CancelContext \/ BreakTunnel \/ EndStream \/ Abandon
  PROVE  IInv'
<1> USE DEF sndVars, ctlVars, updVars, rcvVars, readVars
<1>1. /\ UNCHANGED <<sndVars, updVars, readVars, frames, acks, sent>>
      /\ UNCHANGED <<rcvWindow, items, closed, cancelled, rejected, accepted>>
      /\ ended => ended'
      /\ broken => broken'
      /\ ended' \in BOOLEAN /\ broken' \in BOOLEAN /\ ctxDone' \in BOOLEAN
      /\ endSent' \in BOOLEAN /\ abandoned' \in BOOLEAN
  BY DEF CloseSend, CancelContext, BreakTunnel, EndStream, Abandon, IInv, TypeOK, SenderTypes, TunnelTypes, ReceiverTypes, ReaderTypes, HistoryTypes
<1>2. TypeOK' BY <1>1 DEF IInv, TypeOK, SenderTypes, TunnelTypes, ReceiverTypes, ReaderTypes, HistoryTypes
<1>3. Mutex' /\ Sending' /\ Pending' = Pending /\ written' = written BY <1>1, SenderSame
<1>4. NoLostWakeup' BY <1>1, WakeupSame
<1>5. Measured' /\ Windows' BY <1>1 DEF IInv, Measured, Windows
<1>6. Marks' /\ Density' /\ HeldBack' BY <1>1, <1>3 DEF IInv, Marks, Density, HeldBack
<1>7. Queues' BY <1>1, <1>3 DEF IInv, Queues
<1>8. ReaderAwake' /\ ~rejected' BY <1>1 DEF IInv, ReaderAwake
<1> QED BY <1>2, <1>3, <1>4, <1>5, <1>6, <1>7, <1>8 DEF IInv

\* receiver.close keeps the invariant: it wakes the reader.
LEMMA CloseInv == ASSUME IInv, close PROVE IInv'
<1> USE DEF sndVars, ctlVars, updVars, rcvVars, readVars, close
<1>0. rd' \in {"ready", "wait", "woken", "update", "failed", "done"} BY DEF IInv, TypeOK, SenderTypes, TunnelTypes, ReceiverTypes, ReaderTypes, HistoryTypes, WakeReader
<1>1. TypeOK' BY <1>0 DEF IInv, TypeOK, SenderTypes, TunnelTypes, ReceiverTypes, ReaderTypes, HistoryTypes
<1>2. Mutex' /\ Sending' /\ Pending' = Pending /\ written' = written BY SenderSame
<1>3. NoLostWakeup' BY WakeupSame
<1>4. Measured' /\ Windows' BY DEF IInv, Measured, Windows
<1>5. Marks' BY <1>2 DEF IInv, Marks, WakeReader
<1>6. Density' /\ HeldBack' BY <1>2 DEF IInv, Density, HeldBack
<1>7. Queues' BY <1>2 DEF IInv, Queues, Closing
<1>8. ReaderAwake' /\ ~rejected' BY DEF IInv, ReaderAwake, WakeReader
<1> QED BY <1>1, <1>2, <1>3, <1>4, <1>5, <1>6, <1>7, <1>8 DEF IInv

\* The empty queue satisfies everything but Tight.
LEMMA EmptyQueue ==
  ASSUME NEW lo, NEW hi
  PROVE  Segment(<<>>, lo, hi) /\ Dense(<<>>, hi) /\ FramesMeasured(<<>>) /\ <<>> \in Seq(Frame)
  BY DEF Segment, Dense, FramesMeasured

\* receiver.cancel keeps the invariant: it empties the queue and wakes the reader.
LEMMA CancelInv == ASSUME IInv, cancel PROVE IInv'
<1> USE DEF sndVars, ctlVars, updVars, rcvVars, readVars, cancel
<1>1. TypeOK' BY EmptyQueue DEF IInv, TypeOK, SenderTypes, TunnelTypes, ReceiverTypes, ReaderTypes, HistoryTypes, WakeReader
<1>2. Mutex' /\ Sending' /\ Pending' = Pending /\ written' = written BY SenderSame
<1>3. NoLostWakeup' BY WakeupSame
<1>4. Measured' /\ Windows' BY EmptyQueue DEF IInv, Measured, Windows
<1>5. Marks' BY <1>2 DEF IInv, Marks, WakeReader
<1>6. Density' /\ HeldBack' BY <1>2, EmptyQueue DEF IInv, Density, HeldBack
<1>7. Queues' BY <1>2, EmptyQueue DEF IInv, Queues
<1>8. ReaderAwake' /\ ~rejected' BY DEF IInv, ReaderAwake, WakeReader
<1> QED BY <1>1, <1>2, <1>3, <1>4, <1>5, <1>6, <1>7, <1>8 DEF IInv

\* Finishing the stream after a malformed message keeps the invariant.
LEMMA FailReadInv == ASSUME IInv, FailRead PROVE IInv'
<1> USE DEF sndVars, ctlVars, updVars, rcvVars, readVars, FailRead
<1>0. (items' = items /\ cancelled' = cancelled) \/ (items' = <<>> /\ cancelled')
  BY DEF IInv, TypeOK, SenderTypes, TunnelTypes, ReceiverTypes, ReaderTypes, HistoryTypes
<1>1. TypeOK' BY <1>0, EmptyQueue DEF IInv, TypeOK, SenderTypes, TunnelTypes, ReceiverTypes, ReaderTypes, HistoryTypes
<1>2. Mutex' /\ Sending' /\ Pending' = Pending /\ written' = written BY SenderSame
<1>3. NoLostWakeup' BY WakeupSame
<1>4. Measured' /\ Windows' BY <1>0, EmptyQueue DEF IInv, Measured, Windows
<1>5. Marks' BY <1>2 DEF IInv, Marks
<1>6. Density' /\ HeldBack' BY <1>0, <1>2, EmptyQueue DEF IInv, Density, HeldBack
<1>7. Queues' BY <1>0, <1>2, EmptyQueue DEF IInv, Queues
<1>8. ReaderAwake' /\ ~rejected' BY DEF IInv, ReaderAwake
<1> QED BY <1>1, <1>2, <1>3, <1>4, <1>5, <1>6, <1>7, <1>8 DEF IInv

\* Sending a window update, or dropping it, keeps the invariant.
LEMMA SendAckInv == ASSUME IInv, SendAck PROVE IInv'
<1> USE DEF sndVars, ctlVars, updVars, rcvVars, readVars, SendAck
<1> DEFINE e == [add |-> sendUpdate, from |-> credited - sendUpdate, to |-> credited]
<1>0. /\ credited \in Nat /\ sendUpdate \in Nat /\ returned \in Nat /\ returned <= credited - sendUpdate
      /\ acks \in Seq(Ack) /\ IsLine(acks, Ack)
  BY MarkTypes, Lines DEF IInv, Marks, TypeOK, SenderTypes, TunnelTypes, ReceiverTypes, ReaderTypes, HistoryTypes
<1>1. e \in Ack /\ e.from = credited - sendUpdate /\ e.to = credited /\ e.add = sendUpdate
  BY <1>0 DEF Ack
<1>2. Segment(acks', returned, credited) /\ acks' \in Seq(Ack)
  <2>1. CASE ended \/ broken
    BY <2>1, <1>0, SegmentWiden DEF IInv, Queues
  <2>2. CASE ~(ended \/ broken)
    <3>1. acks' = Append(acks, e) BY <2>2
    <3> HIDE DEF e
    <3>2. e.from \in Int /\ e.to \in Int /\ e.from <= e.to BY <1>0, <1>1
    <3>3. Segment(acks, returned, credited - sendUpdate) BY DEF IInv, Queues
    <3>4. Segment(Append(acks, e), returned, credited)
      BY <1>0, <1>1, <3>2, <3>3, SegmentAppend
    <3> QED BY <3>1, <3>4, <1>0, <1>1, AppendFacts
  <2> QED BY <2>1, <2>2
<1>3. ~ended /\ ~broken => Tight(acks', returned, credited)
  <2>1. SUFFICES ASSUME ~ended, ~broken PROVE Tight(Append(acks, e), returned, credited)
    OBVIOUS
  <2>2. Tight(acks, returned, e.from) BY <2>1, <1>1 DEF IInv, Queues
  <2> HIDE DEF e
  <2> QED BY <2>2, <1>0, <1>1, TightAppend
<1>4. AcksMeasured(acks')
  <2>1. CASE ended \/ broken BY <2>1 DEF IInv, Measured
  <2>2. CASE ~(ended \/ broken)
    <3>1. acks' = Append(acks, e) /\ AcksMeasured(acks) BY <2>2 DEF IInv, Measured
    <3> HIDE DEF e
    <3> QED BY <3>1, <1>0, <1>1, AcksMeasuredAppend
  <2> QED BY <2>1, <2>2
<1> HIDE DEF e
<1>5. TypeOK'
  <2>1. rd' \in {"ready", "wait", "woken", "update", "failed", "done"} /\ sendUpdate' \in Nat
    OBVIOUS
  <2>2. UNCHANGED <<sndVars, ctlVars, updVars, rcvVars, frames, sent, windowUpdate, msgLen, buf, readErr,
                    delivered, consumed, credited>>
    OBVIOUS
  <2> HIDE DEF SendAck
  <2>3. SenderTypes' /\ TunnelTypes' BY <2>2, <1>2 DEF IInv, TypeOK, SenderTypes, TunnelTypes
  <2>4. ReceiverTypes' /\ ReaderTypes' BY <2>1, <2>2 DEF IInv, TypeOK, ReceiverTypes, ReaderTypes
  <2>5. HistoryTypes' BY <2>2 DEF IInv, TypeOK, HistoryTypes
  <2> QED BY <2>3, <2>4, <2>5 DEF TypeOK
<1>6. Mutex' /\ Sending' /\ Pending' = Pending /\ written' = written BY SenderSame
<1>7. NoLostWakeup' BY WakeupSame
<1>8. Measured' /\ Windows' BY <1>4 DEF IInv, Measured, Windows
<1>9. Marks' BY <1>0, <1>6 DEF IInv, Marks
<1>10. Density' /\ HeldBack' BY <1>6 DEF IInv, Density, HeldBack
<1>11. Queues'
  <2>1. credited' - sendUpdate' = credited BY <1>0
  <2> QED BY <1>2, <1>3, <1>6, <2>1 DEF IInv, Queues
<1>12. ReaderAwake' /\ ~rejected' BY DEF IInv, ReaderAwake
<1> QED BY <1>5, <1>6, <1>7, <1>8, <1>9, <1>10, <1>11, <1>12 DEF IInv

\* The first stretch of a queue lies within the bounds of the queue.
LEMMA HeadWithin ==
  ASSUME NEW R, NEW s \in Seq(R), s # <<>>, NEW lo, NEW hi, Segment(s, lo, hi)
  PROVE  lo <= Head(s).from /\ Head(s).from <= Head(s).to /\ Head(s).to <= hi
  BY TailFacts DEF Segment

\* The addition in updateWindow keeps the invariant: the window does not wrap.
LEMMA AddWindowInv == ASSUME IInv, AddWindow PROVE IInv'
<1> USE DEF sndVars, ctlVars, updVars, rcvVars, readVars
<1> DEFINE a == Head(acks)
<1>0. /\ acks \in Seq(Ack) /\ acks # <<>> /\ acks' = Tail(acks) /\ IsLine(acks, Ack)
      /\ a \in Ack /\ a.add \in Nat /\ a.from \in Nat /\ a.to \in Nat
  <2>1. acks \in Seq(Ack) /\ acks # <<>> /\ acks' = Tail(acks) /\ IsLine(acks, Ack)
    BY Lines DEF AddWindow, IInv, TypeOK, TunnelTypes
  <2>2. a \in Ack BY <2>1, TailFacts
  <2> QED BY <2>1, <2>2 DEF Ack
<1> HIDE DEF a
<1>1. /\ a.to - a.from = a.add /\ AcksMeasured(acks')
      /\ returned <= a.from /\ a.to <= credited - sendUpdate
  <2>1. Segment(acks, returned, credited - sendUpdate) /\ AcksMeasured(acks)
    BY DEF IInv, Queues, Measured
  <2> QED BY <2>1, <1>0, AcksMeasuredTail, HeadWithin DEF a
<1>d. PICK d \in Nat, lo \in Nat, hi \in Nat : d = a.add /\ lo = a.from /\ hi = a.to
  BY <1>0
<1>e. hi - lo = d /\ returned <= lo /\ hi <= credited - sendUpdate
  BY <1>1, <1>d
<1>2. returned' = returned + d /\ sndWindow' = sndWindow + d
  <2>1. sndWindow + d <= Window /\ ~(sndWindow + d >= Uint)
    BY ONLY <1>e, MarkTypes, MarkOrder, Constants, IInv, d \in Nat, lo \in Nat, hi \in Nat
  <2>2. CASE d = 0 BY <2>2, <1>d, MarkTypes DEF AddWindow, a
  <2>3. CASE d # 0 BY <2>1, <2>3, <1>d DEF AddWindow, a, Add32
  <2> QED BY <2>2, <2>3
<1>3. /\ UNCHANGED <<mu, pc, msg, win, chunk, windowUpdates, charged, ctlVars, rcvVars, readVars, frames, sent>>
      /\ prevWindow' \in Nat \cup {NoUpdate}
      /\ (prevWindow' = prevWindow /\ sndWindow' = sndWindow) \/ prevWindow' = sndWindow
      /\ prevWindow = NoUpdate
  BY MarkTypes DEF AddWindow, IInv, TypeOK, SenderTypes
<1>4. returned' <= hi /\ returned' \in Nat /\ sndWindow' \in 0 .. Window
  BY <1>e, <1>2, MarkTypes, MarkOrder, Constants
<1>5. acks' \in Seq(Ack) BY <1>0, TailFacts
<1>6. TypeOK'
  <2>1. SenderTypes' /\ TunnelTypes' BY <1>3, <1>4, <1>5 DEF IInv, TypeOK, SenderTypes, TunnelTypes
  <2>2. ReceiverTypes' /\ ReaderTypes' BY <1>3 DEF IInv, TypeOK, ReceiverTypes, ReaderTypes
  <2>3. HistoryTypes' BY <1>3, <1>4 DEF IInv, TypeOK, HistoryTypes
  <2> QED BY <2>1, <2>2, <2>3 DEF TypeOK
<1>7. Mutex' /\ Sending' /\ Pending' = Pending /\ written' = written BY <1>3, SenderSame
<1>8. NoLostWakeup'
  <2> SUFFICES ASSUME NEW t \in Threads, (pc[t] = "wait" /\ sndWindow >= needed(t))'
               PROVE  (windowUpdates \/ (prevWindow # NoUpdate /\ prevWindow <= msgOverhead))'
    BY DEF NoLostWakeup
  <2>1. pc[t] = "wait" /\ needed(t)' = needed(t) BY <1>3 DEF needed, overhead, remaining
  <2>2. CASE sndWindow >= needed(t)
    BY <2>1, <2>2, <1>3 DEF IInv, NoLostWakeup
  <2>3. CASE sndWindow < needed(t)
    <3>1. needed(t) \in Nat /\ needed(t) <= msgOverhead + 1 BY ThreadFacts DEF IInv
    <3>2. sndWindow \in Nat /\ sndWindow <= msgOverhead /\ sndWindow # NoUpdate
      BY <3>1, <2>3, MarkTypes, Constants DEF NoUpdate
    <3>3. sndWindow' >= needed(t) BY <2>1
    <3>4. sndWindow' # sndWindow BY <3>1, <3>2, <3>3, <2>3
    <3> QED BY <3>2, <3>4, <1>3
  <2> QED BY <2>2, <2>3, MarkTypes, ThreadFacts DEF IInv
<1>9. Measured' BY <1>1, <1>3 DEF IInv, Measured
<1>10. Windows'
  BY <1>2, <1>3, MarkTypes, MarkOrder, Constants DEF Windows
<1>11. Marks' BY <1>e, <1>3, <1>4, <1>7, MarkTypes DEF IInv, Marks
<1>12. Density' /\ HeldBack' BY <1>3, <1>7 DEF IInv, Density, HeldBack
<1>13. Queues'
  <2>1. Segment(acks', returned', credited - sendUpdate)
    <3>1. Segment(acks, returned, credited - sendUpdate) BY DEF IInv, Queues
    <3>2. credited - sendUpdate \in Int /\ returned \in Int /\ returned' \in Int BY MarkTypes, <1>4
    <3> QED BY <3>1, <3>2, <1>0, <1>d, <1>4, SegmentTail DEF a
  <2>2. ~ended /\ ~broken => Tight(acks', returned', credited - sendUpdate)
    <3> SUFFICES ASSUME ~ended, ~broken PROVE Tight(acks', returned', credited - sendUpdate)
      OBVIOUS
    <3>1. Tight(acks, returned, credited - sendUpdate) BY DEF IInv, Queues
    <3>2. Tight(acks', a.to, credited - sendUpdate) /\ a.from = returned
      BY <3>1, <1>0, TightTail DEF a
    <3>3. returned' = hi BY <3>2, <1>d, <1>e, <1>2, MarkTypes
    <3> QED BY <3>2, <3>3, <1>d
  <2> QED BY <2>1, <2>2, <1>3, <1>7 DEF IInv, Queues
<1>14. ReaderAwake' /\ ~rejected' BY <1>3 DEF IInv, ReaderAwake
<1> QED BY <1>6, <1>7, <1>8, <1>9, <1>10, <1>11, <1>12, <1>13, <1>14 DEF IInv

\* The token that updateWindow leaves keeps the invariant.
LEMMA SignalSenderInv == ASSUME IInv, SignalSender PROVE IInv'
<1> USE DEF sndVars, ctlVars, updVars, rcvVars, readVars, SignalSender
<1>1. TypeOK'
  BY DEF IInv, TypeOK, SenderTypes, TunnelTypes, ReceiverTypes, ReaderTypes, HistoryTypes
<1>2. Mutex' /\ Sending' /\ Pending' = Pending /\ written' = written BY SenderSame
<1>3. NoLostWakeup'
  BY DEF IInv, NoLostWakeup, TooSmall, needed, overhead, remaining
<1>4. Measured' /\ Windows' BY DEF IInv, Measured, Windows
<1>5. Marks' /\ Queues' /\ Density' /\ HeldBack' BY <1>2 DEF IInv, Marks, Queues, Density, HeldBack
<1>6. ReaderAwake' /\ ~rejected' BY DEF IInv, ReaderAwake
<1> QED BY <1>1, <1>2, <1>3, <1>4, <1>5, <1>6 DEF IInv

\* What the first frame of the tunnel is to the receiver.
LEMMA NextFrameFits ==
  ASSUME IInv, frames # <<>>, ~closed, ~broken
  PROVE  /\ Head(frames) \in Frame /\ charge(Head(frames)) \in Nat
         /\ Head(frames).from = accepted /\ Head(frames).to = accepted + charge(Head(frames))
         /\ charge(Head(frames)) <= rcvWindow
         /\ accepted + charge(Head(frames)) <= written
<1> DEFINE f == Head(frames)
<1>1. frames \in Seq(Frame) /\ Segment(frames, accepted, written) /\ Tight(frames, accepted, written)
      /\ FramesMeasured(frames)
  BY DEF IInv, TypeOK, TunnelTypes, Queues, Measured
<1>2. f \in Frame BY <1>1, TailFacts
<1>3. f.from = accepted BY <1>1, TightTail
<1>4. f.from <= f.to /\ f.to <= written BY <1>1, HeadWithin
<1>5. f.to - f.from = charge(f) BY <1>1, FramesMeasuredTail
<1> HIDE DEF f
<1>6. PICK hi \in Nat : hi = f.to BY <1>2, FrameFields
<1>7. hi - accepted = charge(f) /\ accepted <= hi /\ hi <= charged - Pending
  BY <1>3, <1>4, <1>5, <1>6 DEF written
<1>8. PICK k \in Nat : k = hi - accepted
  BY <1>7, MarkTypes
<1>9. k <= rcvWindow /\ hi = accepted + k
  <2>1. accepted <= hi /\ hi <= charged - Pending BY <1>7
  <2>2. hi = accepted + k BY <1>8, MarkTypes
  <2>3. rcvWindow - k >= sndWindow
    BY ONLY <2>1, <2>2, MarkTypes, MarkOrder, Constants, IInv, k \in Nat, hi \in Nat
  <2> QED BY <2>2, <2>3, MarkTypes
<1>10. charge(f) = k BY <1>7, <1>8
<1> QED BY <1>2, <1>3, <1>6, <1>7, <1>9, <1>10 DEF f, written

\* accept keeps the invariant: the frame fits, or the stream is closed.
LEMMA AcceptInv == ASSUME IInv, accept PROVE IInv'
<1> USE DEF sndVars, ctlVars, updVars, rcvVars, readVars
<1> DEFINE f == Head(frames)
           c == charge(f)
<1>0. /\ frames \in Seq(Frame) /\ items \in Seq(Frame) /\ frames # <<>> /\ frames' = Tail(frames) /\ ~broken
      /\ IsLine(frames, Frame) /\ IsLine(items, Frame) /\ f \in Frame
      /\ f.from \in Int /\ f.to \in Int
      /\ Segment(frames, accepted, written) /\ Segment(items, consumed, accepted)
  <2>1. /\ frames \in Seq(Frame) /\ items \in Seq(Frame) /\ frames # <<>> /\ frames' = Tail(frames)
        /\ IsLine(frames, Frame) /\ IsLine(items, Frame) /\ ~broken
    BY Lines DEF accept, IInv, TypeOK, TunnelTypes, ReceiverTypes
  <2>2. f \in Frame BY <2>1, TailFacts
  <2>3. Segment(frames, accepted, written) /\ Segment(items, consumed, accepted) BY DEF IInv, Queues
  <2> QED BY <2>1, <2>2, <2>3, FrameFields
<1>1. frames' \in Seq(Frame) BY <1>0, TailFacts
<1>2. /\ UNCHANGED <<sndVars, ctlVars, updVars, acks, sent, sendUpdate, windowUpdate, msgLen, buf, readErr,
                     delivered, consumed, credited>>
      /\ UNCHANGED <<abandoned, closed, cancelled>>
  BY DEF accept
<1>3. Mutex' /\ Sending' /\ Pending' = Pending /\ written' = written BY <1>2, SenderSame
<1>4. NoLostWakeup' BY <1>2, WakeupSame
<1>5. FramesMeasured(frames') BY <1>0, FramesMeasuredTail DEF IInv, Measured
<1>6. msgOverhead > 0 => Dense(frames', written) /\ Positive(frames')
  BY <1>0, DenseTail, PositiveTail DEF IInv, Density
<1>7. CASE closed
  <2>1. UNCHANGED <<rcvVars, rd>> BY <1>7 DEF accept
  <2>2. TypeOK'
    BY <2>1, <1>1, <1>2 DEF IInv, TypeOK, SenderTypes, TunnelTypes, ReceiverTypes, ReaderTypes, HistoryTypes
  <2>3. Measured' /\ Windows' BY <2>1, <1>2, <1>5 DEF IInv, Measured, Windows
  <2>4. Marks' /\ Density' /\ HeldBack' BY <2>1, <1>2, <1>3, <1>6 DEF IInv, Marks, Density, HeldBack
  <2>5. Segment(frames', accepted, written)
    <3>1. accepted <= f.to
      <4>1. accepted <= f.from /\ f.from <= f.to BY <1>0, HeadWithin
      <4>2. PICK lo \in Int, hi \in Int : lo = f.from /\ hi = f.to BY <1>0
      <4>3. accepted <= lo /\ lo <= hi BY <4>1, <4>2
      <4>4. accepted <= hi BY <4>3, MarkTypes
      <4> QED BY <4>4, <4>2
    <3> QED BY <3>1, <1>0, MarkTypes, SegmentTail
  <2>6. Queues' BY <2>1, <2>5, <1>2, <1>3, <1>7 DEF IInv, Queues
  <2>7. ReaderAwake' /\ ~rejected' BY <2>1, <1>2 DEF IInv, ReaderAwake
  <2> QED BY <2>2, <2>3, <2>4, <2>6, <2>7, <1>3, <1>4 DEF IInv
<1>8. CASE ~closed
  <2>1. /\ c \in Nat /\ f.from = accepted /\ f.to = accepted + c /\ c <= rcvWindow /\ accepted + c <= written
    BY <1>0, <1>8, NextFrameFits
  <2>2. /\ rcvWindow' = Sub32(rcvWindow, c) /\ accepted' = accepted + c /\ items' = Append(items, f)
        /\ WakeReader /\ UNCHANGED <<ended, rejected>>
    BY <1>8, <2>1 DEF accept, Fits, Enqueue
  <2> HIDE DEF f, c
  <2>k. PICK k \in Nat : k = c BY <2>1
  <2>l. k <= rcvWindow /\ accepted + k <= written BY <2>1, <2>k
  <2>3. rcvWindow' = rcvWindow - k /\ accepted' = accepted + k BY <2>k, <2>l, <2>2, MarkTypes DEF Sub32
  <2>4. items' \in Seq(Frame) /\ items' # <<>> BY <1>0, <2>2, AppendFacts
  <2>5. rd' \in {"ready", "wait", "woken", "update", "failed", "done"}
    BY <2>2 DEF WakeReader, IInv, TypeOK, ReaderTypes
  <2>6. rcvWindow' \in 0 .. Window /\ accepted' \in Nat BY <2>l, <2>3, MarkTypes, Constants
  <2>7. TypeOK'
    <3>1. SenderTypes' /\ TunnelTypes' BY <1>1, <1>2 DEF IInv, TypeOK, SenderTypes, TunnelTypes
    <3>2. ReceiverTypes' BY <1>2, <2>2, <2>4, <2>6 DEF IInv, TypeOK, ReceiverTypes
    <3>3. ReaderTypes' /\ HistoryTypes' BY <1>2, <2>5, <2>6 DEF IInv, TypeOK, ReaderTypes, HistoryTypes
    <3> QED BY <3>1, <3>2, <3>3 DEF TypeOK
  <2>8. Measured'
    <3>1. f.to - f.from = charge(f) BY <2>1, MarkTypes DEF c
    <3>2. FramesMeasured(items') BY <3>1, <2>2, <1>0, FramesMeasuredAppend DEF IInv, Measured
    <3> QED BY <3>2, <1>2, <1>5 DEF IInv, Measured
  <2>9. Windows' BY <1>2, <2>3, MarkTypes, MarkOrder, Constants DEF Windows
  <2>10. Marks'
    <3>1. rd' # "update" => sendUpdate = 0 BY <2>2 DEF WakeReader, IInv, Marks
    <3> QED BY <3>1, <1>2, <1>3, <2>l, <2>3, MarkTypes, MarkOrder DEF Marks
  <2>11. HeldBack' BY <2>4 DEF HeldBack
  <2>12. Segment(frames', accepted', written) /\ Tight(frames', accepted', written)
    <3>1. f.to = accepted' /\ accepted' \in Int BY <2>1, <2>2, MarkTypes
    <3>2. Segment(frames', accepted', written) BY <3>1, <1>0, MarkTypes, SegmentTail DEF f
    <3>3. Tight(frames, accepted, written) BY <1>0, <1>8 DEF IInv, Queues
    <3>4. Tight(frames', f.to, written) BY <3>3, <1>0, TightTail DEF f
    <3> QED BY <3>1, <3>2, <3>4
  <2>13. Segment(items', consumed, accepted')
    <3>1. consumed <= accepted /\ accepted <= f.from /\ f.from <= f.to /\ f.to <= accepted' /\ accepted' \in Int
      <4>1. f.from = accepted /\ f.to = accepted' BY <2>1, <2>2
      <4>2. accepted <= accepted' BY <2>3, MarkTypes
      <4> QED BY <4>1, <4>2, <2>6, MarkTypes, MarkOrder
    <3>2. Segment(Append(items, f), consumed, accepted')
      <4> HIDE DEF f
      <4>1. accepted \in Int /\ consumed \in Int /\ accepted' \in Int BY <2>6, MarkTypes
      <4>2. f \in Frame /\ f.from \in Int /\ f.to \in Int BY <1>0
      <4> QED BY <3>1, <4>1, <4>2, <1>0, SegmentAppend
    <3> QED BY <3>2, <2>2
  <2>14. ~cancelled => Tight(items', consumed, accepted')
    <3> SUFFICES ASSUME ~cancelled PROVE Tight(Append(items, f), consumed, accepted')
      BY <2>2
    <3>1. Tight(items, consumed, f.from) BY <2>1 DEF IInv, Queues
    <3>2. Tight(Append(items, f), consumed, f.to) BY <3>1, <1>0, TightAppend DEF f
    <3> QED BY <3>2, <2>1, <2>2
  <2>15. Queues' BY <1>2, <1>3, <2>2, <2>12, <2>13, <2>14 DEF IInv, Queues
  <2>16. Density'
    <3> SUFFICES ASSUME msgOverhead > 0 PROVE Dense(items', accepted')
      BY <1>3, <1>6 DEF Density
    <3>1. Dense(frames, written) /\ Dense(items, accepted) BY DEF IInv, Density
    <3>2. f.from < f.to BY <1>0, PositiveTail DEF IInv, Density, f
    <3>3. f.from = accepted /\ f.to = accepted' /\ f \in Frame /\ f.from \in Int BY <1>0, <2>1, <2>2
    <3>4. accepted <= f.from /\ f.from < accepted' /\ accepted \in Int /\ accepted' \in Int
      BY <3>2, <3>3, <2>6, MarkTypes
    <3>5. Dense(Append(items, f), accepted')
      BY <3>1, <3>3, <3>4, <1>0, DenseAppend
    <3> QED BY <3>5, <2>2
  <2>17. ReaderAwake' /\ ~rejected' BY <2>2 DEF IInv, ReaderAwake, WakeReader
  <2> QED BY <2>7, <2>8, <2>9, <2>10, <2>11, <2>15, <2>16, <2>17, <1>3, <1>4 DEF IInv
<1> QED BY <1>7, <1>8

\* The types of what readMsgLocked makes of a frame.
LEMMA ReadItemTypes ==
  ASSUME IInv, NEW f \in Frame, ReadItem(f)
  PROVE  /\ readErr' \in BOOLEAN /\ msgLen' \in Nat \cup {NoMessage}
         /\ buf' \in [id : Nat, len : Nat] /\ delivered' \in Seq([id : Nat, len : Nat])
<1>1. /\ f.len \in Nat /\ f.id \in Nat /\ f.size \in Nat
      /\ msgLen \in Nat \cup {NoMessage} /\ buf \in [id : Nat, len : Nat]
      /\ delivered \in Seq([id : Nat, len : Nat])
  BY FrameFields DEF IInv, TypeOK, ReaderTypes, HistoryTypes
<1>2. buf.id \in Nat /\ buf.len \in Nat BY <1>1
<1>3. Extend(f) \in [id : Nat, len : Nat] BY <1>1, <1>2 DEF Extend
<1>4. Empty \in [id : Nat, len : Nat] BY DEF Empty
<1>5. Expect(f) \in Nat \cup {NoMessage} BY <1>1 DEF Expect
<1>6. readErr' \in BOOLEAN BY Zenon DEF ReadItem, Malformed
<1>7. msgLen' \in Nat \cup {NoMessage} /\ buf' \in [id : Nat, len : Nat]
  BY <1>3, <1>4, <1>5 DEF ReadItem
<1>8. delivered' \in Seq([id : Nat, len : Nat])
  <2>1. delivered' = delivered \/ delivered' = Append(delivered, Extend(f)) BY DEF ReadItem
  <2>2. Append(delivered, Extend(f)) \in Seq([id : Nat, len : Nat]) BY <1>1, <1>3, AppendFacts
  <2> QED BY <2>1, <2>2, <1>1
<1> QED BY <1>6, <1>7, <1>8

\* dequeue keeps the invariant: what it credits it has consumed, and what it holds back is little.
LEMMA DequeueInv == ASSUME IInv, dequeue PROVE IInv'
<1> USE DEF sndVars, ctlVars, updVars, rcvVars, readVars
<1>0. /\ UNCHANGED <<abandoned, ended, closed, cancelled, rejected, accepted>>
      /\ UNCHANGED <<sndVars, ctlVars, updVars, frames, acks, sent>>
      /\ rd \in {"ready", "woken"} /\ sendUpdate = 0
  BY DEF dequeue, IInv, Marks
<1>1. Mutex' /\ Sending' /\ Pending' = Pending /\ written' = written BY <1>0, SenderSame
<1>2. NoLostWakeup' BY <1>0, WakeupSame
<1>3. CASE cancelled \/ items = <<>>
  <2>1. /\ UNCHANGED <<rcvWindow, items, sendUpdate, windowUpdate, msgLen, buf, readErr, delivered, consumed,
                       credited>>
        /\ rd' = IF cancelled \/ closed THEN "done" ELSE "wait"
    BY <1>3 DEF dequeue
  <2>2. rd' \in {"ready", "wait", "woken", "update", "failed", "done"} BY <2>1
  <2>3. TypeOK'
    <3>1. SenderTypes' /\ TunnelTypes' BY <1>0 DEF IInv, TypeOK, SenderTypes, TunnelTypes
    <3>2. ReceiverTypes' /\ ReaderTypes' BY <1>0, <2>1, <2>2 DEF IInv, TypeOK, ReceiverTypes, ReaderTypes
    <3>3. HistoryTypes' BY <1>0, <2>1 DEF IInv, TypeOK, HistoryTypes
    <3> QED BY <3>1, <3>2, <3>3 DEF TypeOK
  <2>4. Measured' /\ Windows' BY <1>0, <2>1 DEF IInv, Measured, Windows
  <2>5. Marks' BY <1>0, <1>1, <2>1 DEF IInv, Marks
  <2>6. Queues' /\ Density' /\ HeldBack' BY <1>0, <1>1, <2>1 DEF IInv, Queues, Density, HeldBack
  <2>7. ReaderAwake' /\ ~rejected' BY <1>0, <1>3, <2>1 DEF IInv, ReaderAwake
  <2> QED BY <1>1, <1>2, <2>3, <2>4, <2>5, <2>6, <2>7 DEF IInv
<1>4. CASE ~cancelled /\ items # <<>>
  <2> DEFINE f == Head(items)
  <2>1. TakeItem(f) /\ ReadItem(f) /\ items' = Tail(items) BY <1>4 DEF dequeue, TakeItem
  <2>2. /\ items \in Seq(Frame) /\ IsLine(items, Frame) /\ f \in Frame /\ items' \in Seq(Frame)
        /\ Segment(items, consumed, accepted) /\ Tight(items, consumed, accepted)
        /\ FramesMeasured(items)
    <3>1. /\ items \in Seq(Frame) /\ IsLine(items, Frame)
          /\ Segment(items, consumed, accepted) /\ Tight(items, consumed, accepted) /\ FramesMeasured(items)
      BY <1>4, Lines DEF IInv, TypeOK, ReceiverTypes, Queues, Measured
    <3> QED BY <3>1, <1>4, <2>1, TailFacts
  <2>3. f.from = consumed /\ f.from <= f.to /\ f.to <= accepted /\ f.to - f.from = charge(f)
    BY <1>4, <2>2, TightTail, HeadWithin, FramesMeasuredTail
  <2>4. Segment(items', f.to, accepted) /\ Tight(items', f.to, accepted) /\ FramesMeasured(items')
    <3>1. f.to \in Int /\ f.to <= f.to BY <2>2, FrameFields
    <3>2. Segment(items', f.to, accepted) BY <3>1, <1>4, <2>1, <2>2, MarkTypes, SegmentTail
    <3> QED BY <3>2, <1>4, <2>1, <2>2, TightTail, FramesMeasuredTail
  <2>5. msgOverhead > 0 => Dense(items', accepted)
    BY <1>4, <2>1, <2>2, DenseTail DEF IInv, Density
  <2> HIDE DEF f
  <2>6. PICK hi \in Nat : hi = f.to BY <2>2, FrameFields
  <2>7. PICK k \in Nat : k = hi - consumed
    BY <2>3, <2>6, MarkTypes
  <2>8. charge(f) = k BY <2>3, <2>6, <2>7
  <2>9. hi = consumed + k /\ consumed + k <= accepted BY <2>3, <2>6, <2>7, MarkTypes
  <2> DEFINE n == windowUpdate + k
  <2>10. n \in Nat /\ Add32(windowUpdate, charge(f)) = n /\ rcvWindow + n <= Window
         /\ Add32(rcvWindow, n) = rcvWindow + n
    <3>1. n \in Nat /\ rcvWindow + n <= Window /\ n < Uint
      BY <2>9, MarkTypes, MarkOrder, Constants
    <3> QED BY <3>1, <2>8, MarkTypes, Constants DEF Add32
  <2> HIDE DEF n
  <2>11. /\ consumed' = consumed + k
         /\ IF doSend(n) THEN /\ rcvWindow' = rcvWindow + n /\ credited' = credited + n
                             /\ sendUpdate' = n /\ windowUpdate' = 0
            ELSE windowUpdate' = n /\ UNCHANGED <<rcvWindow, credited, sendUpdate>>
    BY <2>1, <2>8, <2>10 DEF TakeItem
  <2>12. rd' \in {"update", "failed", "ready"} /\ (doSend(n) => rd' = "update")
    BY <1>4, <2>8, <2>10 DEF dequeue, f
  <2>13. n = windowUpdate + k BY DEF n
  <2>14. TypeOK'
    <3>1. SenderTypes' /\ TunnelTypes' BY <1>0 DEF IInv, TypeOK, SenderTypes, TunnelTypes
    <3>2. rcvWindow' \in 0 .. Window /\ credited' \in Nat /\ sendUpdate' \in Nat /\ windowUpdate' \in Nat
          /\ consumed' \in Nat
      <4>1. CASE doSend(n) BY <4>1, <2>10, <2>11, MarkTypes, Constants
      <4>2. CASE ~doSend(n) BY <4>2, <2>10, <2>11, MarkTypes, Constants
      <4> QED BY <4>1, <4>2
    <3>3. ReceiverTypes' BY <3>2, <1>0, <2>2 DEF IInv, TypeOK, ReceiverTypes
    <3>4. ReaderTypes' BY <3>2, <2>1, <2>2, <2>12, ReadItemTypes DEF ReaderTypes
    <3>5. HistoryTypes' BY <3>2, <1>0, <2>1, <2>2, ReadItemTypes DEF IInv, TypeOK, HistoryTypes
    <3> QED BY <3>1, <3>3, <3>4, <3>5 DEF TypeOK
  <2>15. Measured' BY <1>0, <2>4 DEF IInv, Measured
  <2>16. Windows'
    <3>1. CASE doSend(n) BY <3>1, <1>0, <2>10, <2>11, <2>13, MarkTypes, MarkOrder, Constants DEF Windows
    <3>2. CASE ~doSend(n) BY <3>2, <1>0, <2>10, <2>11, <2>13, MarkTypes, MarkOrder, Constants DEF Windows
    <3> QED BY <3>1, <3>2
  <2>17. credited' - sendUpdate' = credited
    <3>1. CASE doSend(n) BY <3>1, <2>10, <2>11, MarkTypes
    <3>2. CASE ~doSend(n) BY <3>2, <1>0, <2>11, MarkTypes
    <3> QED BY <3>1, <3>2
  <2>18. Marks'
    <3>1. rd' # "update" => sendUpdate' = 0 BY <1>0, <2>11, <2>12
    <3>2. credited' <= consumed'
      <4>1. CASE doSend(n) BY <4>1, <2>10, <2>11, <2>13, MarkTypes, MarkOrder
      <4>2. CASE ~doSend(n) BY <4>2, <2>11, MarkTypes, MarkOrder
      <4> QED BY <4>1, <4>2
    <3>3. consumed' <= accepted BY <2>9, <2>11
    <3>4. returned <= credited /\ accepted <= written BY <1>0, MarkTypes DEF IInv, Marks
    <3> QED BY <3>1, <3>2, <3>3, <3>4, <1>0, <1>1, <2>17 DEF Marks
  <2>19. Queues'
    <3>1. consumed' = f.to BY <2>6, <2>9, <2>11
    <3>2. credited - sendUpdate = credited BY <1>0, MarkTypes
    <3> QED BY <3>1, <3>2, <1>0, <1>1, <2>4, <2>17 DEF IInv, Queues
  <2>20. Density' BY <1>0, <1>1, <2>5 DEF IInv, Density
  <2>21. HeldBack'
    <3>1. CASE doSend(n) BY <3>1, <2>11, Constants DEF HeldBack
    <3>2. CASE ~doSend(n)
      <4>1. n < minUpdateSize /\ (msgOverhead = 0 \/ n = 0 \/ rcvWindow > msgOverhead)
        BY <3>2, <2>10, MarkTypes, Constants DEF doSend
      <4> QED BY <3>2, <4>1, <2>11 DEF HeldBack
    <3> QED BY <3>1, <3>2
  <2>22. ReaderAwake' /\ ~rejected' BY <1>0, <2>12 DEF IInv, ReaderAwake
  <2> QED BY <1>1, <1>2, <2>14, <2>15, <2>16, <2>18, <2>19, <2>20, <2>21, <2>22 DEF IInv
<1> QED BY <1>3, <1>4

\* A thread in send is there alone, and holds sender.mu.
LEMMA Alone ==
  ASSUME IInv, NEW t \in Threads, pc[t] # "idle"
  PROVE  mu = t /\ \A u \in Threads : u # t => pc[u] = "idle"
  BY DEF IInv, Mutex

\* What a step of send keeps when it neither charges nor writes.
LEMMA ReceiverSame ==
  ASSUME IInv, written' = written, UNCHANGED <<sndWindow, charged, returned, broken, rcvVars, readVars, frames, acks>>
  PROVE  Measured' /\ Windows' /\ Marks' /\ Queues' /\ Density' /\ HeldBack' /\ ReaderAwake' /\ ~rejected'
<1> USE DEF rcvVars, readVars
<1>1. Measured' /\ Windows' BY DEF IInv, Measured, Windows
<1>2. Marks' /\ Queues' BY DEF IInv, Marks, Queues
<1>3. Density' /\ HeldBack' BY DEF IInv, Density, HeldBack
<1>4. ReaderAwake' /\ ~rejected' BY DEF IInv, ReaderAwake
<1> QED BY <1>1, <1>2, <1>3, <1>4

\* Entering send keeps the invariant.
LEMMA SendInv == ASSUME IInv, NEW t \in Threads, NEW n \in Sizes, send(t, n) PROVE IInv'
<1> USE DEF sndVars, ctlVars, updVars, rcvVars, readVars, send, Unlocked
<1>1. n \in Nat /\ Len(sent) + 1 \in Nat BY FlowAssumption DEF IInv, TypeOK, HistoryTypes
<1>2. pc \in [Threads -> {"idle", "load", "wait", "cas", "write"}]
      /\ msg \in [Threads -> [id : Nat, size : Nat, lo : Nat, first : BOOLEAN]] /\ sent \in Seq(Nat)
  BY DEF IInv, TypeOK, SenderTypes, HistoryTypes
<1>3. \A u \in Threads : u # t => pc'[u] = pc[u] /\ msg'[u] = msg[u] BY <1>2
<1>4. pc'[t] = "load" /\ msg'[t] = [id |-> Len(sent) + 1, size |-> n, lo |-> 0, first |-> TRUE] BY <1>2
<1>5. TypeOK'
  <2>1. mu' \in Threads \cup {NoThread} OBVIOUS
  <2>2. pc' \in [Threads -> {"idle", "load", "wait", "cas", "write"}] BY <1>2
  <2>3. msg' \in [Threads -> [id : Nat, size : Nat, lo : Nat, first : BOOLEAN]] BY <1>1, <1>2
  <2>4. sent' \in Seq(Nat) BY <1>1, <1>2, AppendFacts
  <2>5. SenderTypes' /\ TunnelTypes' BY <2>1, <2>2, <2>3 DEF IInv, TypeOK, SenderTypes, TunnelTypes
  <2>6. ReceiverTypes' /\ ReaderTypes' BY DEF IInv, TypeOK, ReceiverTypes, ReaderTypes
  <2>7. HistoryTypes' BY <2>4 DEF IInv, TypeOK, HistoryTypes
  <2> QED BY <2>5, <2>6, <2>7 DEF TypeOK
<1>6. \A u \in Threads : pc[u] = "idle" BY Constants DEF IInv, Mutex
<1>7. Mutex' BY <1>3, <1>4, <1>6 DEF Mutex
<1>8. Sending' BY <1>1, <1>3, <1>4, <1>6 DEF Sending
<1>9. written' = written BY <1>4, Constants DEF Pending, written
<1>10. NoLostWakeup' BY <1>3, <1>4, <1>6 DEF NoLostWakeup
<1>11. Measured' /\ Windows' /\ Marks' /\ Queues' /\ Density' /\ HeldBack' /\ ReaderAwake' /\ ~rejected'
  BY <1>9, ReceiverSame
<1> QED BY <1>5, <1>7, <1>8, <1>10, <1>11 DEF IInv

\* Loading the window keeps the invariant: a thread that will wait really has too little.
LEMMA LoadWindowInv == ASSUME IInv, NEW t \in Threads, LoadWindow(t) PROVE IInv'
<1> USE DEF sndVars, ctlVars, updVars, rcvVars, readVars, LoadWindow
<1>1. pc \in [Threads -> {"idle", "load", "wait", "cas", "write"}] /\ win \in [Threads -> Nat]
  BY DEF IInv, TypeOK, SenderTypes
<1>2. \A u \in Threads : u # t => pc'[u] = "idle" BY <1>1, Alone
<1>3. win'[t] = sndWindow /\ pc'[t] = IF sndWindow < needed(t) THEN "wait" ELSE "cas" BY <1>1
<1>4. mu = t /\ pc[t] = "load" BY Alone
<1>5. TypeOK'
  <2>1. pc' \in [Threads -> {"idle", "load", "wait", "cas", "write"}] BY <1>1
  <2>2. win' \in [Threads -> Nat] BY <1>1, MarkTypes
  <2>3. SenderTypes' /\ TunnelTypes' BY <2>1, <2>2 DEF IInv, TypeOK, SenderTypes, TunnelTypes
  <2>4. ReceiverTypes' /\ ReaderTypes' BY DEF IInv, TypeOK, ReceiverTypes, ReaderTypes
  <2>5. HistoryTypes' BY DEF IInv, TypeOK, HistoryTypes
  <2> QED BY <2>3, <2>4, <2>5 DEF TypeOK
<1>6. Mutex' BY <1>2, <1>3, <1>4 DEF Mutex
<1>7. needed(t)' = needed(t) /\ overhead(t)' = overhead(t) /\ remaining(t)' = remaining(t)
  BY DEF needed, overhead, remaining
<1>8. Sending'
  <2>1. pc'[t] = "cas" => needed(t) <= win'[t] /\ win'[t] <= Window
    BY <1>3, MarkTypes, ThreadFacts, Constants DEF IInv
  <2> QED BY <2>1, <1>2, <1>3, <1>4, <1>7 DEF IInv, Sending
<1>9. written' = written BY <1>3, <1>4 DEF Pending, written
<1>10. NoLostWakeup'
  <2>1. pc'[t] = "wait" => ~(sndWindow >= needed(t)) BY <1>3, MarkTypes, ThreadFacts DEF IInv
  <2> QED BY <2>1, <1>2, <1>7 DEF NoLostWakeup
<1>11. Measured' /\ Windows' /\ Marks' /\ Queues' /\ Density' /\ HeldBack' /\ ReaderAwake' /\ ~rejected'
  BY <1>9, ReceiverSame
<1> QED BY <1>5, <1>6, <1>8, <1>10, <1>11 DEF IInv

\* Taking the token keeps the invariant: the thread looks at the window again.
LEMMA WakeSenderInv == ASSUME IInv, NEW t \in Threads, WakeSender(t) PROVE IInv'
<1> USE DEF sndVars, ctlVars, updVars, rcvVars, readVars, WakeSender
<1>1. pc \in [Threads -> {"idle", "load", "wait", "cas", "write"}] BY DEF IInv, TypeOK, SenderTypes
<1>2. (\A u \in Threads : u # t => pc'[u] = "idle") /\ pc'[t] = "load" BY <1>1, Alone
<1>3. mu = t /\ pc[t] = "wait" BY Alone
<1>4. TypeOK'
  <2>1. pc' \in [Threads -> {"idle", "load", "wait", "cas", "write"}] BY <1>1
  <2>2. SenderTypes' /\ TunnelTypes' BY <2>1 DEF IInv, TypeOK, SenderTypes, TunnelTypes
  <2>3. ReceiverTypes' /\ ReaderTypes' BY DEF IInv, TypeOK, ReceiverTypes, ReaderTypes
  <2>4. HistoryTypes' BY DEF IInv, TypeOK, HistoryTypes
  <2> QED BY <2>2, <2>3, <2>4 DEF TypeOK
<1>5. Mutex' BY <1>2, <1>3 DEF Mutex
<1>6. Sending' BY <1>2, <1>3 DEF IInv, Sending
<1>7. written' = written BY <1>2, <1>3 DEF Pending, written
<1>8. NoLostWakeup' BY <1>2 DEF NoLostWakeup
<1>9. Measured' /\ Windows' /\ Marks' /\ Queues' /\ Density' /\ HeldBack' /\ ReaderAwake' /\ ~rejected'
  BY <1>7, ReceiverSame
<1> QED BY <1>4, <1>5, <1>6, <1>8, <1>9 DEF IInv

\* What leaving send does to the thread's own state.
LEMMA LeaveFacts ==
  ASSUME IInv, NEW t \in Threads, pc[t] # "idle", Leave(t), UNCHANGED <<sndWindow, windowUpdates, ctxDone, prevWindow>>
  PROVE  SenderTypes' /\ Mutex' /\ Sending' /\ Pending' = 0 /\ NoLostWakeup'
<1> USE DEF Leave
<1>1. /\ pc \in [Threads -> {"idle", "load", "wait", "cas", "write"}]
      /\ msg \in [Threads -> [id : Nat, size : Nat, lo : Nat, first : BOOLEAN]]
      /\ win \in [Threads -> Nat] /\ chunk \in [Threads -> Nat]
  BY DEF IInv, TypeOK, SenderTypes
<1>2. \A u \in Threads : pc'[u] = "idle" BY <1>1, Alone
<1>3. NoMsg \in [id : Nat, size : Nat, lo : Nat, first : BOOLEAN] BY DEF NoMsg
<1>4. /\ pc' \in [Threads -> {"idle", "load", "wait", "cas", "write"}]
      /\ msg' \in [Threads -> [id : Nat, size : Nat, lo : Nat, first : BOOLEAN]]
      /\ win' \in [Threads -> Nat] /\ chunk' \in [Threads -> Nat] /\ mu' \in Threads \cup {NoThread}
  BY <1>1, <1>3
<1>5. SenderTypes' BY <1>4 DEF IInv, TypeOK, SenderTypes
<1>6. Mutex' BY <1>2, Constants DEF Mutex
<1>7. Sending' /\ NoLostWakeup' BY <1>2 DEF Sending, NoLostWakeup
<1>8. Pending' = 0 BY Constants DEF Pending
<1> QED BY <1>5, <1>6, <1>7, <1>8

\* Leaving send when the context is done keeps the invariant.
LEMMA AbortSendInv == ASSUME IInv, NEW t \in Threads, AbortSend(t) PROVE IInv'
<1> USE DEF sndVars, ctlVars, updVars, rcvVars, readVars
<1>1. /\ pc[t] = "wait" /\ Leave(t)
      /\ UNCHANGED <<sndWindow, windowUpdates, charged, ctlVars, updVars, rcvVars, readVars, frames, acks, sent>>
  BY DEF AbortSend
<1>2. SenderTypes' /\ Mutex' /\ Sending' /\ Pending' = 0 /\ NoLostWakeup' BY <1>1, LeaveFacts
<1>3. TypeOK'
  <2>1. TunnelTypes' /\ ReceiverTypes' /\ ReaderTypes'
    BY <1>1 DEF IInv, TypeOK, TunnelTypes, ReceiverTypes, ReaderTypes
  <2>2. HistoryTypes' BY <1>1 DEF IInv, TypeOK, HistoryTypes
  <2> QED BY <2>1, <2>2, <1>2 DEF TypeOK
<1>4. Pending = 0 BY <1>1, Alone DEF Pending
<1>5. written' = written BY <1>1, <1>2, <1>4 DEF written
<1>6. Measured' /\ Windows' /\ Marks' /\ Queues' /\ Density' /\ HeldBack' /\ ReaderAwake' /\ ~rejected'
  BY <1>1, <1>5, ReceiverSame
<1> QED BY <1>2, <1>3, <1>6 DEF IInv

\* The chunk a thread reserves fits the window and is not empty without reason.
LEMMA ChunkFacts ==
  ASSUME IInv, NEW t \in Threads, pc[t] = "cas", sndWindow = win[t]
  PROVE  /\ chunkSz(t) \in Nat /\ chunkSz(t) <= remaining(t)
         /\ overhead(t) + chunkSz(t) <= sndWindow
         /\ msgOverhead > 0 => overhead(t) + chunkSz(t) >= 1
         /\ Sub32(Sub32(sndWindow, overhead(t)), chunkSz(t)) = sndWindow - (overhead(t) + chunkSz(t))
<1>1. PICK o \in Nat, r \in Nat, w \in Nat : o = overhead(t) /\ r = remaining(t) /\ w = win[t]
  BY ThreadFacts DEF IInv
<1>2. o <= w /\ (r > 0 => o + 1 <= w)
  BY <1>1, ThreadFacts DEF IInv, Sending
<1>3. Sub32(win[t], overhead(t)) = w - o BY <1>1, <1>2 DEF Sub32
<1>4. PICK k \in Nat : /\ k = chunkSz(t) /\ k <= r /\ k <= w - o /\ (r > 0 => k >= 1)
  <2>1. chunkSz(t) = Lesser(Lesser(w - o, r), maxChunkSize) BY <1>1, <1>3 DEF chunkSz
  <2> QED BY ONLY <2>1, <1>2, Constants, o \in Nat, r \in Nat, w \in Nat DEF Lesser
<1>5. msgOverhead > 0 => o + k >= 1
  <2>1. CASE msg[t].first BY <2>1, <1>1, <1>4, Constants DEF overhead
  <2>2. CASE ~msg[t].first
    <3>1. msg[t].lo < msg[t].size /\ msg[t].lo \in Nat /\ msg[t].size \in Nat
      BY <2>2, ThreadFacts DEF IInv, Sending
    <3>2. r > 0 BY <3>1, <1>1 DEF remaining
    <3> QED BY <3>2, <1>4
  <2> QED BY <2>1, <2>2
<1>6. Sub32(Sub32(w, o), k) = w - (o + k) BY <1>2, <1>4 DEF Sub32
<1> QED BY <1>1, <1>4, <1>5, <1>6

\* The compare-and-swap keeps the invariant: a chunk is charged only to the window it was computed for.
LEMMA ReserveChunkInv == ASSUME IInv, NEW t \in Threads, ReserveChunk(t) PROVE IInv'
<1> USE DEF sndVars, ctlVars, updVars, rcvVars, readVars
<1>0. /\ pc[t] = "cas"
      /\ UNCHANGED <<mu, msg, win, windowUpdates, ctlVars, updVars, rcvVars, readVars, frames, acks, sent>>
  BY DEF ReserveChunk
<1>1. /\ pc \in [Threads -> {"idle", "load", "wait", "cas", "write"}] /\ chunk \in [Threads -> Nat]
      /\ mu = t /\ \A u \in Threads : u # t => pc[u] = "idle"
  BY <1>0, Alone DEF IInv, TypeOK, SenderTypes
<1>2. Pending = 0 BY <1>0, <1>1 DEF Pending
<1>3. needed(t)' = needed(t) /\ overhead(t)' = overhead(t) /\ remaining(t)' = remaining(t)
  BY <1>0 DEF needed, overhead, remaining
<1>4. TunnelTypes' /\ ReceiverTypes' /\ ReaderTypes'
  BY <1>0 DEF IInv, TypeOK, TunnelTypes, ReceiverTypes, ReaderTypes
<1>5. CASE sndWindow # win[t]
  <2>1. pc' = [pc EXCEPT ![t] = "load"] /\ UNCHANGED <<sndWindow, chunk, charged>> BY <1>5 DEF ReserveChunk
  <2>2. pc'[t] = "load" /\ \A u \in Threads : u # t => pc'[u] = "idle" BY <2>1, <1>1
  <2>3. pc' \in [Threads -> {"idle", "load", "wait", "cas", "write"}] BY <2>1, <1>1
  <2>4. TypeOK'
    <3>1. SenderTypes' BY <2>1, <2>3, <1>0 DEF IInv, TypeOK, SenderTypes
    <3>2. HistoryTypes' BY <2>1, <1>0 DEF IInv, TypeOK, HistoryTypes
    <3> QED BY <3>1, <3>2, <1>4 DEF TypeOK
  <2>5. Mutex' BY <1>0, <1>1, <2>2 DEF Mutex
  <2>6. Sending' BY <1>0, <2>2 DEF IInv, Sending
  <2>7. written' = written BY <1>0, <1>1, <1>2, <2>1, <2>2 DEF Pending, written
  <2>8. NoLostWakeup' BY <2>2 DEF NoLostWakeup
  <2>9. Measured' /\ Windows' /\ Marks' /\ Queues' /\ Density' /\ HeldBack' /\ ReaderAwake' /\ ~rejected'
    BY <1>0, <2>1, <2>7, ReceiverSame
  <2> QED BY <2>4, <2>5, <2>6, <2>8, <2>9 DEF IInv
<1>6. CASE sndWindow = win[t]
  <2>1. PICK o \in Nat, k \in Nat :
          /\ o = overhead(t) /\ k = chunkSz(t) /\ o + k <= sndWindow /\ (msgOverhead > 0 => o + k >= 1)
          /\ Sub32(Sub32(sndWindow, overhead(t)), chunkSz(t)) = sndWindow - (o + k) /\ k <= remaining(t)
    BY <1>0, <1>6, ChunkFacts, ThreadFacts DEF IInv
  <2>2. /\ sndWindow' = sndWindow - (o + k) /\ chunk' = [chunk EXCEPT ![t] = k]
        /\ pc' = [pc EXCEPT ![t] = "write"]
    BY <1>6, <2>1 DEF ReserveChunk
  <2>3. charged' = charged + (o + k)
    <3>1. charged' = charged + overhead(t) + chunkSz(t) BY <1>6 DEF ReserveChunk
    <3> QED BY <3>1, <2>1, MarkTypes
  <2>4. pc'[t] = "write" /\ chunk'[t] = k /\ \A u \in Threads : u # t => pc'[u] = "idle"
    BY <2>2, <1>1
  <2>5. TypeOK'
    <3>1. pc' \in [Threads -> {"idle", "load", "wait", "cas", "write"}] /\ chunk' \in [Threads -> Nat]
      BY <2>2, <1>1
    <3>2. sndWindow' \in 0 .. Window /\ charged' \in Nat
      BY <2>1, <2>2, <2>3, MarkTypes, Constants
    <3>3. SenderTypes' BY <3>1, <3>2, <1>0 DEF IInv, TypeOK, SenderTypes
    <3>4. HistoryTypes' BY <3>2, <1>0 DEF IInv, TypeOK, HistoryTypes
    <3> QED BY <3>3, <3>4, <1>4 DEF TypeOK
  <2>6. Mutex' BY <1>0, <1>1, <2>4 DEF Mutex
  <2>7. Sending'
    <3>1. msg' = msg BY <1>0
    <3>2. msg[t].lo <= msg[t].size /\ (~msg[t].first => msg[t].lo < msg[t].size)
      BY <1>0 DEF IInv, Sending
    <3>3. chunk'[t] <= remaining(t)' /\ (msgOverhead > 0 => overhead(t)' + chunk'[t] >= 1)
      BY <1>3, <2>1, <2>4
    <3> QED BY <3>1, <3>2, <3>3, <2>4 DEF Sending
  <2>8. Pending' = o + k BY <1>0, <1>1, <1>3, <2>1, <2>4 DEF Pending
  <2>9. written' = written BY <1>2, <2>3, <2>8, MarkTypes DEF written
  <2>10. NoLostWakeup' BY <2>4 DEF NoLostWakeup
  <2>11. Windows' BY <1>0, <2>2, <2>3, MarkTypes, MarkOrder, Constants DEF Windows
  <2>12. Measured' /\ Marks' BY <1>0, <2>9 DEF IInv, Measured, Marks
  <2>13. Queues' /\ Density' /\ HeldBack' BY <1>0, <2>9 DEF IInv, Queues, Density, HeldBack
  <2>14. ReaderAwake' /\ ~rejected' BY <1>0 DEF IInv, ReaderAwake
  <2> QED BY <2>5, <2>6, <2>7, <2>10, <2>11, <2>12, <2>13, <2>14 DEF IInv
<1> QED BY <1>5, <1>6

\* Writing a chunk keeps the invariant: the frame carries exactly what was charged last.
LEMMA WriteChunkInv == ASSUME IInv, NEW t \in Threads, WriteChunk(t) PROVE IInv'
<1> USE DEF sndVars, ctlVars, updVars, rcvVars, readVars
<1> DEFINE e == NextFrame(t)
<1>0. /\ pc[t] = "write" /\ (broken => frames' = frames) /\ (~broken => frames' = Append(frames, e))
      /\ UNCHANGED <<sndWindow, windowUpdates, charged, ctlVars, updVars, rcvVars, readVars, acks, sent>>
  BY DEF WriteChunk
<1>1. /\ pc \in [Threads -> {"idle", "load", "wait", "cas", "write"}]
      /\ msg \in [Threads -> [id : Nat, size : Nat, lo : Nat, first : BOOLEAN]]
      /\ frames \in Seq(Frame) /\ IsLine(frames, Frame)
      /\ mu = t /\ \A u \in Threads : u # t => pc[u] = "idle"
  BY <1>0, Alone, Lines DEF IInv, TypeOK, SenderTypes, TunnelTypes
<1>2. PICK o \in Nat, k \in Nat : o = overhead(t) /\ k = chunk[t] /\ k <= remaining(t)
                                /\ (msgOverhead > 0 => o + k >= 1)
  BY <1>0, ThreadFacts DEF IInv, Sending
<1>3. Pending = o + k /\ written = charged - (o + k) /\ written \in Nat
  <2>1. Pending = o + k BY <1>0, <1>1, <1>2 DEF Pending
  <2>2. accepted <= charged - (o + k) BY <2>1, MarkOrder
  <2> QED BY <2>1, <2>2, MarkTypes DEF written
<1>4. /\ e \in Frame /\ e.from = written /\ e.to = charged
      /\ e.to - e.from = charge(e)
  <2>1. msg[t] \in [id : Nat, size : Nat, lo : Nat, first : BOOLEAN] BY <1>1
  <2>2. e = [first |-> msg[t].first, size |-> IF msg[t].first THEN msg[t].size ELSE 0,
             id |-> msg[t].id, lo |-> msg[t].lo, len |-> k, from |-> written, to |-> charged]
    <3>1. charged - overhead(t) - chunk[t] = written BY <1>2, <1>3, MarkTypes
    <3> QED BY <3>1, <1>2 DEF NextFrame
  <2>3. e \in Frame BY <2>1, <2>2, <1>3, MarkTypes DEF Frame
  <2>4. e.from = written /\ e.to = charged /\ e.len = k /\ e.first = msg[t].first BY <2>2
  <2>5. charge(e) = k + o BY <2>4, <1>2 DEF charge, overhead
  <2>6. charged - written = k + o BY <1>3, MarkTypes
  <2> QED BY <2>3, <2>4, <2>5, <2>6
<1> HIDE DEF e
<1>5. frames' \in Seq(Frame)
  <2>1. Append(frames, e) \in Seq(Frame) BY <1>1, <1>4, AppendFacts
  <2> QED BY <2>1, <1>0, <1>1
<1>6. /\ SenderTypes' /\ Mutex' /\ Sending' /\ Pending' = 0 /\ NoLostWakeup'
  <2>1. CASE broken \/ chunk[t] = remaining(t)
    <3>1. Leave(t) BY <2>1 DEF WriteChunk
    <3> QED BY <3>1, <1>0, LeaveFacts
  <2>2. CASE ~(broken \/ chunk[t] = remaining(t))
    <3>1. /\ msg' = [msg EXCEPT ![t] = [msg[t] EXCEPT !.lo = @ + chunk[t], !.first = FALSE]]
          /\ pc' = [pc EXCEPT ![t] = "load"] /\ UNCHANGED <<mu, win, chunk>>
      BY <2>2 DEF WriteChunk
    <3>2. pc'[t] = "load" /\ (\A u \in Threads : u # t => pc'[u] = "idle") BY <3>1, <1>1
    <3>3. pc' \in [Threads -> {"idle", "load", "wait", "cas", "write"}] BY <3>1, <1>1
    <3>4. PICK lo \in Nat, sz \in Nat : lo = msg[t].lo /\ sz = msg[t].size BY <1>1
    <3>5. msg' \in [Threads -> [id : Nat, size : Nat, lo : Nat, first : BOOLEAN]]
      <4> DEFINE m == [msg[t] EXCEPT !.lo = @ + chunk[t], !.first = FALSE]
      <4>1. msg' = [msg EXCEPT ![t] = m] BY <3>1
      <4>2. m \in [id : Nat, size : Nat, lo : Nat, first : BOOLEAN]
        <5>1. msg[t] \in [id : Nat, size : Nat, lo : Nat, first : BOOLEAN] /\ msg[t].lo + chunk[t] \in Nat
          BY <3>4, <1>1, <1>2
        <5> QED BY <5>1
      <4> QED BY <4>1, <4>2, <1>1
    <3>6. msg'[t].lo = lo + k /\ msg'[t].size = sz /\ lo + k < sz
      <4>1. msg'[t].lo = lo + k /\ msg'[t].size = sz BY <3>1, <3>4, <1>1, <1>2
      <4>2. k <= sz - lo /\ k # sz - lo BY <2>2, <3>4, <1>2 DEF remaining
      <4> QED BY <4>1, <4>2
    <3>7. SenderTypes' BY <3>1, <3>3, <3>5, <1>0 DEF IInv, TypeOK, SenderTypes
    <3>8. Mutex' BY <3>1, <3>2, <1>1 DEF Mutex
    <3>9. Sending' BY <3>2, <3>6 DEF Sending
    <3>10. Pending' = 0 BY <3>1, <3>2, <1>1 DEF Pending
    <3>11. NoLostWakeup' BY <3>2 DEF NoLostWakeup
    <3> QED BY <3>7, <3>8, <3>9, <3>10, <3>11
  <2> QED BY <2>1, <2>2
<1>7. TypeOK'
  <2>1. TunnelTypes' /\ ReceiverTypes' /\ ReaderTypes'
    BY <1>0, <1>5 DEF IInv, TypeOK, TunnelTypes, ReceiverTypes, ReaderTypes
  <2>2. HistoryTypes' BY <1>0 DEF IInv, TypeOK, HistoryTypes
  <2> QED BY <2>1, <2>2, <1>6 DEF TypeOK
<1>8. written' = charged /\ written <= charged /\ charged \in Int /\ written \in Int
  BY <1>0, <1>3, <1>6, MarkTypes DEF written
<1>9. Measured'
  <2>1. FramesMeasured(frames') BY <1>0, <1>1, <1>4, FramesMeasuredAppend DEF IInv, Measured
  <2> QED BY <2>1, <1>0 DEF IInv, Measured
<1>10. Windows' BY <1>0 DEF IInv, Windows
<1>11. Marks' BY <1>0, <1>8, MarkTypes DEF IInv, Marks
<1>12. Segment(frames', accepted, charged)
  <2>1. Segment(frames, accepted, written) BY DEF IInv, Queues
  <2>2. accepted \in Int /\ accepted <= written BY MarkTypes DEF IInv, Marks
  <2>3. CASE broken BY <2>1, <2>2, <2>3, <1>0, <1>1, <1>8, SegmentWiden
  <2>4. CASE ~broken
    <3>1. e.from \in Int /\ e.to \in Int /\ written <= e.from /\ e.from <= e.to /\ e.to <= charged
      BY <1>4, <1>8
    <3>2. Segment(Append(frames, e), accepted, charged)
      BY <3>1, <2>1, <2>2, <1>1, <1>4, <1>8, SegmentAppend
    <3> QED BY <3>2, <2>4, <1>0
  <2> QED BY <2>3, <2>4
<1>13. ~closed /\ ~broken => Tight(frames', accepted, charged)
  <2> SUFFICES ASSUME ~closed, ~broken PROVE Tight(frames', accepted, charged) OBVIOUS
  <2>1. Tight(frames, accepted, e.from) BY <1>4 DEF IInv, Queues
  <2>2. Tight(Append(frames, e), accepted, e.to) BY <2>1, <1>1, <1>4, TightAppend
  <2> QED BY <2>2, <1>0, <1>4
<1>14. Queues' BY <1>0, <1>8, <1>12, <1>13 DEF IInv, Queues
<1>15. Density'
  <2> SUFFICES ASSUME msgOverhead > 0 PROVE Dense(frames', charged) /\ Positive(frames')
    BY <1>0, <1>8 DEF IInv, Density
  <2>1. Dense(frames, written) /\ Positive(frames) BY DEF IInv, Density
  <2>2. CASE broken BY <2>1, <2>2, <1>0, <1>1, <1>8, DenseWiden
  <2>3. CASE ~broken
    <3>1. e.from \in Int /\ written <= e.from /\ e.from < charged /\ e.from < e.to
      BY <1>2, <1>3, <1>4, MarkTypes
    <3>2. Dense(Append(frames, e), charged) BY <3>1, <2>1, <1>1, <1>4, <1>8, DenseAppend
    <3>3. Positive(Append(frames, e)) BY <3>1, <2>1, <1>1, <1>4, PositiveAppend
    <3> QED BY <3>2, <3>3, <2>3, <1>0
  <2> QED BY <2>2, <2>3
<1>16. HeldBack' /\ ReaderAwake' /\ ~rejected' BY <1>0 DEF IInv, HeldBack, ReaderAwake
<1> QED BY <1>6, <1>7, <1>9, <1>10, <1>11, <1>14, <1>15, <1>16 DEF IInv

\* Every step keeps the invariant.
LEMMA NextInv == IInv /\ [Next]_vars => IInv'
<1> SUFFICES ASSUME IInv, [Next]_vars PROVE IInv'
  OBVIOUS
<1>1. CASE \E t \in Threads, n \in Sizes : send(t, n) BY <1>1, SendInv
<1>2. CASE \E t \in Threads : SenderStep(t)
  BY <1>2, LoadWindowInv, WakeSenderInv, AbortSendInv, ReserveChunkInv, WriteChunkInv DEF SenderStep
<1>3. CASE CloseSend \/ CancelContext \/ BreakTunnel BY <1>3, FlagInv
<1>4. CASE AddWindow \/ SignalSender BY <1>4, AddWindowInv, SignalSenderInv
<1>5. CASE accept BY <1>5, AcceptInv
<1>6. CASE EndStream \/ Abandon BY <1>6, FlagInv
<1>7. CASE close \/ cancel BY <1>7, CloseInv, CancelInv
<1>8. CASE dequeue \/ SendAck \/ FailRead BY <1>8, DequeueInv, SendAckInv, FailReadInv
<1>9. CASE UNCHANGED vars BY <1>9, StutterInv
<1> QED BY <1>1, <1>2, <1>3, <1>4, <1>5, <1>6, <1>7, <1>8, <1>9 DEF Next
-----------------------------------------------------------------------------
(***************************************************************************)
(* The theorems.                                                           *)
(***************************************************************************)
\* The marks never get out of order and every queue holds exactly what lies
\* between its marks, so the two windows agree on every byte.
THEOREM Inductive == Spec => []IInv
<1>1. Init => IInv BY InitInv
<1>2. IInv /\ [Next]_vars => IInv' BY NextInv
<1> QED BY <1>1, <1>2, PTL DEF Spec

\* Neither window ever wraps around or exceeds its initial size.
THEOREM TypeCorrect == Spec => []TypeOK
<1>1. IInv => TypeOK BY DEF IInv
<1> QED BY <1>1, Inductive, PTL

\* accept never fails for a sender that follows send and updateWindow.
THEOREM SenderNeverRejected == Spec => []NeverRejected
<1>1. IInv => NeverRejected
  BY NextFrameFits DEF IInv, NeverRejected
<1> QED BY <1>1, Inductive, PTL

\* The test in updateWindow is enough to wake every sender that could go on.
THEOREM WakeupNotLost == Spec => []NoLostWakeup
<1>1. IInv => NoLostWakeup BY DEF IInv
<1> QED BY <1>1, Inductive, PTL

\* Whatever minWindowUpdateSize is, sender and receiver never wait for each
\* other.
THEOREM NeverStalls == Spec => []NoStall
<1>1. ASSUME IInv PROVE NoStall
  <2> SUFFICES ASSUME NEW t \in Threads, pc[t] = "wait", Quiescent
               PROVE  windowUpdates /\ sndWindow >= needed(t)
    BY DEF NoStall
  <2>1. /\ frames = <<>> /\ acks = <<>> /\ items = <<>> /\ rd = "wait" /\ prevWindow = NoUpdate
        /\ ~ended /\ ~cancelled /\ ~broken
    BY DEF Quiescent
  <2>2. Pending = 0 /\ written = charged
    <3>1. Pending = 0 BY <1>1, Alone DEF Pending
    <3> QED BY <3>1, <1>1, MarkTypes DEF written
  <2>3. sendUpdate = 0 /\ ~closed BY <1>1, <2>1 DEF IInv, Marks, Queues
  <2>4. accepted = charged /\ consumed = accepted /\ returned = credited - sendUpdate
    BY <1>1, <2>1, <2>2, <2>3 DEF IInv, Queues, Tight
  <2>5. rcvWindow = sndWindow /\ sndWindow + windowUpdate = Window
    BY ONLY <1>1, <2>3, <2>4, MarkTypes, MarkOrder, Constants
  <2>6. windowUpdate < minUpdateSize /\ (msgOverhead = 0 \/ windowUpdate = 0 \/ rcvWindow > msgOverhead)
    BY <1>1, <2>1 DEF IInv, HeldBack
  <2>7. sndWindow >= msgOverhead + 1
    BY ONLY <1>1, <2>5, <2>6, MarkTypes, Constants
  <2>8. sndWindow >= needed(t)
    <3>1. needed(t) \in Nat /\ needed(t) <= msgOverhead + 1 BY <1>1, ThreadFacts DEF IInv
    <3> QED BY <1>1, <2>7, <3>1, MarkTypes, Constants
  <2> QED BY <1>1, <2>1, <2>8 DEF IInv, NoLostWakeup
<1> QED BY <1>1, Inductive, PTL

\* The reader never sleeps through an item, a close or a cancel.
THEOREM ReaderNotForgotten == Spec => []ReaderAwake
<1>1. IInv => ReaderAwake BY DEF IInv
<1> QED BY <1>1, Inductive, PTL

\* The window bounds the number of frames, not only the bytes, of a stream of
\* revision two.
THEOREM WindowBoundsFrames == Spec => []FramesBounded
<1>1. ASSUME IInv PROVE FramesBounded
  <2> SUFFICES ASSUME Revision >= 2 PROVE Len(frames) + Len(items) <= Window
    BY DEF FramesBounded
  <2>1. msgOverhead > 0 BY DEF msgOverhead, messageOverhead
  <2>2. Len(frames) \in Nat /\ Len(items) \in Nat BY <1>1 DEF IInv, TypeOK, TunnelTypes, ReceiverTypes
  <2>3. Len(frames) <= written - accepted
    <3>1. CASE Len(frames) = 0 BY <3>1, <1>1, MarkTypes DEF IInv, Marks
    <3>2. CASE Len(frames) # 0
      <4>1. 1 \in 1 .. Len(frames) BY <3>2, <2>2
      <4>2. PICK x \in Int : x = frames[1].from BY <4>1, <1>1, Lines DEF IInv, IsLine
      <4>3. written - x >= Len(frames) - 1 + 1 BY <4>1, <4>2, <1>1, <2>1 DEF IInv, Density, Dense
      <4>4. accepted <= x BY <4>1, <4>2, <1>1 DEF IInv, Queues, Segment
      <4> QED BY <4>3, <4>4, <2>2, <1>1, MarkTypes
    <3> QED BY <3>1, <3>2
  <2>4. Len(items) <= accepted - consumed
    <3>1. CASE Len(items) = 0 BY <3>1, <1>1, MarkTypes DEF IInv, Marks
    <3>2. CASE Len(items) # 0
      <4>1. 1 \in 1 .. Len(items) BY <3>2, <2>2
      <4>2. PICK x \in Int : x = items[1].from BY <4>1, <1>1, Lines DEF IInv, IsLine
      <4>3. accepted - x >= Len(items) - 1 + 1 BY <4>1, <4>2, <1>1, <2>1 DEF IInv, Density, Dense
      <4>4. consumed <= x BY <4>1, <4>2, <1>1 DEF IInv, Queues, Segment
      <4> QED BY <4>3, <4>4, <2>2, <1>1, MarkTypes
    <3> QED BY <3>1, <3>2
  <2>5. written = charged - Pending BY DEF written
  <2>6. PICK a \in Nat, b \in Nat : a = Len(frames) /\ b = Len(items) BY <2>2
  <2>7. a <= written - accepted /\ b <= accepted - consumed BY <2>3, <2>4, <2>6
  <2>8. a + b <= charged - consumed
    BY ONLY <1>1, <2>5, <2>7, MarkTypes, a \in Nat, b \in Nat
  <2>9. a + b <= Window
    BY ONLY <1>1, <2>8, MarkTypes, MarkOrder, Constants, a \in Nat, b \in Nat
  <2> QED BY <2>6, <2>9
<1> QED BY <1>1, Inductive, PTL
=============================================================================
