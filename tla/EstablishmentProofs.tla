-------------------------- MODULE EstablishmentProofs --------------------------
(***************************************************************************)
(* The safety of an attempt to open a tunnel, for every set of             *)
(* configurations: any peer, any options, any number of streams.           *)
(***************************************************************************)
EXTENDS Establishment, NegotiationProofs

(***************************************************************************)
(* The inductive invariant.                                                *)
(***************************************************************************)
\* Who has got how far: the channel is made once, and what headers the caller
\* has are those that the handler sends.
Attempt ==
  /\ Forward /\ pc \in {"open", "header"} => loop = "none"
  /\ ~Forward /\ hpc = "idle" => loop = "none"
  /\ Forward /\ serving => hpc # "idle"
  /\ cfg.old => loop = "none"
  /\ respMD # "none" => headers = respMD
  /\ hpc = "idle" \/ ~cfg.supported => headers = "none"
  /\ cfg.supported /\ hpc # "idle" => headers = cfg.headers

\* A channel without headers from a handler that sends them is one whose RPC
\* ended before they came; no loop has complained before there is a channel.
Headless ==
  /\ Forward /\ loop # "none" /\ cfg.supported /\ cfg.headers # "none" /\ respMD = "none" => CallerGone
  /\ loop = "none" => err # "unsupported"

\* Success has been reported only by a done that stopped the timer, and the
\* timer's goroutine is the only one that ends the context this way.
Timeout ==
  /\ result = "ok" => timer \in {"none", "stopped"}
  /\ ctx = "timer" => timer = "ran"

\* The loop stores settings once, and only settings that passed its checks.
Negotiated ==
  /\ loop \in {"none", "first"} => settings = Nil
  /\ loop = "none" => useRevision = 0
  /\ awaited => settings # Nil
  /\ settings # Nil => checkSettings(settings) = "ok" /\ useRevision = chooseRevision(settings.revisions)

\* newReverseChannel returns only with settings, or with a channel that is done
\* and stays so.
Listing ==
  ~Forward => /\ hpc = "check" => awaited \/ cancelled \/ hctx
              /\ hpc = "listed" /\ ~cfg.old => awaited

\* No stream before the settings: the only frame until then is the server's
\* first.
Quiet ==
  ~cfg.old /\ settings = Nil =>
    /\ c2s = <<>> /\ rejecting = 0 /\ accepted = <<>>
    /\ \A i \in 1 .. Len(s2c) : s2c[i] = [kind |-> cfg.first, settings |-> cfg.settings]

\* What every frame that creates a stream asks for; an ID that has wrapped
\* around is smaller than any the server has seen.
Requests ==
  \A i \in 1 .. Len(c2s) :
    /\ c2s[i].revision = useRevision /\ c2s[i].window = ClientWindow
    /\ c2s[i].id > 0 \/ c2s[i].id < -1

Accepted ==
  /\ lastSeen >= -1
  /\ accepted # <<>> =>
       useRevision \in supportedRevisions /\ ClientWindow >= minWindowSize(useRevision)
  /\ \A i \in 1 .. Len(accepted) :
       /\ accepted[i] > 0 /\ accepted[i] <= lastSeen
       /\ i > 1 => accepted[i - 1] < accepted[i]

IInv ==
  /\ TypeOK /\ Attempt /\ Headless /\ Timeout /\ Negotiated /\ Listing
  /\ Quiet /\ Requests /\ Accepted /\ PeersAgree
-----------------------------------------------------------------------------
(***************************************************************************)
(* Types, in three groups: what each needs to be proved is different.      *)
(***************************************************************************)
ControlOK ==
  /\ pc \in {"open", "header", "settings", "done", "failed", "close", "serve", "returned"}
  /\ result \in {"none", "ok", "err", "timeout"}
  /\ timer \in {"none", "armed", "fired", "ran", "stopped"}
  /\ ctx \in {"live", "timer", "parent", "released"}
  /\ headers \in {"none", "plain", "negotiate"} /\ respMD \in {"none", "plain", "negotiate"}
  /\ hpc \in {"idle", "serve", "settings", "check", "listed", "close", "returned"}
  /\ htimer \in {"none", "armed", "fired", "closing", "ran", "stopped"}
  /\ loop \in {"none", "first", "loop", "failed", "exiting", "exit"}
  /\ err \in Errors
  /\ sending \in {"no", "pending", "sent"}

FlagsOK ==
  /\ opened \in BOOLEAN /\ half \in BOOLEAN /\ broken \in BOOLEAN /\ hctx \in BOOLEAN
  /\ awaited \in BOOLEAN /\ finished \in BOOLEAN /\ cancelled \in BOOLEAN /\ panicked \in BOOLEAN
  /\ serving \in BOOLEAN /\ isClosing \in BOOLEAN /\ protoErr \in BOOLEAN

DataOK ==
  /\ settings \in Settings /\ useRevision \in {0} \cup supportedRevisions
  /\ lastStreamID \in Ids /\ calls \in Nat
  /\ lastSeen \in Ids /\ accepted \in Seq(Ids)
  /\ rejected \subseteq {"closing", "revision", "window", "method"} /\ rejecting \in Nat
  /\ c2s \in Seq(ClientFrame) /\ s2c \in Seq(ServerFrame)

LEMMA TypeParts == TypeOK <=> cfg \in Configs /\ ControlOK /\ FlagsOK /\ DataOK
<1>1. {opened, half, broken, hctx, awaited, finished, cancelled, panicked, serving, isClosing, protoErr}
        \subseteq BOOLEAN <=> FlagsOK
  BY Zenon DEF FlagsOK
<1>. QED  BY <1>1 DEF TypeOK, ControlOK, DataOK

\* Appending to a sequence and taking the head off it, element by element.
LEMMA AppendFacts ==
  ASSUME NEW S, NEW q \in Seq(S), NEW e \in S
  PROVE  /\ Append(q, e) \in Seq(S) /\ Len(Append(q, e)) = Len(q) + 1
         /\ \A i \in 1 .. Len(q) : Append(q, e)[i] = q[i]
         /\ Append(q, e)[Len(q) + 1] = e
         /\ Append(q, e) # <<>>
OBVIOUS

LEMMA TailFacts ==
  ASSUME NEW S, NEW q \in Seq(S), q # <<>>
  PROVE  /\ Tail(q) \in Seq(S) /\ Len(Tail(q)) = Len(q) - 1 /\ Len(q) \in Nat /\ Len(q) > 0
         /\ Head(q) \in S /\ Head(q) = q[1]
         /\ \A i \in 1 .. Len(Tail(q)) : Tail(q)[i] = q[i + 1]
OBVIOUS

\* The configuration says what both ends are, and never changes.
LEMMA ConfigFacts ==
  ASSUME cfg \in Configs
  PROVE  /\ cfg.headers \in {"none", "plain", "negotiate"}
         /\ cfg.first \in {"settings", "badid", "other", "none"}
         /\ cfg.settings \in Settings /\ cfg.window \in Nat
         /\ cfg.this => ThisVersion(cfg)
BY EstablishmentAssumption DEF Config

LEMMA ConfigFixed ==
  ASSUME Next
  PROVE  cfg' = cfg /\ (Forward' <=> Forward) /\ ClientWindow' = ClientWindow
<1>1. cfg' = cfg
  BY DEF Next, CallerStep, HandlerStep, TimerStep, HandlerTimerStep, LoopStep, ServerStep, Environment,
     OpenTunnel, GetHeader, OldStart, waitForSettings, StartDone, StartClose, ServeDone, Fail,
     Refuse, openTunnel, openReverseTunnel, ReverseReturn, HandlerList, HandlerDone, HandlerReturn,
     TimerFire, TimerRun, HandlerTimerFire, HandlerTimerCheck, HandlerTimerClose,
     LoopUnsupported, LoopSettings, LoopFrame, LoopFails, LoopClose, LoopExit, createStream, ServerEnd,
     SendSettings, SendReject, HandlerContext, CancelParent, Break, newStream, Close, Shutdown, Stop
<1>. QED  BY <1>1 DEF Forward, ClientWindow

\* A window that a client of this repository asks for always has room for a byte
\* of data.
LEMMA WindowAsked ==
  ASSUME cfg \in Configs
  PROVE  /\ ClientWindow \in Nat
         /\ ~cfg.raw => \A r \in supportedRevisions : ClientWindow >= minWindowSize(r)
<1>1. cfg.window \in Nat
  BY ConfigFacts
<1>2. ClientWindow \in Nat /\ (~cfg.raw => ClientWindow >= 1024)
  BY <1>1 DEF ClientWindow, WindowOption, defaultInitialWindowSize, minInitialWindowSize
<1>3. \A r \in supportedRevisions : minWindowSize(r) \in Nat /\ minWindowSize(r) <= 6
  BY DEF supportedRevisions, minWindowSize, messageOverhead, revisionTwoMessageOverhead
<1>. QED  BY <1>2, <1>3
-----------------------------------------------------------------------------
(***************************************************************************)
(* Every step keeps each part.                                             *)
(***************************************************************************)
LEMMA ControlStep ==
  ASSUME IInv, Next
  PROVE  ControlOK'
<1>. USE DEF ControlOK, Errors, chanVars
<1>1. ControlOK /\ cfg \in Configs
  BY TypeParts DEF IInv
<1>2. cfg.headers \in {"none", "plain", "negotiate"}
  BY <1>1, ConfigFacts
<1>3. CASE CallerStep
  BY <1>1, <1>3 DEF CallerStep, OpenTunnel, GetHeader, OldStart, waitForSettings, StartDone, StartClose, ServeDone,
     Fail, Header, done, release, close, Outcome, callerVars, rpcVars, closeVars
<1>4. CASE HandlerStep
  BY <1>1, <1>2, <1>4 DEF HandlerStep, Refuse, openTunnel, openReverseTunnel, ReverseReturn, HandlerList,
     HandlerDone, HandlerReturn, NewTimer, close, callerVars, rpcVars, closeVars
<1>5. CASE TimerStep \/ HandlerTimerStep
  BY <1>1, <1>5 DEF TimerStep, TimerFire, TimerRun, HandlerTimerStep, HandlerTimerFire, HandlerTimerCheck,
     HandlerTimerClose, close, callerVars, rpcVars, closeVars
<1>6. CASE LoopStep
  <2>1. CASE LoopSettings
    <3>1. \A s : checkSettings(s) \in {"precondition", "internal", "ok"}
      BY DEF checkSettings
    <3>. QED  BY <1>1, <2>1, <3>1 DEF LoopSettings, close, callerVars, rpcVars, closeVars
  <2>2. CASE LoopUnsupported \/ LoopFrame \/ LoopFails \/ LoopClose \/ LoopExit
    BY <1>1, <2>2 DEF LoopUnsupported, LoopFrame, LoopFails, LoopClose, LoopExit, close, release, callerVars,
       rpcVars, closeVars
  <2>. QED  BY <1>6, <2>1, <2>2 DEF LoopStep
<1>7. CASE ServerStep \/ SendSettings \/ SendReject \/ HandlerContext
  BY <1>1, <1>7 DEF ServerStep, createStream, ServerEnd, EndServe, release, SendSettings, SendReject,
     HandlerContext, callerVars, rpcVars, closeVars, serverVars
<1>8. CASE Environment
  BY <1>1, <1>8 DEF Environment, CancelParent, Break, newStream, Close, Shutdown, Stop, close, callerVars, rpcVars,
     closeVars
<1>. QED  BY <1>3, <1>4, <1>5, <1>6, <1>7, <1>8 DEF Next

LEMMA CloseFlags ==
  ASSUME NEW e, close(e)
  PROVE  half' \in BOOLEAN /\ finished' \in BOOLEAN /\ cancelled' \in BOOLEAN
BY Zenon DEF close

LEMMA FlagsStep ==
  ASSUME IInv, Next
  PROVE  FlagsOK'
<1>. USE DEF FlagsOK, callerVars, rpcVars, chanVars, closeVars, callVars, serverVars
<1>1. FlagsOK
  BY TypeParts DEF IInv
<1>2. CASE CallerStep
  <2>1. CASE StartClose
    BY <1>1, <2>1, CloseFlags, Zenon DEF StartClose
  <2>2. CASE OpenTunnel
    <3>1. opened' \in BOOLEAN
      BY <1>1, <2>2, Zenon DEF OpenTunnel
    <3>2. UNCHANGED <<half, broken, hctx, awaited, finished, cancelled, panicked, serving, isClosing, protoErr>>
      BY <2>2 DEF OpenTunnel, Fail
    <3>. QED  BY <1>1, <3>1, <3>2
  <2>3. CASE ServeDone
    BY <1>1, <2>3, Zenon DEF ServeDone
  <2>4. CASE GetHeader \/ OldStart \/ waitForSettings \/ StartDone
    BY <1>1, <2>4 DEF GetHeader, OldStart, waitForSettings, StartDone, Fail
  <2>. QED  BY <1>2, <2>1, <2>2, <2>3, <2>4 DEF CallerStep
<1>3. CASE HandlerStep
  <2>1. CASE HandlerReturn
    BY <1>1, <2>1, CloseFlags, Zenon DEF HandlerReturn
  <2>2. CASE openTunnel
    BY <1>1, <2>2, Zenon DEF openTunnel
  <2>3. CASE Refuse \/ openReverseTunnel \/ ReverseReturn \/ HandlerList \/ HandlerDone
    BY <1>1, <2>3 DEF Refuse, openReverseTunnel, ReverseReturn, HandlerList, HandlerDone
  <2>. QED  BY <1>3, <2>1, <2>2, <2>3 DEF HandlerStep
<1>4. CASE TimerStep \/ HandlerTimerStep
  <2>1. CASE HandlerTimerClose
    BY <1>1, <2>1, CloseFlags, Zenon DEF HandlerTimerClose
  <2>2. CASE TimerFire \/ TimerRun \/ HandlerTimerFire \/ HandlerTimerCheck
    BY <1>1, <2>2 DEF TimerFire, TimerRun, HandlerTimerFire, HandlerTimerCheck
  <2>. QED  BY <1>4, <2>1, <2>2 DEF TimerStep, HandlerTimerStep
<1>5. CASE LoopStep
  <2>1. CASE LoopUnsupported \/ LoopClose
    BY <1>1, <2>1, CloseFlags, Zenon DEF LoopUnsupported, LoopClose
  <2>2. CASE LoopSettings
    <3>1. /\ awaited' \in BOOLEAN
          /\ half' \in BOOLEAN /\ finished' \in BOOLEAN /\ cancelled' \in BOOLEAN
      BY <1>1, <2>2, CloseFlags, Zenon DEF LoopSettings
    <3>. QED  BY <1>1, <2>2, <3>1, Zenon DEF LoopSettings
  <2>3. CASE LoopFrame \/ LoopFails \/ LoopExit
    BY <1>1, <2>3 DEF LoopFrame, LoopFails, LoopExit
  <2>. QED  BY <1>5, <2>1, <2>2, <2>3 DEF LoopStep
<1>6. CASE ServerStep \/ SendSettings \/ SendReject \/ HandlerContext
  <2>1. CASE createStream
    <3>1. serving' \in BOOLEAN /\ protoErr' \in BOOLEAN
      BY <1>1, <2>1, Zenon DEF createStream, EndServe
    <3>. QED  BY <1>1, <2>1, <3>1, Zenon DEF createStream
  <2>2. CASE ServerEnd
    BY <1>1, <2>2, Zenon DEF ServerEnd, EndServe
  <2>3. CASE HandlerContext
    BY <1>1, <2>3, Zenon DEF HandlerContext
  <2>4. CASE SendSettings \/ SendReject
    BY <1>1, <2>4 DEF SendSettings, SendReject
  <2>. QED  BY <1>6, <2>1, <2>2, <2>3, <2>4 DEF ServerStep
<1>7. CASE Environment
  <2>1. CASE Close
    BY <1>1, <2>1, CloseFlags, Zenon DEF Close
  <2>2. CASE newStream
    <3>1. panicked' \in BOOLEAN
      BY <2>2, Zenon DEF newStream
    <3>. QED  BY <1>1, <2>2, <3>1, Zenon DEF newStream
  <2>3. CASE Break
    BY <1>1, <2>3, Zenon DEF Break
  <2>4. CASE Shutdown
    BY <1>1, <2>4, Zenon DEF Shutdown
  <2>5. CASE Stop
    BY <1>1, <2>5, Zenon DEF Stop
  <2>6. CASE CancelParent
    BY <1>1, <2>6 DEF CancelParent
  <2>. QED  BY <1>7, <2>1, <2>2, <2>3, <2>4, <2>5, <2>6 DEF Environment
<1>. QED  BY <1>2, <1>3, <1>4, <1>5, <1>6, <1>7 DEF Next

\* The steps that leave the tunnel's data alone.
LEMMA DataUntouched ==
  ASSUME Next, ~LoopSettings, ~LoopFrame, ~createStream, ~newStream, ~SendSettings, ~SendReject
  PROVE  UNCHANGED <<settings, useRevision, awaited, lastStreamID, calls, lastSeen, accepted, rejected, rejecting,
                     c2s, s2c>>
<1>. USE DEF chanVars, callVars, serverVars
<1>1. CASE CallerStep
  BY <1>1 DEF CallerStep, OpenTunnel, GetHeader, OldStart, waitForSettings, StartDone, StartClose, ServeDone, Fail
<1>2. CASE HandlerStep
  BY <1>2 DEF HandlerStep, Refuse, openTunnel, openReverseTunnel, ReverseReturn, HandlerList, HandlerDone,
     HandlerReturn
<1>3. CASE TimerStep \/ HandlerTimerStep
  BY <1>3 DEF TimerStep, TimerFire, TimerRun, HandlerTimerStep, HandlerTimerFire, HandlerTimerCheck,
     HandlerTimerClose
<1>4. CASE LoopStep
  BY <1>4 DEF LoopStep, LoopUnsupported, LoopFails, LoopClose, LoopExit
<1>5. CASE ServerStep \/ HandlerContext
  BY <1>5 DEF ServerStep, ServerEnd, HandlerContext
<1>6. CASE Environment
  BY <1>6 DEF Environment, CancelParent, Break, Close, Shutdown, Stop
<1>. QED  BY <1>1, <1>2, <1>3, <1>4, <1>5, <1>6 DEF Next

LEMMA DataStep ==
  ASSUME IInv, Next
  PROVE  DataOK'
<1>. USE DEF DataOK, chanVars, callVars, serverVars
<1>1. DataOK /\ cfg \in Configs /\ cfg' = cfg
  BY TypeParts, ConfigFixed DEF IInv
<1>2. CASE ~LoopSettings /\ ~LoopFrame /\ ~createStream /\ ~newStream /\ ~SendSettings /\ ~SendReject
  BY <1>1, <1>2, DataUntouched
<1>3. CASE LoopSettings
  <2>1. Head(s2c) \in ServerFrame /\ s2c' \in Seq(ServerFrame)
    BY <1>1, <1>3, TailFacts DEF LoopSettings
  <2>2. Head(s2c).settings \in Settings /\ Head(s2c).settings.revisions \in SUBSET Revisions
    BY <2>1 DEF ServerFrame, Settings
  <2>3. chooseRevision(Head(s2c).settings.revisions) \in {0} \cup supportedRevisions
    BY <2>2, ChosenRevision
  <2>4. settings' \in Settings /\ useRevision' \in {0} \cup supportedRevisions
    BY <1>1, <1>3, <2>2, <2>3 DEF LoopSettings
  <2>. QED  BY <1>1, <1>3, <2>1, <2>4 DEF LoopSettings
<1>4. CASE LoopFrame
  <2>1. s2c' \in Seq(ServerFrame)
    BY <1>1, <1>4, TailFacts DEF LoopFrame
  <2>. QED  BY <1>1, <1>4, <2>1 DEF LoopFrame
<1>5. CASE createStream
  <2>1. Head(c2s) \in ClientFrame /\ c2s' \in Seq(ClientFrame)
    BY <1>1, <1>5, TailFacts DEF createStream
  <2>2. Head(c2s).id \in Ids
    BY <2>1 DEF ClientFrame
  <2>3. lastSeen' \in Ids
    BY <1>1, <1>5, <2>2 DEF createStream
  <2>4. accepted' \in Seq(Ids)
    <3>1. Append(accepted, Head(c2s).id) \in Seq(Ids)
      BY <1>1, <2>2, AppendFacts
    <3>. QED  BY <1>1, <1>5, <3>1 DEF createStream
  <2>5. /\ rejecting' \in Nat
        /\ rejected' \subseteq {"closing", "revision", "window", "method"}
    <3>1. \A r, w : checkNewStream(r, w) \in {"revision", "window", "ok"}
      BY DEF checkNewStream
    <3>2. \/ UNCHANGED <<rejected, rejecting>>
          \/ \E reason \in {"closing", "revision", "window", "method"} :
               rejected' = rejected \cup {reason} /\ rejecting' = rejecting + 1
      BY <1>5, <3>1, Zenon DEF createStream
    <3>3. rejecting \in Nat /\ rejected \subseteq {"closing", "revision", "window", "method"}
      BY <1>1
    <3>4. CASE UNCHANGED <<rejected, rejecting>>
      BY <3>3, <3>4
    <3>5. ASSUME NEW reason \in {"closing", "revision", "window", "method"},
                 rejected' = rejected \cup {reason}, rejecting' = rejecting + 1
          PROVE  rejecting' \in Nat /\ rejected' \subseteq {"closing", "revision", "window", "method"}
      <4>1. rejecting' \in Nat
        BY <3>3, <3>5
      <4>2. rejected' \subseteq {"closing", "revision", "window", "method"}
        BY <3>3, <3>5
      <4>. QED  BY <4>1, <4>2
    <3>. QED  BY <3>2, <3>4, <3>5
  <2>. QED  BY <1>1, <1>5, <2>1, <2>3, <2>4, <2>5 DEF createStream
<1>6. CASE newStream
  <2>1. lastStreamID \in Int /\ MaxId \in Nat \ {0}
    BY <1>1, EstablishmentAssumption DEF Ids
  <2>2. Increment(lastStreamID) \in Ids
    BY <1>1, <2>1 DEF Increment, Ids
  <2>3. useRevision \in Nat /\ ClientWindow \in Nat
    BY <1>1, WindowAsked DEF supportedRevisions
  <2>4. [id |-> Increment(lastStreamID), revision |-> useRevision, window |-> ClientWindow] \in ClientFrame
    BY <2>2, <2>3 DEF ClientFrame
  <2>5. Append(c2s, [id |-> Increment(lastStreamID), revision |-> useRevision,
                     window |-> ClientWindow]) \in Seq(ClientFrame)
    BY <1>1, <2>4, AppendFacts
  <2>. QED  BY <1>1, <1>6, <2>2, <2>5 DEF newStream
<1>7. CASE SendSettings
  <2>1. [kind |-> cfg.first, settings |-> cfg.settings] \in ServerFrame
    BY <1>1, <1>7, ConfigFacts DEF SendSettings, ServerFrame
  <2>2. Append(s2c, [kind |-> cfg.first, settings |-> cfg.settings]) \in Seq(ServerFrame)
    BY <1>1, <2>1, AppendFacts
  <2>. QED  BY <1>1, <1>7, <2>2 DEF SendSettings
<1>8. CASE SendReject
  <2>1. [kind |-> "close", settings |-> Nil] \in ServerFrame
    BY DEF ServerFrame, Nil, Settings
  <2>2. Append(s2c, [kind |-> "close", settings |-> Nil]) \in Seq(ServerFrame)
    BY <1>1, <2>1, AppendFacts
  <2>. QED  BY <1>1, <1>8, <2>2 DEF SendReject
<1>. QED  BY <1>2, <1>3, <1>4, <1>5, <1>6, <1>7, <1>8

LEMMA TypeStep ==
  ASSUME IInv, Next
  PROVE  TypeOK'
<1>1. (cfg \in Configs)'
  BY ConfigFixed DEF IInv, TypeOK
<1>2. (cfg \in Configs /\ ControlOK /\ FlagsOK /\ DataOK)'
  BY <1>1, ControlStep, FlagsStep, DataStep
<1>. QED  BY <1>2, TypeParts, PTL

LEMMA AttemptStep ==
  ASSUME IInv, Next
  PROVE  Attempt'
<1>. USE DEF callerVars, rpcVars, chanVars
<1>1. TypeOK /\ Attempt /\ cfg' = cfg /\ (Forward' <=> Forward)
  BY ConfigFixed DEF IInv
<1>2. CASE CallerStep
  <2>1. CASE OpenTunnel
    BY <1>1, <2>1 DEF OpenTunnel, Fail, Attempt
  <2>2. CASE GetHeader
    <3>1. /\ UNCHANGED <<hpc, headers, serving>> /\ pc' \notin {"open", "header"}
          /\ respMD' # "none" => headers = respMD'
      BY <1>1, <2>2 DEF GetHeader, Fail, Header, Attempt
    <3>2. loop' = loop \/ (Forward /\ ~cfg.old)
      BY <2>2 DEF GetHeader, Fail
    <3>. QED  BY <1>1, <3>1, <3>2 DEF Attempt
  <2>3. CASE OldStart \/ waitForSettings \/ StartDone \/ StartClose \/ ServeDone
    BY <1>1, <2>3 DEF OldStart, waitForSettings, StartDone, StartClose, ServeDone, Attempt
  <2>. QED  BY <1>2, <2>1, <2>2, <2>3 DEF CallerStep
<1>3. CASE HandlerStep
  BY <1>1, <1>3 DEF HandlerStep, Refuse, openTunnel, openReverseTunnel, ReverseReturn, HandlerList, HandlerDone,
     HandlerReturn, Attempt
<1>4. CASE LoopStep
  BY <1>1, <1>4 DEF LoopStep, LoopUnsupported, LoopSettings, LoopFrame, LoopFails, LoopClose, LoopExit, Attempt
<1>5. CASE ServerStep
  BY <1>1, <1>5 DEF ServerStep, createStream, ServerEnd, EndServe, Attempt
<1>6. CASE TimerStep \/ HandlerTimerStep \/ SendSettings \/ SendReject \/ HandlerContext \/ Environment
  BY <1>1, <1>6 DEF TimerStep, TimerFire, TimerRun, HandlerTimerStep, HandlerTimerFire, HandlerTimerCheck,
     HandlerTimerClose, SendSettings, SendReject, HandlerContext, Environment, CancelParent, Break, newStream,
     Close, Shutdown, Stop, Attempt
<1>. QED  BY <1>2, <1>3, <1>4, <1>5, <1>6 DEF Next

\* How a channel's error comes about.
LEMMA ErrorMoves ==
  ASSUME Next
  PROVE  \/ err' = err \/ err' \in {"eof", "recv"}
         \/ err' = "unsupported" /\ LoopUnsupported
         \/ err' = "timeout" /\ HandlerTimerClose
         \/ LoopSettings
<1>. USE DEF closeVars, close
<1>1. CASE CallerStep
  BY <1>1 DEF CallerStep, OpenTunnel, GetHeader, OldStart, waitForSettings, StartDone, StartClose, ServeDone, Fail
<1>2. CASE HandlerStep
  BY <1>2 DEF HandlerStep, Refuse, openTunnel, openReverseTunnel, ReverseReturn, HandlerList, HandlerDone,
     HandlerReturn
<1>3. CASE TimerStep \/ HandlerTimerStep \/ SendSettings \/ SendReject \/ HandlerContext \/ ServerStep
  BY <1>3 DEF TimerStep, TimerFire, TimerRun, HandlerTimerStep, HandlerTimerFire, HandlerTimerCheck,
     HandlerTimerClose, SendSettings, SendReject, HandlerContext, ServerStep, createStream, ServerEnd
<1>4. CASE Environment
  BY <1>4 DEF Environment, CancelParent, Break, newStream, Close, Shutdown, Stop
<1>5. CASE LoopUnsupported
  BY <1>5 DEF LoopUnsupported
<1>6. CASE LoopFrame \/ LoopFails \/ LoopClose \/ LoopExit
  BY <1>6 DEF LoopFrame, LoopFails, LoopClose, LoopExit
<1>. QED  BY <1>1, <1>2, <1>3, <1>4, <1>5, <1>6 DEF Next, LoopStep

\* An RPC that has ended for the caller stays so.
LEMMA GoneStays ==
  ASSUME Next, CallerGone
  PROVE  CallerGone'
<1>. USE DEF rpcVars, CallerGone
<1>1. CASE CallerStep
  BY <1>1 DEF CallerStep, OpenTunnel, GetHeader, OldStart, waitForSettings, StartDone, StartClose, ServeDone, Fail,
     release
<1>2. CASE HandlerStep
  BY <1>2 DEF HandlerStep, Refuse, openTunnel, openReverseTunnel, ReverseReturn, HandlerList, HandlerDone,
     HandlerReturn
<1>3. CASE TimerStep \/ HandlerTimerStep \/ SendSettings \/ SendReject \/ HandlerContext
  BY <1>3 DEF TimerStep, TimerFire, TimerRun, HandlerTimerStep, HandlerTimerFire, HandlerTimerCheck,
     HandlerTimerClose, SendSettings, SendReject, HandlerContext
<1>4. CASE LoopStep \/ ServerStep
  BY <1>4 DEF LoopStep, LoopUnsupported, LoopSettings, LoopFrame, LoopFails, LoopClose, LoopExit, ServerStep,
     createStream, ServerEnd, EndServe, release
<1>5. CASE Environment
  BY <1>5 DEF Environment, CancelParent, Break, newStream, Close, Shutdown, Stop
<1>. QED  BY <1>1, <1>2, <1>3, <1>4, <1>5 DEF Next

\* Only GetHeader stores headers, or makes the channel of a forward tunnel.
LEMMA HeaderMoves ==
  ASSUME Next, ~GetHeader
  PROVE  /\ respMD' = respMD
         /\ loop' # "none" => loop # "none" \/ ~Forward
         /\ loop' = "none" => loop = "none"
<1>. USE DEF chanVars
<1>1. CASE CallerStep
  BY <1>1 DEF CallerStep, OpenTunnel, OldStart, waitForSettings, StartDone, StartClose, ServeDone, Fail
<1>2. CASE HandlerStep
  BY <1>2 DEF HandlerStep, Refuse, openTunnel, openReverseTunnel, ReverseReturn, HandlerList, HandlerDone,
     HandlerReturn
<1>3. CASE TimerStep \/ HandlerTimerStep \/ SendSettings \/ SendReject \/ HandlerContext
  BY <1>3 DEF TimerStep, TimerFire, TimerRun, HandlerTimerStep, HandlerTimerFire, HandlerTimerCheck,
     HandlerTimerClose, SendSettings, SendReject, HandlerContext
<1>4. CASE LoopStep \/ ServerStep
  BY <1>4 DEF LoopStep, LoopUnsupported, LoopSettings, LoopFrame, LoopFails, LoopClose, LoopExit, ServerStep,
     createStream, ServerEnd
<1>5. CASE Environment
  BY <1>5 DEF Environment, CancelParent, Break, newStream, Close, Shutdown, Stop
<1>. QED  BY <1>1, <1>2, <1>3, <1>4, <1>5 DEF Next

LEMMA HeadlessStep ==
  ASSUME IInv, Next
  PROVE  Headless'
<1>1. Headless /\ Attempt /\ cfg' = cfg /\ (Forward' <=> Forward)
  BY ConfigFixed DEF IInv
<1>2. ASSUME Forward, loop' # "none", cfg.supported, cfg.headers # "none", respMD' = "none"
      PROVE  CallerGone'
  <2>1. CASE ~GetHeader
    BY <1>1, <1>2, <2>1, HeaderMoves, GoneStays DEF Headless
  <2>2. CASE GetHeader
    <3>1. loop = "none" /\ Header("none")
      BY <1>1, <1>2, <2>2 DEF GetHeader, Attempt
    <3>2. headers = "none" => ~HandlerGone
      BY <1>1, <1>2 DEF Attempt, HandlerGone
    <3>3. CallerGone
      BY <3>1, <3>2 DEF Header
    <3>. QED  BY <3>3, GoneStays
  <2>. QED  BY <2>1, <2>2
<1>3. ASSUME loop' = "none"
      PROVE  err' # "unsupported"
  <2>1. loop = "none"
    <3>1. CASE ~GetHeader
      BY <1>3, <3>1, HeaderMoves
    <3>2. CASE GetHeader
      BY <1>3, <3>2 DEF GetHeader, Fail
    <3>. QED  BY <3>1, <3>2
  <2>2. ~LoopUnsupported /\ ~LoopSettings
    BY <2>1 DEF LoopUnsupported, LoopSettings
  <2>. QED  BY <1>1, <2>1, <2>2, ErrorMoves DEF Headless
<1>. QED  BY <1>1, <1>2, <1>3 DEF Headless

LEMMA TimeoutStep ==
  ASSUME IInv, Next
  PROVE  Timeout'
<1>. USE DEF callerVars, rpcVars, Timeout
<1>1. Timeout /\ ControlOK
  BY TypeParts DEF IInv
<1>2. CASE CallerStep
  BY <1>1, <1>2 DEF CallerStep, OpenTunnel, GetHeader, OldStart, waitForSettings, StartDone, StartClose, ServeDone,
     Fail, done, release, Outcome, ControlOK
<1>3. CASE TimerStep
  BY <1>1, <1>3 DEF TimerStep, TimerFire, TimerRun
<1>4. CASE LoopStep \/ ServerStep
  BY <1>1, <1>4 DEF LoopStep, LoopUnsupported, LoopSettings, LoopFrame, LoopFails, LoopClose, LoopExit, ServerStep,
     createStream, ServerEnd, EndServe, release
<1>5. CASE HandlerStep \/ HandlerTimerStep \/ SendSettings \/ SendReject \/ HandlerContext \/ Environment
  BY <1>1, <1>5 DEF HandlerStep, Refuse, openTunnel, openReverseTunnel, ReverseReturn, HandlerList, HandlerDone,
     HandlerReturn, HandlerTimerStep, HandlerTimerFire, HandlerTimerCheck, HandlerTimerClose, SendSettings,
     SendReject, HandlerContext, Environment, CancelParent, Break, newStream, Close, Shutdown, Stop
<1>. QED  BY <1>2, <1>3, <1>4, <1>5 DEF Next

\* Only the first frame changes what was negotiated, and only the two steps
\* that make the channel start its loop.
LEMMA LoopMoves ==
  ASSUME IInv, Next, ~LoopSettings
  PROVE  /\ UNCHANGED <<settings, useRevision, awaited>>
         /\ loop' \in {"none", "first"} => loop \in {"none", "first"}
         /\ loop' = "none" => loop = "none"
<1>. USE DEF chanVars
<1>1. CASE CallerStep
  BY <1>1 DEF CallerStep, OpenTunnel, GetHeader, OldStart, waitForSettings, StartDone, StartClose, ServeDone, Fail,
     IInv, Attempt
<1>2. CASE HandlerStep
  BY <1>2 DEF HandlerStep, Refuse, openTunnel, openReverseTunnel, ReverseReturn, HandlerList, HandlerDone,
     HandlerReturn, IInv, Attempt
<1>3. CASE LoopStep
  BY <1>3 DEF LoopStep, LoopUnsupported, LoopFrame, LoopFails, LoopClose, LoopExit
<1>4. CASE TimerStep \/ HandlerTimerStep \/ SendSettings \/ SendReject \/ HandlerContext \/ ServerStep
  BY <1>4 DEF TimerStep, TimerFire, TimerRun, HandlerTimerStep, HandlerTimerFire, HandlerTimerCheck,
     HandlerTimerClose, SendSettings, SendReject, HandlerContext, ServerStep, createStream, ServerEnd
<1>5. CASE Environment
  BY <1>5 DEF Environment, CancelParent, Break, newStream, Close, Shutdown, Stop
<1>. QED  BY <1>1, <1>2, <1>3, <1>4, <1>5 DEF Next

\* Settings that pass the checks are not nil.
LEMMA NilFails == checkSettings(Nil) # "ok"
<1>1. chooseRevision({}) = 0
  BY DEF chooseRevision
<1>. QED  BY <1>1 DEF checkSettings, Nil

LEMMA NegotiatedStep ==
  ASSUME IInv, Next
  PROVE  Negotiated'
<1>1. CASE ~LoopSettings
  BY <1>1, LoopMoves DEF IInv, Negotiated
<1>2. CASE LoopSettings
  <2>1. settings = Nil /\ ~awaited /\ loop' \in {"loop", "exiting"}
    BY <1>2 DEF LoopSettings, IInv, Negotiated
  <2>2. CASE settings' = settings
    <3>1. ~awaited'
      BY <1>2, <2>1, <2>2, NilFails DEF LoopSettings
    <3>. QED  BY <2>1, <2>2, <3>1 DEF Negotiated
  <2>3. CASE settings' # settings
    <3>1. checkSettings(settings') = "ok" /\ useRevision' = chooseRevision(settings'.revisions)
      BY <1>2, <2>3 DEF LoopSettings
    <3>2. settings' # Nil
      BY <3>1, NilFails
    <3>. QED  BY <2>1, <3>1, <3>2 DEF Negotiated
  <2>. QED  BY <2>2, <2>3
<1>. QED  BY <1>1, <1>2

\* What ends a channel, or lets it begin, is not undone.
LEMMA FlagsStay ==
  ASSUME IInv, Next
  PROVE  (awaited => awaited') /\ (cancelled => cancelled') /\ (hctx => hctx')
<1>. USE DEF rpcVars, closeVars
<1>1. awaited => awaited'
  BY LoopMoves DEF LoopSettings, IInv, Negotiated
<1>2. CASE CallerStep
  BY <1>1, <1>2 DEF CallerStep, OpenTunnel, GetHeader, OldStart, waitForSettings, StartDone, StartClose, ServeDone,
     Fail, close
<1>3. CASE HandlerStep
  BY <1>1, <1>3 DEF HandlerStep, Refuse, openTunnel, openReverseTunnel, ReverseReturn, HandlerList, HandlerDone,
     HandlerReturn, close
<1>4. CASE LoopStep
  BY <1>1, <1>4 DEF LoopStep, LoopUnsupported, LoopSettings, LoopFrame, LoopFails, LoopClose, LoopExit, close
<1>5. CASE TimerStep \/ HandlerTimerStep
  BY <1>1, <1>5 DEF TimerStep, TimerFire, TimerRun, HandlerTimerStep, HandlerTimerFire, HandlerTimerCheck,
     HandlerTimerClose, close
<1>6. CASE SendSettings \/ SendReject \/ HandlerContext \/ ServerStep
  BY <1>1, <1>6 DEF SendSettings, SendReject, HandlerContext, ServerStep, createStream, ServerEnd
<1>7. CASE Environment
  BY <1>1, <1>7 DEF Environment, CancelParent, Break, newStream, Close, Shutdown, Stop, close
<1>. QED  BY <1>2, <1>3, <1>4, <1>5, <1>6, <1>7 DEF Next

\* The steps after which a reverse tunnel's handler is about to list it, or has.
LEMMA ListingMoves ==
  ASSUME Next, ~Forward
  PROVE  /\ hpc' = "check" => hpc = "check" \/ ReverseReturn
         /\ hpc' = "listed" => hpc = "listed" \/ cfg.old \/ (hpc = "check" /\ ~ChannelDone)
<1>1. CASE HandlerStep
  BY <1>1 DEF HandlerStep, Refuse, openTunnel, openReverseTunnel, ReverseReturn, HandlerList, HandlerDone,
     HandlerReturn
<1>2. CASE CallerStep
  BY <1>2 DEF CallerStep, OpenTunnel, GetHeader, OldStart, waitForSettings, StartDone, StartClose, ServeDone, Fail
<1>3. CASE LoopStep \/ ServerStep
  BY <1>3 DEF LoopStep, LoopUnsupported, LoopSettings, LoopFrame, LoopFails, LoopClose, LoopExit, ServerStep,
     createStream, ServerEnd, EndServe
<1>4. CASE TimerStep \/ HandlerTimerStep \/ SendSettings \/ SendReject \/ HandlerContext \/ Environment
  BY <1>4 DEF TimerStep, TimerFire, TimerRun, HandlerTimerStep, HandlerTimerFire, HandlerTimerCheck,
     HandlerTimerClose, SendSettings, SendReject, HandlerContext, Environment, CancelParent, Break, newStream,
     Close, Shutdown, Stop
<1>. QED  BY <1>1, <1>2, <1>3, <1>4 DEF Next

LEMMA ListingStep ==
  ASSUME IInv, Next
  PROVE  Listing'
<1>1. Listing /\ cfg' = cfg /\ (Forward' <=> Forward)
  BY ConfigFixed DEF IInv
<1>2. SUFFICES ASSUME ~Forward
               PROVE  /\ hpc' = "check" => awaited' \/ cancelled' \/ hctx'
                      /\ hpc' = "listed" /\ ~cfg.old => awaited'
  BY <1>1 DEF Listing
<1>3. ASSUME hpc' = "check"
      PROVE  awaited' \/ cancelled' \/ hctx'
  <2>1. awaited \/ cancelled \/ hctx
    BY <1>1, <1>2, <1>3, ListingMoves DEF Listing, ReverseReturn, ChannelDone
  <2>. QED  BY <2>1, FlagsStay
<1>4. ASSUME hpc' = "listed", ~cfg.old
      PROVE  awaited'
  <2>1. awaited
    BY <1>1, <1>2, <1>4, ListingMoves DEF Listing, ChannelDone
  <2>. QED  BY <2>1, FlagsStay
<1>. QED  BY <1>3, <1>4

LEMMA QuietStep ==
  ASSUME IInv, Next
  PROVE  Quiet'
<1> DEFINE first == [kind |-> cfg.first, settings |-> cfg.settings]
<1>1. Quiet /\ DataOK /\ cfg' = cfg
  BY TypeParts, ConfigFixed DEF IInv
<1>2. SUFFICES ASSUME ~cfg.old, settings' = Nil
               PROVE  /\ c2s' = <<>> /\ rejecting' = 0 /\ accepted' = <<>>
                      /\ \A i \in 1 .. Len(s2c') : s2c'[i] = first
  BY <1>1 DEF Quiet
<1>3. settings = Nil
  BY <1>2, LoopMoves DEF LoopSettings, IInv, Negotiated
<1>4. /\ c2s = <<>> /\ rejecting = 0 /\ accepted = <<>>
      /\ \A i \in 1 .. Len(s2c) : s2c[i] = first
  BY <1>1, <1>2, <1>3 DEF Quiet
<1>5. s2c \in Seq(ServerFrame)
  BY <1>1 DEF DataOK
<1>6. ~createStream /\ ~SendReject
  BY <1>4 DEF createStream, SendReject
<1>7. CASE ~LoopSettings /\ ~LoopFrame /\ ~newStream /\ ~SendSettings
  BY <1>4, <1>6, <1>7, DataUntouched
<1>8. CASE LoopSettings \/ LoopFrame
  <2>1. s2c # <<>> /\ s2c' = Tail(s2c) /\ UNCHANGED <<c2s, rejecting, accepted>>
    BY <1>8 DEF LoopSettings, LoopFrame, serverVars
  <2>2. \A i \in 1 .. Len(s2c') : s2c'[i] = s2c[i + 1] /\ i + 1 \in 1 .. Len(s2c)
    BY <1>5, <2>1, TailFacts
  <2>. QED  BY <1>4, <2>1, <2>2
<1>9. CASE newStream
  BY <1>2, <1>3, <1>4, <1>9 DEF newStream, serverVars
<1>10. CASE SendSettings
  <2>1. UNCHANGED <<c2s, rejecting, accepted>> /\ (s2c' = s2c \/ s2c' = Append(s2c, first))
    BY <1>10 DEF SendSettings, serverVars
  <2>2. CASE s2c' = s2c
    BY <1>4, <2>1, <2>2
  <2>3. CASE s2c' = Append(s2c, first)
    <3>1. first \in ServerFrame
      BY <1>10, ConfigFacts DEF SendSettings, ServerFrame, IInv, TypeOK
    <3>2. /\ Len(s2c') = Len(s2c) + 1 /\ s2c'[Len(s2c) + 1] = first /\ Len(s2c) \in Nat
          /\ \A i \in 1 .. Len(s2c) : s2c'[i] = s2c[i]
      BY <1>5, <2>3, <3>1, AppendFacts
    <3>3. \A i \in 1 .. Len(s2c') : i \in 1 .. Len(s2c) \/ i = Len(s2c) + 1
      BY <3>2
    <3>. HIDE DEF first
    <3>4. \A i \in 1 .. Len(s2c') : s2c'[i] = first
      BY <1>4, <3>2, <3>3
    <3>. QED  BY <1>4, <2>1, <3>4
  <2>. QED  BY <2>1, <2>2, <2>3
<1>. QED  BY <1>6, <1>7, <1>8, <1>9, <1>10

\* While there are streams the revision does not change.
LEMMA RevisionStays ==
  ASSUME IInv, Next, c2s # <<>> \/ accepted # <<>>
  PROVE  useRevision' = useRevision
<1>1. CASE ~LoopSettings
  BY <1>1, LoopMoves
<1>2. CASE LoopSettings
  <2>1. loop = "first"
    BY <1>2 DEF LoopSettings
  <2>2. ~cfg.old /\ settings = Nil
    BY <2>1 DEF IInv, Attempt, Negotiated
  <2>. QED  BY <2>2 DEF IInv, Quiet
<1>. QED  BY <1>1, <1>2

LEMMA RequestsStep ==
  ASSUME IInv, Next
  PROVE  Requests'
<1> DEFINE Good(f) == /\ f.revision = useRevision /\ f.window = ClientWindow
                      /\ f.id > 0 \/ f.id < -1
           frame == [id |-> Increment(lastStreamID), revision |-> useRevision, window |-> ClientWindow]
<1>1. Requests /\ DataOK /\ cfg \in Configs /\ cfg' = cfg /\ ClientWindow' = ClientWindow
  BY TypeParts, ConfigFixed DEF IInv
<1>2. c2s \in Seq(ClientFrame)
  BY <1>1 DEF DataOK
<1>3. \A i \in 1 .. Len(c2s) : Good(c2s[i])
  BY <1>1 DEF Requests
<1>4. SUFFICES \A i \in 1 .. Len(c2s') : Good(c2s'[i]) /\ useRevision' = useRevision
  BY <1>1 DEF Requests
<1>5. CASE ~createStream /\ ~newStream
  <2>1. c2s' = c2s
    BY <1>5, DataUntouched DEF LoopSettings, LoopFrame, SendSettings, SendReject
  <2>2. c2s # <<>> => useRevision' = useRevision
    BY RevisionStays
  <2>. QED  BY <1>2, <1>3, <2>1, <2>2
<1>6. CASE createStream
  <2>1. c2s # <<>> /\ c2s' = Tail(c2s) /\ useRevision' = useRevision
    BY <1>6 DEF createStream, chanVars
  <2>2. \A i \in 1 .. Len(c2s') : c2s'[i] = c2s[i + 1] /\ i + 1 \in 1 .. Len(c2s)
    BY <1>2, <2>1, TailFacts
  <2>. HIDE DEF Good
  <2>. QED  BY <1>3, <2>1, <2>2
<1>7. CASE newStream
  <2>1. useRevision' = useRevision /\ (c2s' = c2s \/ c2s' = Append(c2s, frame))
    BY <1>7 DEF newStream, chanVars
  <2>2. lastStreamID \in Int /\ lastStreamID >= 0 /\ MaxId \in Nat \ {0}
    BY <1>1, <1>7, EstablishmentAssumption DEF DataOK, Ids, newStream
  <2>3. Increment(lastStreamID) \in Ids /\ (Increment(lastStreamID) > 0 \/ Increment(lastStreamID) < -1)
    BY <1>1, <2>2 DEF Increment, DataOK, Ids
  <2>4. Good(frame)
    BY <2>3
  <2>5. frame \in ClientFrame
    <3>1. useRevision \in Nat /\ ClientWindow \in Nat
      BY <1>1, WindowAsked DEF DataOK, supportedRevisions
    <3>. QED  BY <2>3, <3>1 DEF ClientFrame
  <2>. HIDE DEF Good, frame
  <2>6. CASE c2s' = Append(c2s, frame)
    <3>1. /\ Len(c2s') = Len(c2s) + 1 /\ c2s'[Len(c2s) + 1] = frame /\ Len(c2s) \in Nat
          /\ \A i \in 1 .. Len(c2s) : c2s'[i] = c2s[i]
      BY <1>2, <2>5, <2>6, AppendFacts
    <3>2. \A i \in 1 .. Len(c2s') : i \in 1 .. Len(c2s) \/ i = Len(c2s) + 1
      BY <3>1
    <3>. QED  BY <1>3, <2>1, <2>4, <3>1, <3>2
  <2>. QED  BY <1>3, <2>1, <2>6
<1>. QED  BY <1>5, <1>6, <1>7

\* What createStream does to the server's state: it accepts only a frame whose
\* ID is larger than all before and whose revision and window it can work with.
LEMMA CreateCases ==
  ASSUME IInv, createStream
  PROVE  /\ Head(c2s) \in ClientFrame
         /\ Head(c2s).revision = useRevision /\ Head(c2s).window = ClientWindow
         /\ Head(c2s).id > 0 \/ Head(c2s).id < -1
         /\ \/ UNCHANGED <<lastSeen, accepted>>
            \/ ~(Head(c2s).id <= lastSeen) /\ lastSeen' = Head(c2s).id /\ UNCHANGED accepted
            \/ /\ ~(Head(c2s).id <= lastSeen) /\ lastSeen' = Head(c2s).id
               /\ checkNewStream(useRevision, ClientWindow) = "ok"
               /\ accepted' = Append(accepted, Head(c2s).id)
<1>1. c2s # <<>> /\ c2s \in Seq(ClientFrame)
  BY DEF createStream, IInv, TypeOK
<1>2. Head(c2s) \in ClientFrame /\ Head(c2s) = c2s[1] /\ 1 \in 1 .. Len(c2s)
  BY <1>1, TailFacts
<1>3. /\ Head(c2s).revision = useRevision /\ Head(c2s).window = ClientWindow
      /\ Head(c2s).id > 0 \/ Head(c2s).id < -1
  BY <1>2 DEF IInv, Requests
<1>. QED  BY <1>2, <1>3 DEF createStream, Used

LEMMA AcceptedStep ==
  ASSUME IInv, Next
  PROVE  Accepted'
<1>1. Accepted /\ DataOK /\ cfg \in Configs /\ cfg' = cfg /\ ClientWindow' = ClientWindow
  BY TypeParts, ConfigFixed DEF IInv
<1>2. lastSeen \in Int /\ accepted \in Seq(Ids) /\ Len(accepted) \in Nat
  BY <1>1 DEF DataOK, Ids
<1>3. \A i \in 1 .. Len(accepted) : accepted[i] \in Int
  <2>1. \A i \in 1 .. Len(accepted) : accepted[i] \in Ids
    BY <1>2
  <2>2. Ids \subseteq Int
    BY EstablishmentAssumption DEF Ids
  <2>. QED  BY <2>1, <2>2
<1>4. accepted # <<>> => useRevision' = useRevision
  BY RevisionStays
<1>5. CASE UNCHANGED <<lastSeen, accepted>>
  BY <1>1, <1>4, <1>5 DEF Accepted
<1>6. ASSUME createStream, ~(UNCHANGED <<lastSeen, accepted>>)
      PROVE  Accepted'
  <2> DEFINE id == Head(c2s).id
  <2>1. id \in Int /\ id \in Ids
    BY <1>6, CreateCases DEF ClientFrame, Ids
  <2>2. id > 0 /\ id > lastSeen /\ lastSeen' = id
    BY <1>1, <1>2, <1>6, <2>1, CreateCases DEF Accepted
  <2>3. useRevision' = useRevision
    BY <1>6 DEF createStream, chanVars
  <2>. HIDE DEF id
  <2>4. CASE accepted' = accepted
    <3>1. \A i \in 1 .. Len(accepted) : accepted[i] <= id
      BY <1>1, <1>2, <1>3, <2>1, <2>2 DEF Accepted
    <3>. QED  BY <1>1, <1>2, <2>1, <2>2, <2>3, <2>4, <3>1 DEF Accepted
  <2>5. CASE accepted' = Append(accepted, id)
    <3>1. /\ Len(accepted') = Len(accepted) + 1 /\ accepted'[Len(accepted) + 1] = id
          /\ \A i \in 1 .. Len(accepted) : accepted'[i] = accepted[i]
      BY <1>2, <2>1, <2>5, AppendFacts
    <3>2. \A i \in 1 .. Len(accepted) : accepted[i] > 0 /\ accepted[i] < id
      BY <1>1, <1>2, <1>3, <2>1, <2>2 DEF Accepted
    <3>3. ASSUME NEW i \in 1 .. Len(accepted')
          PROVE  /\ accepted'[i] > 0 /\ accepted'[i] <= lastSeen'
                 /\ i > 1 => accepted'[i - 1] < accepted'[i]
      <4>1. CASE i \in 1 .. Len(accepted)
        <5>1. i > 1 => i - 1 \in 1 .. Len(accepted)
          BY <1>2, <4>1
        <5>2. i > 1 => accepted[i - 1] < accepted[i]
          BY <1>1, <4>1 DEF Accepted
        <5>. QED  BY <1>3, <2>1, <2>2, <3>1, <3>2, <4>1, <5>1, <5>2
      <4>2. CASE i = Len(accepted) + 1
        <5>1. i > 1 => i - 1 \in 1 .. Len(accepted)
          BY <1>2, <4>2
        <5>. QED  BY <2>1, <2>2, <3>1, <3>2, <4>2, <5>1
      <4>. QED  BY <1>2, <3>1, <4>1, <4>2
    <3>4. useRevision \in supportedRevisions /\ ~(ClientWindow < minWindowSize(useRevision))
      <4>1. checkNewStream(useRevision, ClientWindow) = "ok"
        <5>1. accepted' # accepted
          BY <1>2, <3>1
        <5>. QED  BY <1>6, <5>1, CreateCases
      <4>. QED  BY <4>1 DEF checkNewStream
    <3>5. ClientWindow >= minWindowSize(useRevision)
      <4>1. ClientWindow \in Nat
        BY <1>1, WindowAsked
      <4>. QED  BY <3>4, <4>1 DEF supportedRevisions, minWindowSize, messageOverhead, revisionTwoMessageOverhead
    <3>6. lastSeen' >= -1
      BY <2>1, <2>2
    <3>. QED  BY <1>1, <2>3, <3>3, <3>4, <3>5, <3>6 DEF Accepted
  <2>. QED  BY <1>6, <2>4, <2>5, CreateCases DEF id
<1>7. CASE ~createStream
  <2>1. UNCHANGED <<lastSeen, accepted>>
    BY <1>7, DataUntouched DEF LoopSettings, LoopFrame, newStream, SendSettings, SendReject, serverVars
  <2>. QED  BY <1>5, <2>1
<1>. QED  BY <1>5, <1>6, <1>7

\* Settings of this version pass the checks of this version.
LEMMA OursPass ==
  ASSUME NEW c \in Configs, c.this
  PROVE  /\ checkSettings(c.settings) = "ok" /\ c.first = "settings" /\ ~c.old /\ c.request /\ c.headers = "negotiate"
         /\ ~c.raw
<1>1. ThisVersion(c) /\ c \in Config
  BY EstablishmentAssumption
<1>2. c.settings.revisions = supportedRevisions /\ c.settings.initialWindowSize >= 1024
      /\ c.settings.initialWindowSize \in Nat
  BY <1>1 DEF ThisVersion, Config, Settings, WindowOption, defaultInitialWindowSize, minInitialWindowSize
<1>3. supportedRevisions \in SUBSET Revisions /\ supportedRevisions # {}
  BY DEF supportedRevisions, Revisions
<1>4. chooseRevision(supportedRevisions) \in supportedRevisions
  BY <1>3, ChosenRevision
<1>5. chooseRevision(supportedRevisions) # 0 /\ minWindowSize(chooseRevision(supportedRevisions)) \in 1 .. 6
  BY <1>4 DEF supportedRevisions, minWindowSize, messageOverhead, revisionTwoMessageOverhead
<1>6. ~(c.settings.initialWindowSize < minWindowSize(chooseRevision(supportedRevisions)))
  BY <1>2, <1>5
<1>7. checkSettings(c.settings) = "ok"
  BY <1>2, <1>5, <1>6 DEF checkSettings
<1>. QED  BY <1>1, <1>7 DEF ThisVersion

\* ThisVersion describes exactly such settings: SettingsOf yields them from any
\* options.
LEMMA OursAreThisVersion ==
  ASSUME NEW o \in tunnelOpts
  PROVE  /\ SettingsOf(o).revisions = supportedRevisions
         /\ SettingsOf(o).initialWindowSize = WindowOption(SettingsOf(o).initialWindowSize)
BY DEF SettingsOf, initOptions, tunnelOpts, WindowOption, defaultInitialWindowSize, minInitialWindowSize

LEMMA PeersAgreeStep ==
  ASSUME IInv, Next
  PROVE  PeersAgree'
<1>1. cfg \in Configs /\ cfg' = cfg /\ (Forward' <=> Forward) /\ Attempt /\ Headless /\ Negotiated /\ Quiet
  BY ConfigFixed DEF IInv, TypeOK
<1>2. SUFFICES ASSUME cfg.this
               PROVE  /\ err' \notin {"precondition", "internal"}
                      /\ err' = "unsupported" => Forward /\ respMD' = "none" /\ (CallerGone' \/ ~cfg.supported)
                      /\ rejected' \subseteq {"closing", "method"}
  BY <1>1 DEF PeersAgree
<1>3. /\ err \notin {"precondition", "internal"}
      /\ err = "unsupported" => Forward /\ respMD = "none" /\ (CallerGone \/ ~cfg.supported)
      /\ rejected \subseteq {"closing", "method"}
  BY <1>2 DEF IInv, PeersAgree
<1>4. checkSettings(cfg.settings) = "ok" /\ cfg.first = "settings" /\ ~cfg.old /\ cfg.request
      /\ cfg.headers = "negotiate" /\ ~cfg.raw
  BY <1>1, <1>2, OursPass
\* The settings that come first are those of this version.
<1>5. LoopSettings => err' = err
  <2>. SUFFICES ASSUME LoopSettings PROVE err' = err
    OBVIOUS
  <2>1. loop = "first" /\ s2c # <<>> /\ s2c \in Seq(ServerFrame)
    BY DEF LoopSettings, IInv, TypeOK
  <2>2. Head(s2c) = s2c[1] /\ 1 \in 1 .. Len(s2c)
    BY <2>1, TailFacts
  <2>3. Head(s2c) = [kind |-> cfg.first, settings |-> cfg.settings]
    BY <1>1, <1>4, <2>1, <2>2 DEF Negotiated, Quiet
  <2>4. Head(s2c).kind = "settings" /\ checkSettings(Head(s2c).settings) = "ok"
    BY <1>4, <2>3
  <2>. QED  BY <2>4 DEF LoopSettings, closeVars
\* There is a channel, so the headers do not come any more.
<1>6. err = "unsupported" => respMD' = respMD
  <2>1. CASE ~GetHeader
    BY <2>1, HeaderMoves
  <2>2. CASE GetHeader
    BY <1>1, <1>3, <2>2 DEF GetHeader, Attempt, Headless
  <2>. QED  BY <2>1, <2>2
<1>7. ASSUME LoopUnsupported
      PROVE  Forward /\ respMD' = "none" /\ (CallerGone' \/ ~cfg.supported)
  <2>1. loop = "first" /\ ~SettingsExpected /\ respMD' = respMD
    BY <1>7 DEF LoopUnsupported, chanVars
  <2>2. Forward /\ respMD # "negotiate"
    BY <1>4, <2>1 DEF SettingsExpected
  \* Headers of this version would have said that it negotiates.
  <2>3. respMD = "none"
    BY <1>1, <1>4, <2>2 DEF Attempt
  <2>4. CallerGone \/ ~cfg.supported
    BY <1>1, <1>4, <2>1, <2>2, <2>3 DEF Headless
  <2>. QED  BY <2>1, <2>2, <2>3, <2>4, GoneStays
<1>8. /\ err' \notin {"precondition", "internal"}
      /\ err' = "unsupported" => Forward /\ respMD' = "none" /\ (CallerGone' \/ ~cfg.supported)
  BY <1>3, <1>5, <1>6, <1>7, ErrorMoves, GoneStays
<1>9. rejected' \subseteq {"closing", "method"}
  <2>1. CASE ~createStream
    <3>1. UNCHANGED rejected
      BY <2>1, DataUntouched DEF LoopSettings, LoopFrame, newStream, SendSettings, SendReject, serverVars
    <3>. QED  BY <1>3, <3>1
  <2>2. CASE createStream
    \* There is a frame, hence settings, hence a revision that is supported.
    <3>1. settings # Nil
      BY <1>1, <1>4, <2>2 DEF createStream, Quiet
    <3>2. settings \in Settings /\ checkSettings(settings) = "ok" /\ useRevision = chooseRevision(settings.revisions)
      BY <1>1, <3>1 DEF IInv, TypeOK, Negotiated
    <3>3. useRevision \in supportedRevisions
      BY <3>2, AcceptedSettings
    <3>4. minWindowSize(useRevision) \in Nat
      BY <3>3 DEF supportedRevisions, minWindowSize, messageOverhead, revisionTwoMessageOverhead
    <3>5. checkNewStream(useRevision, ClientWindow) = "ok"
      <4>1. ~(ClientWindow < minWindowSize(useRevision))
        BY <1>1, <1>4, <3>3, <3>4, WindowAsked
      <4>. QED  BY <3>3, <4>1 DEF checkNewStream
    <3>6. Head(c2s).revision = useRevision /\ Head(c2s).window = ClientWindow
      BY <2>2, CreateCases
    <3>7. \/ rejected' = rejected
          \/ rejected' = rejected \cup {"closing"}
          \/ rejected' = rejected \cup {"method"}
      BY <2>2, <3>5, <3>6 DEF createStream
    <3>. QED  BY <1>3, <3>7
  <2>. QED  BY <2>1, <2>2
<1>. QED  BY <1>8, <1>9

\* The handler's timer decides to close the channel only without settings.
LEMMA TimerMoves ==
  ASSUME Next, htimer' = "closing"
  PROVE  htimer = "closing" \/ ~awaited
<1>1. CASE CallerStep
  BY <1>1 DEF CallerStep, OpenTunnel, GetHeader, OldStart, waitForSettings, StartDone, StartClose, ServeDone, Fail
<1>2. CASE HandlerStep
  BY <1>2 DEF HandlerStep, Refuse, openTunnel, openReverseTunnel, ReverseReturn, HandlerList, HandlerDone,
     HandlerReturn, NewTimer
<1>3. CASE TimerStep \/ HandlerTimerStep \/ SendSettings \/ SendReject \/ HandlerContext
  BY <1>3 DEF TimerStep, TimerFire, TimerRun, HandlerTimerStep, HandlerTimerFire, HandlerTimerCheck,
     HandlerTimerClose, SendSettings, SendReject, HandlerContext
<1>4. CASE LoopStep \/ ServerStep
  BY <1>4 DEF LoopStep, LoopUnsupported, LoopSettings, LoopFrame, LoopFails, LoopClose, LoopExit, ServerStep,
     createStream, ServerEnd
<1>5. CASE Environment
  BY <1>5 DEF Environment, CancelParent, Break, newStream, Close, Shutdown, Stop
<1>. QED  BY <1>1, <1>2, <1>3, <1>4, <1>5 DEF Next
-----------------------------------------------------------------------------
(***************************************************************************)
(* The theorems.                                                           *)
(***************************************************************************)
LEMMA InitIInv == Init => IInv
<1>. SUFFICES ASSUME Init PROVE IInv
  OBVIOUS
<1>1. FlagsOK
  BY Zenon DEF Init, FlagsOK
<1>2. TypeOK
  <2>1. -1 \in Ids /\ 0 \in Ids
    BY EstablishmentAssumption DEF Ids
  <2>2. Nil \in Settings
    BY DEF Nil, Settings
  <2>3. <<>> \in Seq(Ids) /\ <<>> \in Seq(ClientFrame) /\ <<>> \in Seq(ServerFrame)
    OBVIOUS
  <2>4. DataOK
    BY <2>1, <2>2, <2>3 DEF Init, DataOK
  <2>5. ControlOK /\ cfg \in Configs
    BY DEF Init, ControlOK, NewTimer, Errors
  <2>. QED  BY <1>1, <2>4, <2>5, TypeParts
<1>3. Attempt /\ Headless /\ Timeout /\ Negotiated /\ Listing
  BY DEF Init, Attempt, Headless, Timeout, Negotiated, Listing, NewTimer
<1>4. Quiet /\ Requests /\ Accepted /\ PeersAgree
  BY DEF Init, Quiet, Requests, Accepted, PeersAgree
<1>. QED  BY <1>2, <1>3, <1>4 DEF IInv

LEMMA StutterIInv ==
  ASSUME IInv, UNCHANGED vars
  PROVE  IInv'
BY DEF vars, IInv, TypeOK, Attempt, Headless, Timeout, Negotiated, Listing, Quiet, Requests, Accepted, PeersAgree,
   Forward, CallerGone, ClientWindow

\* The invariant holds in every state of every attempt, whatever the peers, the
\* options, the faults and the number of streams.
THEOREM Invariance == Spec => []IInv
<1>1. IInv /\ [Next]_vars => IInv'
  BY TypeStep, AttemptStep, HeadlessStep, TimeoutStep, NegotiatedStep, ListingStep, QuietStep, RequestsStep,
     AcceptedStep, PeersAgreeStep, StutterIInv DEF IInv
<1>. QED  BY InitIInv, <1>1, PTL DEF Spec

\* Every variable keeps its type: in particular IDs stay within the width of a
\* stream ID although newStream counts past the largest.
THEOREM TypeCorrect == Spec => []TypeOK
BY Invariance, PTL DEF IInv

\* Two ends of this version come to terms (recvLoop, createStream), whatever
\* options either has and whatever else happens; the one exception is an RPC
\* that ends before its headers, which Start reports as a peer that does not
\* negotiate.
THEOREM Agreement == Spec => []PeersAgree
BY Invariance, PTL DEF IInv

\* Streams run only in the latest revision both ends support, with windows that
\* have room for data at both ends (recvLoop's and createStream's checks).
THEOREM Flow == Spec => []StreamsCanFlow
<1>1. IInv => StreamsCanFlow
  <2>. SUFFICES ASSUME IInv PROVE StreamsCanFlow
    OBVIOUS
  <2>1. ASSUME settings # Nil
        PROVE  /\ useRevision \in settings.revisions \cap supportedRevisions
               /\ \A r \in settings.revisions \cap supportedRevisions : r <= useRevision
               /\ settings.initialWindowSize > messageOverhead(useRevision)
    <3>1. settings \in Settings /\ checkSettings(settings) = "ok" /\ useRevision = chooseRevision(settings.revisions)
      BY <2>1 DEF IInv, TypeOK, Negotiated
    <3>2. useRevision \in settings.revisions \cap supportedRevisions
          /\ settings.initialWindowSize >= minWindowSize(useRevision)
      BY <3>1, AcceptedSettings
    <3>3. settings.revisions \in SUBSET Revisions /\ settings.initialWindowSize \in Nat
      BY <3>1 DEF Settings
    <3>4. \A r \in settings.revisions \cap supportedRevisions : r <= useRevision
      BY <3>1, <3>2, <3>3, ChosenRevision
    <3>5. settings.initialWindowSize > messageOverhead(useRevision)
      BY <3>2, <3>3 DEF supportedRevisions, minWindowSize, messageOverhead, revisionTwoMessageOverhead
    <3>. QED  BY <3>2, <3>4, <3>5
  <2>2. ASSUME accepted # <<>>
        PROVE  ~cfg.old /\ ClientWindow > messageOverhead(useRevision)
    <3>1. useRevision \in supportedRevisions /\ ClientWindow >= minWindowSize(useRevision)
      BY <2>2 DEF IInv, Accepted
    \* A client that does not negotiate has no revision.
    <3>2. ~cfg.old
      BY <3>1 DEF IInv, Attempt, Negotiated, supportedRevisions
    <3>3. ClientWindow \in Nat
      BY WindowAsked DEF IInv, TypeOK
    <3>. QED  BY <3>1, <3>2, <3>3 DEF supportedRevisions, minWindowSize, messageOverhead, revisionTwoMessageOverhead
  <2>. QED  BY <2>1, <2>2 DEF StreamsCanFlow
<1>. QED  BY Invariance, <1>1, PTL

\* The caller's timer never ends a tunnel reported as established
\* (establishment.done and the timer's goroutine), and the handler's never one
\* whose settings came before its function looked for them
\* (newReverseChannel).
THEOREM Survival == Spec => EstablishedSurvives
<1>1. IInv => (result = "ok" => ctx # "timer")
  BY DEF IInv, Timeout
<1>2. IInv /\ [Next]_vars => [CameInTime => CameInTime']_vars
  <2>. SUFFICES ASSUME IInv, Next, CameInTime PROVE CameInTime'
    BY DEF vars
  <2>1. awaited'
    BY FlagsStay DEF CameInTime
  <2>2. htimer' # "closing"
    BY TimerMoves DEF CameInTime
  <2>3. err' # "timeout"
    <3>1. CASE LoopSettings
      \* There are settings already.
      BY <3>1 DEF LoopSettings, IInv, Negotiated, CameInTime
    <3>2. CASE ~LoopSettings
      BY <3>2, ErrorMoves DEF HandlerTimerClose, LoopUnsupported, CameInTime
    <3>. QED  BY <3>1, <3>2
  <2>. QED  BY <2>1, <2>2, <2>3 DEF CameInTime
<1>. QED  BY Invariance, <1>1, <1>2, PTL DEF Spec, EstablishedSurvives

\* A reverse tunnel that is listed has settings (newReverseChannel and the look
\* at ch.Done after it).
THEOREM Listed == Spec => []ListedHasSettings
<1>1. IInv => ListedHasSettings
  BY DEF IInv, Listing, Negotiated, ListedHasSettings
<1>. QED  BY Invariance, <1>1, PTL

\* The IDs of the streams a server accepts are positive and grow, also when the
\* client's counter has wrapped around (newStream, createStream).
THEOREM FreshIds == Spec => []IdsFresh
<1>1. IInv => IdsFresh
  BY DEF IInv, Accepted, IdsFresh
<1>. QED  BY Invariance, <1>1, PTL
=============================================================================
