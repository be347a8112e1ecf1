---------------------------- MODULE Establishment ----------------------------
(***************************************************************************)
(* One attempt to open a tunnel, from the call that opens it to the first  *)
(* RPCs on it and to its end (establish.go, Start, newReverseChannel, the  *)
(* beginning of recvLoop and of serve, createStream's checks).             *)
(*                                                                         *)
(* The caller opens the RPC that carries the tunnel, the handler serves    *)
(* it.  In a forward tunnel the caller (Start) becomes the tunnel client   *)
(* and the handler (openTunnel) the tunnel server; in a reverse tunnel     *)
(* the caller (Serve) is the server and the handler (openReverseTunnel)    *)
(* the client.  The tunnel client has a tunnelChannel with a receive loop. *)
(*                                                                         *)
(* Either end may be another version: what such an end sends is part of    *)
(* the configuration, from which Init chooses.  The locks of newStream and *)
(* the steps of close are the matter of Tunnel; here each is one step.     *)
(***************************************************************************)
EXTENDS Negotiation, Sequences

CONSTANTS
  Configs,      \* configurations of the two ends
  MaxId         \* the largest stream ID; the next one wraps around

Nil == [revisions |-> {}, initialWindowSize |-> 0]     \* no settings

(***************************************************************************)
(* dir; timeout, htimeout: option establishmentTimeout of the caller and   *)
(* of the handler; supported: the handler serves tunnels of this           *)
(* direction; request: the caller's request says that it negotiates;       *)
(* headers: what the handler's headers say of that ("none" if it never     *)
(* sends any); first, settings: the first frame of the tunnel server       *)
(* ("none" if it never sends any) and the settings in it; window: option   *)
(* initialWindowSize of the tunnel client; old: the tunnel client is a     *)
(* version that does not negotiate; raw: it is another implementation,     *)
(* which asks for that window whatever it is; this: both ends are this     *)
(* version; streams: bound on the calls of newStream; faults: what else    *)
(* can happen.                                                             *)
(***************************************************************************)
Config ==
  [dir : {"forward", "reverse"}, timeout : Int, htimeout : Int, supported : BOOLEAN, request : BOOLEAN,
   headers : {"none", "plain", "negotiate"}, first : {"settings", "badid", "other", "none"},
   settings : Settings, window : Nat, old : BOOLEAN, raw : BOOLEAN, this : BOOLEAN, streams : Nat,
   faults : SUBSET {"parent", "break", "close", "shutdown", "method", "refuse"}]

\* What it means that both ends are this version, whatever their options: the
\* settings are those of SettingsOf, with a window that initOptions leaves alone.
ThisVersion(c) ==
  /\ c.request /\ c.headers = "negotiate" /\ c.first = "settings" /\ ~c.old /\ ~c.raw
  /\ c.settings.revisions = supportedRevisions
  /\ c.settings.initialWindowSize = WindowOption(c.settings.initialWindowSize)

ASSUME EstablishmentAssumption ==
  /\ \A c \in Configs : c \in Config /\ (c.this => ThisVersion(c))
  /\ MaxId \in Nat \ {0}

VARIABLES
  cfg,          \* the configuration
  pc, result,   \* where Start or Serve is, and what establishing resulted in
  timer, ctx,   \* establishment.timer; how the context of the RPC ended
  opened,       \* the RPC has been opened
  headers,      \* the handler's headers
  half, broken, \* the caller has half-closed the RPC; the network has failed
  hctx,         \* the handler's context is done
  hpc, htimer,  \* where the handler is; the timer of newReverseChannel
  loop,         \* where recvLoop is
  respMD,       \* what stream.Header has returned to the caller
  settings, useRevision, awaited,   \* tunnelChannel; awaited: awaitSettings is closed
  finished, err, cancelled,         \* tunnelChannel; cancelled: its cancel was called
  lastStreamID, calls, panicked,    \* calls of newStream; one met nil settings
  serving, sending,                 \* serve runs; its goroutine that sends settings
  lastSeen, accepted, rejected,     \* tunnelServer; streams it started, and reasons for those it did not
  rejecting, isClosing, protoErr,
  c2s, s2c      \* frames from the tunnel client to the tunnel server and back

callerVars == <<pc, result, timer>>
rpcVars == <<opened, headers, broken, hctx>>
chanVars == <<respMD, settings, useRevision, awaited>>
closeVars == <<half, finished, err, cancelled>>
callVars == <<lastStreamID, calls, panicked>>
serverVars == <<lastSeen, accepted, rejected, rejecting, isClosing, protoErr>>
vars == <<cfg, pc, result, timer, ctx, opened, headers, half, broken, hctx, hpc, htimer, loop, respMD,
          settings, useRevision, awaited, finished, err, cancelled, lastStreamID, calls, panicked,
          serving, sending, lastSeen, accepted, rejected, rejecting, isClosing, protoErr, c2s, s2c>>

Ids == -(MaxId + 1) .. MaxId
Errors == {"none", "eof", "recv", "unsupported", "precondition", "internal", "timeout"}
ClientFrame == [id : Ids, revision : Nat, window : Nat]
ServerFrame == [kind : {"settings", "badid", "other", "close"}, settings : Settings]

TypeOK ==
  /\ cfg \in Configs
  /\ pc \in {"open", "header", "settings", "done", "failed", "close", "serve", "returned"}
  /\ result \in {"none", "ok", "err", "timeout"}
  /\ timer \in {"none", "armed", "fired", "ran", "stopped"}
  /\ ctx \in {"live", "timer", "parent", "released"}
  /\ headers \in {"none", "plain", "negotiate"} /\ respMD \in {"none", "plain", "negotiate"}
  /\ hpc \in {"idle", "serve", "settings", "check", "listed", "close", "returned"}
  /\ htimer \in {"none", "armed", "fired", "closing", "ran", "stopped"}
  /\ loop \in {"none", "first", "loop", "failed", "exiting", "exit"}
  /\ settings \in Settings /\ useRevision \in {0} \cup supportedRevisions
  /\ err \in Errors
  /\ lastStreamID \in Ids /\ calls \in Nat
  /\ sending \in {"no", "pending", "sent"}
  /\ lastSeen \in Ids /\ accepted \in Seq(Ids)
  /\ rejected \subseteq {"closing", "revision", "window", "method"} /\ rejecting \in Nat
  /\ c2s \in Seq(ClientFrame) /\ s2c \in Seq(ServerFrame)
  /\ {opened, half, broken, hctx, awaited, finished, cancelled, panicked, serving, isClosing, protoErr}
       \subseteq BOOLEAN

Forward == cfg.dir = "forward"

\* time.AfterFunc, if the option sets a limit.
NewTimer(timeout) ==
  IF initOptions([initialWindowSize |-> 0, maxChunkSize |-> 0, minWindowUpdateSize |-> 0,
                  establishmentTimeout |-> timeout]).establishmentTimeout > 0
  THEN "armed" ELSE "none"

\* startEstablishment has been called.
Init ==
  /\ cfg \in Configs
  /\ pc = "open" /\ result = "none" /\ timer = NewTimer(cfg.timeout) /\ ctx = "live"
  /\ opened = FALSE /\ headers = "none" /\ half = FALSE /\ broken = FALSE /\ hctx = FALSE
  /\ hpc = "idle" /\ htimer = "none" /\ loop = "none"
  /\ respMD = "none" /\ settings = Nil /\ useRevision = 0 /\ awaited = FALSE
  /\ finished = FALSE /\ err = "none" /\ cancelled = FALSE
  /\ lastStreamID = 0 /\ calls = 0 /\ panicked = FALSE
  /\ serving = FALSE /\ sending = "no" /\ lastSeen = -1 /\ accepted = <<>> /\ rejected = {}
  /\ rejecting = 0 /\ isClosing = FALSE /\ protoErr = FALSE
  /\ c2s = <<>> /\ s2c = <<>>
-----------------------------------------------------------------------------
(***************************************************************************)
(* The RPC that carries the tunnel (gRPC, not in this repository): it ends *)
(* for the caller when its context is done or the network fails, or when   *)
(* the handler has returned and everything it sent has been read.          *)
(***************************************************************************)
CallerGone == ctx # "live" \/ broken
HandlerGone == hpc = "returned"

\* Recv of the tunnel client and of the tunnel server fails.
ClientRecvFails ==
  IF Forward THEN CallerGone \/ (HandlerGone /\ s2c = <<>>)
  ELSE hctx \/ (half /\ s2c = <<>>)
ServerRecvFails ==
  IF Forward THEN hctx \/ (half /\ c2s = <<>>)
  ELSE CallerGone \/ (HandlerGone /\ c2s = <<>>)

\* The handler learns that the caller is gone.
HandlerContext ==
  /\ opened /\ ~hctx
  /\ CallerGone \/ HandlerGone
  /\ hctx' = TRUE
  /\ UNCHANGED <<cfg, callerVars, ctx, opened, headers, broken, hpc, htimer, loop, chanVars, closeVars,
                 callVars, serving, sending, serverVars, c2s, s2c>>

\* The context given to Start or Serve ends.
CancelParent ==
  /\ "parent" \in cfg.faults
  /\ ctx = "live"
  /\ ctx' = "parent"
  /\ UNCHANGED <<cfg, callerVars, rpcVars, hpc, htimer, loop, chanVars, closeVars, callVars, serving,
                 sending, serverVars, c2s, s2c>>

Break ==
  /\ "break" \in cfg.faults
  /\ opened /\ ~broken
  /\ broken' = TRUE
  /\ UNCHANGED <<cfg, callerVars, ctx, opened, headers, hctx, hpc, htimer, loop, chanVars, closeVars,
                 callVars, serving, sending, serverVars, c2s, s2c>>
-----------------------------------------------------------------------------
(***************************************************************************)
(* establishment: the timer, and what done and release do.                 *)
(***************************************************************************)
\* The time is up: a goroutine starts, and Stop has no effect any more.
TimerFire ==
  /\ timer = "armed"
  /\ timer' = "fired"
  /\ UNCHANGED <<cfg, pc, result, ctx, rpcVars, hpc, htimer, loop, chanVars, closeVars, callVars, serving,
                 sending, serverVars, c2s, s2c>>

\* That goroutine cancels the context.
TimerRun ==
  /\ timer = "fired"
  /\ timer' = "ran"
  /\ ctx' = IF ctx = "live" THEN "timer" ELSE ctx
  /\ UNCHANGED <<cfg, pc, result, rpcVars, hpc, htimer, loop, chanVars, closeVars, callVars, serving,
                 sending, serverVars, c2s, s2c>>

\* Mutant: done does not look whether it stopped the timer in time.
Outcome_Ignored(e) == e
\* What done(e) returns.
Outcome(e) == IF timer \in {"fired", "ran"} THEN "timeout" ELSE e

done(e) ==
  /\ result' = Outcome(e)
  /\ timer' = IF timer = "armed" THEN "stopped" ELSE timer

\* Mutant: the context is left to the transport.
release_Nothing == UNCHANGED ctx
release == ctx' = IF ctx = "live" THEN "released" ELSE ctx
-----------------------------------------------------------------------------
(***************************************************************************)
(* tunnelChannel.close.  The tearDown of a forward tunnel half-closes the  *)
(* RPC; that of a reverse tunnel takes it off the lists (ReverseChannels). *)
(***************************************************************************)
close(e) ==
  /\ half' = (half \/ Forward)
  /\ finished' = TRUE
  /\ err' = IF finished THEN err ELSE e
  /\ cancelled' = TRUE

\* The channel's context, which derives from that of the RPC, is done.  gRPC
\* also ends it when Recv has reported the end of the RPC.
ChannelDone == cancelled \/ (IF Forward THEN ctx # "live" ELSE hctx)
ChannelMayBeDone == ChannelDone \/ (Forward /\ loop = "failed")

\* serverSendsSettings
SettingsExpected == IF Forward THEN respMD = "negotiate" ELSE cfg.request
-----------------------------------------------------------------------------
(***************************************************************************)
(* The caller: Start, and Serve of a reverse tunnel.                       *)
(***************************************************************************)
\* Start and Serve return without a tunnel: est.done, then est.release.
Fail ==
  /\ pc' = "returned"
  /\ done("err") /\ release
  /\ UNCHANGED <<cfg, hpc, htimer, loop, chanVars, closeVars, callVars, serving, sending, serverVars, c2s, s2c>>

\* stub.OpenTunnel, stub.OpenReverseTunnel
OpenTunnel ==
  /\ pc = "open"
  /\ \/ /\ ctx = "live"
        /\ pc' = "header" /\ opened' = TRUE
        /\ UNCHANGED <<cfg, result, timer, ctx, headers, broken, hctx, hpc, htimer, loop, chanVars, closeVars,
                       callVars, serving, sending, serverVars, c2s, s2c>>
     \/ /\ ctx # "live" \/ "refuse" \in cfg.faults
        /\ Fail /\ UNCHANGED rpcVars

\* stream.Header returns the headers.  If the RPC ends before they come, for
\* whatever reason, it fails or returns neither headers nor an error: grpc-go
\* leaves the error to Recv.
Header(md) ==
  \/ md = headers /\ headers # "none"
  \/ md = "none" /\ (CallerGone \/ (HandlerGone /\ headers = "none"))

\* Start goes on to make the channel, Serve to est.done.
GetHeader ==
  /\ pc = "header" /\ ~(cfg.old /\ Forward)
  /\ \/ /\ Header(respMD')
        /\ pc' = IF Forward THEN "settings" ELSE "done"
        /\ loop' = IF Forward THEN "first" ELSE loop
        /\ UNCHANGED <<cfg, result, timer, ctx, rpcVars, hpc, htimer, settings, useRevision, awaited, closeVars,
                       callVars, serving, sending, serverVars, c2s, s2c>>
     \/ /\ Header("none")
        /\ Fail /\ UNCHANGED rpcVars

\* A tunnel client of a version that does not negotiate has a channel at once.
OldStart ==
  /\ pc = "header" /\ cfg.old /\ Forward
  /\ headers # "none"
  /\ pc' = "returned"
  /\ done("ok")
  /\ UNCHANGED <<cfg, ctx, rpcVars, hpc, htimer, loop, chanVars, closeVars, callVars, serving, sending,
                 serverVars, c2s, s2c>>

\* Mutant: only settings end the wait, the end of the channel does not.
waitForSettings_Deaf ==
  /\ pc = "settings"
  /\ awaited
  /\ pc' = "done"
  /\ UNCHANGED <<cfg, result, timer, ctx, rpcVars, hpc, htimer, loop, chanVars, closeVars, callVars, serving,
                 sending, serverVars, c2s, s2c>>

waitForSettings ==
  /\ pc = "settings"
  /\ awaited \/ ChannelMayBeDone
  /\ pc' = "done"
  /\ UNCHANGED <<cfg, result, timer, ctx, rpcVars, hpc, htimer, loop, chanVars, closeVars, callVars, serving,
                 sending, serverVars, c2s, s2c>>

\* est.done(nil) of Start.
StartDone ==
  /\ pc = "done" /\ Forward
  /\ done("ok")
  /\ pc' = IF Outcome("ok") = "ok" THEN "returned" ELSE "close"
  /\ UNCHANGED <<cfg, ctx, rpcVars, hpc, htimer, loop, chanVars, closeVars, callVars, serving, sending,
                 serverVars, c2s, s2c>>

\* ch.Close of Start, after a timeout.
StartClose ==
  /\ pc = "close"
  /\ pc' = "returned"
  /\ close("eof")
  /\ UNCHANGED <<cfg, result, timer, ctx, rpcVars, hpc, htimer, loop, chanVars, callVars, serving, sending,
                 serverVars, c2s, s2c>>

\* est.done of Serve, addInstance, and serveTunnel up to its loop.
ServeDone ==
  /\ pc = "done" /\ ~Forward
  /\ \/ /\ Outcome("ok") = "ok" /\ ~isClosing
        /\ done("ok")
        /\ pc' = "serve" /\ serving' = TRUE
        /\ sending' = IF respMD = "negotiate" THEN "pending" ELSE "no"
        /\ UNCHANGED ctx
     \/ /\ Outcome("ok") # "ok" \/ isClosing
        /\ done("err") /\ release
        /\ pc' = "returned"
        /\ UNCHANGED <<serving, sending>>
  /\ UNCHANGED <<cfg, rpcVars, hpc, htimer, loop, chanVars, closeVars, callVars, serverVars, c2s, s2c>>
-----------------------------------------------------------------------------
(***************************************************************************)
(* The handler: openTunnel and openReverseTunnel.                          *)
(***************************************************************************)
\* A direction that is not supported is refused without headers.
Refuse ==
  /\ opened /\ hpc = "idle" /\ ~cfg.supported
  /\ hpc' = "returned"
  /\ UNCHANGED <<cfg, callerVars, ctx, rpcVars, htimer, loop, chanVars, closeVars, callVars, serving, sending,
                 serverVars, c2s, s2c>>

\* Headers at once, then serveTunnel up to its loop.
openTunnel ==
  /\ opened /\ hpc = "idle" /\ cfg.supported /\ Forward
  /\ hpc' = "serve" /\ headers' = cfg.headers /\ serving' = TRUE
  /\ sending' = IF cfg.request THEN "pending" ELSE "no"
  /\ UNCHANGED <<cfg, callerVars, ctx, opened, broken, hctx, htimer, loop, chanVars, closeVars, callVars,
                 serverVars, c2s, s2c>>

\* Headers at once, then newReverseChannel up to waitForSettings.  (An old
\* version lists the tunnel without waiting.)
openReverseTunnel ==
  /\ opened /\ hpc = "idle" /\ cfg.supported /\ ~Forward
  /\ headers' = cfg.headers
  /\ hpc' = IF cfg.old THEN "listed" ELSE "settings"
  /\ loop' = IF cfg.old THEN loop ELSE "first"
  /\ htimer' = IF cfg.old THEN "none" ELSE NewTimer(cfg.htimeout)
  /\ UNCHANGED <<cfg, callerVars, ctx, opened, broken, hctx, chanVars, closeVars, callVars, serving, sending,
                 serverVars, c2s, s2c>>

\* newReverseChannel returns, with the deferred timer.Stop.
ReverseReturn ==
  /\ hpc = "settings"
  /\ awaited \/ ChannelDone
  /\ hpc' = "check"
  /\ htimer' = IF htimer = "armed" THEN "stopped" ELSE htimer
  /\ UNCHANGED <<cfg, callerVars, ctx, rpcVars, loop, chanVars, closeVars, callVars, serving, sending,
                 serverVars, c2s, s2c>>

HandlerTimerFire ==
  /\ htimer = "armed"
  /\ htimer' = "fired"
  /\ UNCHANGED <<cfg, callerVars, ctx, rpcVars, hpc, loop, chanVars, closeVars, callVars, serving, sending,
                 serverVars, c2s, s2c>>

\* Mutant: the function closes the channel whether it has settings or not.
HandlerTimerCheck_Blind ==
  /\ htimer = "fired"
  /\ htimer' = "closing"
  /\ UNCHANGED <<cfg, callerVars, ctx, rpcVars, hpc, loop, chanVars, closeVars, callVars, serving, sending,
                 serverVars, c2s, s2c>>

\* The timer's function looks whether the settings have come ...
HandlerTimerCheck ==
  /\ htimer = "fired"
  /\ htimer' = IF awaited THEN "ran" ELSE "closing"
  /\ UNCHANGED <<cfg, callerVars, ctx, rpcVars, hpc, loop, chanVars, closeVars, callVars, serving, sending,
                 serverVars, c2s, s2c>>

\* ... and closes the channel if they had not.
HandlerTimerClose ==
  /\ htimer = "closing"
  /\ htimer' = "ran"
  /\ close("timeout")
  /\ UNCHANGED <<cfg, callerVars, ctx, rpcVars, hpc, loop, chanVars, callVars, serving, sending, serverVars,
                 c2s, s2c>>

\* Mutant: the tunnel is listed without a look at ch.Done.
HandlerList_Unchecked ==
  /\ hpc = "check"
  /\ hpc' = "listed"
  /\ UNCHANGED <<cfg, callerVars, ctx, rpcVars, htimer, loop, chanVars, closeVars, callVars, serving, sending,
                 serverVars, c2s, s2c>>

\* The tunnel is listed and the application told, unless it is done already.
HandlerList ==
  /\ hpc = "check"
  /\ hpc' = IF ChannelDone THEN "close" ELSE "listed"
  /\ UNCHANGED <<cfg, callerVars, ctx, rpcVars, htimer, loop, chanVars, closeVars, callVars, serving, sending,
                 serverVars, c2s, s2c>>

HandlerDone ==
  /\ hpc = "listed" /\ ChannelDone
  /\ hpc' = "close"
  /\ UNCHANGED <<cfg, callerVars, ctx, rpcVars, htimer, loop, chanVars, closeVars, callVars, serving, sending,
                 serverVars, c2s, s2c>>

\* The deferred ch.Close, and the return.
HandlerReturn ==
  /\ hpc = "close"
  /\ close("eof")
  /\ hpc' = "returned"
  /\ UNCHANGED <<cfg, callerVars, ctx, rpcVars, htimer, loop, chanVars, callVars, serving, sending, serverVars,
                 c2s, s2c>>
-----------------------------------------------------------------------------
(***************************************************************************)
(* The receive loop of the tunnel client.                                  *)
(***************************************************************************)
\* The server does not negotiate.
LoopUnsupported ==
  /\ loop = "first" /\ ~SettingsExpected
  /\ close("unsupported")
  /\ loop' = "exiting"
  /\ UNCHANGED <<cfg, callerVars, ctx, rpcVars, hpc, htimer, chanVars, callVars, serving, sending, serverVars,
                 c2s, s2c>>

\* The first frame has to be settings that this end can work with.
LoopSettings ==
  /\ loop = "first" /\ SettingsExpected
  /\ s2c # <<>>
  /\ s2c' = Tail(s2c)
  /\ LET f == Head(s2c)
         verdict == IF f.kind = "settings" THEN checkSettings(f.settings) ELSE "internal" IN
     /\ useRevision' = IF f.kind = "settings" THEN chooseRevision(f.settings.revisions) ELSE 0
     /\ \/ /\ verdict = "ok"
           /\ settings' = f.settings /\ awaited' = TRUE
           /\ loop' = "loop"
           /\ UNCHANGED closeVars
        \/ /\ verdict # "ok"
           /\ close(verdict)
           /\ loop' = "exiting"
           /\ UNCHANGED <<settings, awaited>>
  /\ UNCHANGED <<cfg, callerVars, ctx, rpcVars, hpc, htimer, respMD, callVars, serving, sending, serverVars,
                 c2s>>

\* A later frame ends a stream that was rejected (see Tunnel).
LoopFrame ==
  /\ loop = "loop"
  /\ s2c # <<>>
  /\ s2c' = Tail(s2c)
  /\ UNCHANGED <<cfg, callerVars, ctx, rpcVars, hpc, htimer, loop, chanVars, closeVars, callVars, serving,
                 sending, serverVars, c2s>>

\* Recv fails ...
LoopFails ==
  /\ loop = "loop" \/ (loop = "first" /\ SettingsExpected)
  /\ ClientRecvFails
  /\ loop' = "failed"
  /\ UNCHANGED <<cfg, callerVars, ctx, rpcVars, hpc, htimer, chanVars, closeVars, callVars, serving, sending,
                 serverVars, c2s, s2c>>

\* ... and the loop closes the channel.
LoopClose ==
  /\ loop = "failed"
  /\ close("recv")
  /\ loop' = "exiting"
  /\ UNCHANGED <<cfg, callerVars, ctx, rpcVars, hpc, htimer, chanVars, callVars, serving, sending, serverVars,
                 c2s, s2c>>

\* The deferred streamDone, which is est.release in a forward tunnel.
LoopExit ==
  /\ loop = "exiting"
  /\ loop' = "exit"
  /\ IF Forward THEN release ELSE UNCHANGED ctx
  /\ UNCHANGED <<cfg, callerVars, rpcVars, hpc, htimer, chanVars, closeVars, callVars, serving, sending,
                 serverVars, c2s, s2c>>
-----------------------------------------------------------------------------
(***************************************************************************)
(* RPCs on the tunnel, as far as their creation.                           *)
(***************************************************************************)
\* lastStreamID++ of a signed integer.
Increment(id) == IF id = MaxId THEN -(MaxId + 1) ELSE id + 1

ClientSendFails == IF Forward THEN CallerGone \/ half \/ HandlerGone ELSE hctx
ServerSendFails == HandlerGone \/ IF Forward THEN hctx ELSE CallerGone \/ half

\* The window that the client's frames ask for: initOptions raises a small one,
\* another implementation may not.
ClientWindow == IF cfg.raw THEN cfg.window ELSE WindowOption(cfg.window)

\* newStream.  It fails, without any effect, if the channel is finished or its
\* IDs are used up; without settings it dereferences a nil pointer.
newStream ==
  /\ calls < cfg.streams
  /\ IF Forward THEN pc = "returned" /\ result = "ok" ELSE hpc = "listed"
  /\ ~finished /\ lastStreamID >= 0
  /\ calls' = calls + 1
  /\ lastStreamID' = Increment(lastStreamID)
  /\ LET nil == settings = Nil /\ ~cfg.old
         frame == [id |-> Increment(lastStreamID), revision |-> useRevision,
                   window |-> ClientWindow] IN
     /\ panicked' = (panicked \/ nil)
     /\ c2s' = IF nil \/ ClientSendFails THEN c2s ELSE Append(c2s, frame)
  /\ UNCHANGED <<cfg, callerVars, ctx, rpcVars, hpc, htimer, loop, chanVars, closeVars, serving, sending,
                 serverVars, s2c>>

\* Close, called by the application on a channel it was given.
Close ==
  /\ "close" \in cfg.faults
  /\ IF Forward THEN pc = "returned" /\ result = "ok" /\ loop # "none" ELSE hpc = "listed"
  /\ ~finished
  /\ close("eof")
  /\ UNCHANGED <<cfg, callerVars, ctx, rpcVars, hpc, htimer, loop, chanVars, callVars, serving, sending,
                 serverVars, c2s, s2c>>
-----------------------------------------------------------------------------
(***************************************************************************)
(* The tunnel server.                                                      *)
(***************************************************************************)
\* The goroutine of serve that sends the settings; a server that is another
\* version sends what it likes, or nothing.
SendSettings ==
  /\ sending = "pending" /\ cfg.first # "none"
  /\ sending' = "sent"
  /\ s2c' = IF ServerSendFails THEN s2c ELSE Append(s2c, [kind |-> cfg.first, settings |-> cfg.settings])
  /\ UNCHANGED <<cfg, callerVars, ctx, rpcVars, hpc, htimer, loop, chanVars, closeVars, callVars, serving,
                 serverVars, c2s>>

\* serve returns, and with it openTunnel or Serve.
EndServe ==
  /\ serving' = FALSE
  /\ IF Forward THEN hpc' = "returned" /\ UNCHANGED <<pc, ctx>>
                ELSE pc' = "returned" /\ release /\ UNCHANGED hpc

\* Mutant: an ID that is not larger than those before is not noticed.
Used_Never(id) == FALSE
Used(id) == id <= lastSeen

\* createStream: an ID that was used ends the tunnel, other obstacles only the
\* stream.
createStream ==
  /\ serving /\ c2s # <<>>
  /\ c2s' = Tail(c2s)
  /\ LET f == Head(c2s)
         check == checkNewStream(f.revision, f.window)
         Reject(reason) == /\ rejected' = rejected \cup {reason}
                           /\ rejecting' = rejecting + 1
                           /\ UNCHANGED accepted IN
     \/ /\ Used(f.id)
        /\ protoErr' = TRUE
        /\ EndServe
        /\ UNCHANGED <<lastSeen, accepted, rejected, rejecting>>
     \/ /\ ~Used(f.id)
        /\ lastSeen' = f.id
        /\ \/ isClosing /\ Reject("closing")
           \/ ~isClosing /\ check # "ok" /\ Reject(check)
           \/ ~isClosing /\ check = "ok" /\ "method" \in cfg.faults /\ Reject("method")
           \/ ~isClosing /\ check = "ok" /\ accepted' = Append(accepted, f.id) /\ UNCHANGED <<rejected, rejecting>>
        /\ UNCHANGED <<serving, hpc, pc, ctx, protoErr>>
  /\ UNCHANGED <<cfg, result, timer, rpcVars, htimer, loop, chanVars, closeVars, callVars, sending, isClosing, s2c>>

\* The goroutine that reports a rejected stream.
SendReject ==
  /\ rejecting > 0
  /\ rejecting' = rejecting - 1
  /\ s2c' = IF ServerSendFails THEN s2c ELSE Append(s2c, [kind |-> "close", settings |-> Nil])
  /\ UNCHANGED <<cfg, callerVars, ctx, rpcVars, hpc, htimer, loop, chanVars, closeVars, callVars, serving,
                 sending, lastSeen, accepted, rejected, isClosing, protoErr, c2s>>

\* Recv fails or reports the end.  (A server that never answers ends only with
\* its context.)
ServerEnd ==
  /\ serving /\ ServerRecvFails
  /\ cfg.first = "none" /\ Forward => hctx
  /\ EndServe
  /\ UNCHANGED <<cfg, result, timer, rpcVars, htimer, loop, chanVars, closeVars, callVars, sending, serverVars,
                 c2s, s2c>>

\* InitiateShutdown, or GracefulStop of a reverse server.
Shutdown ==
  /\ "shutdown" \in cfg.faults
  /\ ~isClosing
  /\ isClosing' = TRUE
  /\ UNCHANGED <<cfg, callerVars, ctx, rpcVars, hpc, htimer, loop, chanVars, closeVars, callVars,
                 serving, sending, lastSeen, accepted, rejected, rejecting, protoErr, c2s, s2c>>

\* Stop of a reverse server half-closes its tunnels, too.
Stop ==
  /\ "shutdown" \in cfg.faults
  /\ ~Forward /\ serving /\ ~half
  /\ isClosing' = TRUE /\ half' = TRUE
  /\ UNCHANGED <<cfg, callerVars, ctx, rpcVars, hpc, htimer, loop, chanVars, finished, err, cancelled, callVars,
                 serving, sending, lastSeen, accepted, rejected, rejecting, protoErr, c2s, s2c>>
-----------------------------------------------------------------------------
CallerStep == OpenTunnel \/ GetHeader \/ OldStart \/ waitForSettings \/ StartDone \/ StartClose \/ ServeDone
HandlerStep ==
  Refuse \/ openTunnel \/ openReverseTunnel \/ ReverseReturn \/ HandlerList \/ HandlerDone \/ HandlerReturn
TimerStep == TimerFire \/ TimerRun
HandlerTimerStep == HandlerTimerFire \/ HandlerTimerCheck \/ HandlerTimerClose
LoopStep == LoopUnsupported \/ LoopSettings \/ LoopFrame \/ LoopFails \/ LoopClose \/ LoopExit
ServerStep == createStream \/ ServerEnd
Environment == CancelParent \/ Break \/ newStream \/ Close \/ Shutdown \/ Stop

Next ==
  \/ CallerStep \/ HandlerStep \/ TimerStep \/ HandlerTimerStep \/ LoopStep \/ ServerStep
  \/ SendSettings \/ SendReject \/ HandlerContext \/ Environment

Spec == Init /\ [][Next]_vars

(***************************************************************************)
(* Fairness: goroutines run, timers expire unless they are stopped, gRPC   *)
(* tells the handler that its caller is gone.  Nothing makes the           *)
(* application or the network do anything, or a silent peer answer.        *)
(***************************************************************************)
Fairness ==
  /\ WF_vars(CallerStep) /\ WF_vars(HandlerStep) /\ WF_vars(TimerStep) /\ WF_vars(HandlerTimerStep)
  /\ WF_vars(LoopStep) /\ WF_vars(ServerStep) /\ WF_vars(SendSettings) /\ WF_vars(SendReject)
  /\ WF_vars(HandlerContext)

FairSpec == Spec /\ Fairness
-----------------------------------------------------------------------------
(***************************************************************************)
(* Properties.                                                             *)
(***************************************************************************)
\* Two ends of this version come to terms, whatever their options: recvLoop
\* finds nothing wrong with the settings and createStream with the revision and
\* window of a stream.  Start takes the other end for one that does not
\* negotiate only if the RPC has ended before its headers: Header then returned
\* nothing, because the caller was gone or the handler refuses the direction.
PeersAgree ==
  cfg.this =>
    /\ err \notin {"precondition", "internal"}
    /\ err = "unsupported" => Forward /\ respMD = "none" /\ (CallerGone \/ ~cfg.supported)
    /\ rejected \subseteq {"closing", "method"}

\* With any peer, a stream that the server accepts uses the latest revision
\* both ends support, and both windows have room for a byte of data, which is
\* what FlowControl assumes.
StreamsCanFlow ==
  /\ settings # Nil =>
       /\ useRevision \in settings.revisions \cap supportedRevisions
       /\ \A r \in settings.revisions \cap supportedRevisions : r <= useRevision
       /\ settings.initialWindowSize > messageOverhead(useRevision)
  /\ accepted # <<>> => ~cfg.old /\ ClientWindow > messageOverhead(useRevision)

\* The settings of a reverse tunnel came while the handler's timer was not
\* about to close it, and it has not.
CameInTime == awaited /\ htimer # "closing" /\ err # "timeout"

\* The establishment timeouts and established tunnels.  The caller's timer never
\* ends a tunnel that Start or Serve has reported as established: either Stop
\* stops it, or its outcome is what is returned.  The handler's timer never
\* ends a reverse tunnel whose settings have come, unless its function had
\* looked for them just before (see ListedStays).
EstablishedSurvives ==
  /\ [](result = "ok" => ctx # "timer")
  /\ [][CameInTime => CameInTime']_vars

\* "Both tunnels should still work well after the timeout" (the test
\* TestEstablishmentTimeout_DoesNotAffectEstablishedTunnel): a reverse tunnel
\* that Serve has started and the handler has listed is not closed by the
\* timer of newReverseChannel.
ListedStays == result = "ok" /\ hpc = "listed" => err # "timeout"

\* A reverse tunnel that RPCs can pick, and that OnReverseTunnelOpen was told
\* of, has settings, whatever closes it or times out at the time.
ListedHasSettings == ~Forward /\ ~cfg.old /\ hpc = "listed" => settings # Nil

\* IDs of the streams a server accepts grow and never wrap around.
IdsFresh ==
  \A i \in 1 .. Len(accepted) :
    /\ accepted[i] > 0
    /\ i > 1 => accepted[i - 1] < accepted[i]

\* "The tunnel isn't established until we get the server's settings" (Start):
\* no call on a channel that Start returned finds it without.
NoNilSettings == ~panicked

\* With a timeout an attempt comes to an end, even if the peer sends neither
\* headers nor settings.
AttemptEnds ==
  /\ timer = "armed" ~> result # "none"
  /\ htimer = "armed" ~> hpc # "settings"

\* Both ends are through with the tunnel, and its context is released.
Over ==
  /\ pc = "returned" /\ ctx # "live" /\ ~serving
  /\ opened => hpc = "returned"
  /\ loop \in {"none", "exit"}

\* An attempt that failed, and a tunnel that was closed for whatever reason by
\* whoever, leave nothing behind at either end.
NothingLeft == result \in {"err", "timeout"} \/ finished ~> Over
=============================================================================
