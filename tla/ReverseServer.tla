---------------------------- MODULE ReverseServer ----------------------------
(***************************************************************************)
(* ReverseTunnelServer (reverse_server.go): concurrent calls of Serve, one *)
(* for each reverse tunnel, and of Stop and GracefulStop, which wait for   *)
(* them.  A tunnel ends once this end has half-closed its stream and the   *)
(* other end, a TunnelServiceHandler, has answered by hanging up; it may   *)
(* also end at any time because that end hangs up or the network fails.    *)
(***************************************************************************)
EXTENDS Integers, FiniteSets

CONSTANTS
  Calls,        \* calls of Serve
  Stoppers,     \* goroutines that call Stop
  Gracefuls,    \* goroutines that call GracefulStop
  MaxOps,       \* bound: RPCs started on a tunnel
  PeerHangsUp   \* whether the other end may end a tunnel of its own accord

ASSUME ServerAssumption ==
  /\ IsFiniteSet(Calls) /\ Stoppers \cap Gracefuls = {}
  /\ MaxOps \in Nat /\ PeerHangsUp \in BOOLEAN

Waiters == Stoppers \cup Gracefuls

VARIABLES
  state,        \* ReverseTunnelServer.state
  instances,    \* ReverseTunnelServer.instances
  wg,           \* the counter of ReverseTunnelServer.wg
  serve,        \* where each call of Serve is
  checked,      \* the receive loop has found isClosing false for a new RPC
  started, ops, \* RPCs started on each tunnel, and those that still run
  half,         \* CloseSend has been called on the tunnel's stream
  ended,        \* the tunnel's stream has ended
  stop,         \* where each call of Stop or GracefulStop is
  misused       \* wg.Add was called at zero after a call of wg.Wait had begun

vars == <<state, instances, wg, serve, checked, started, ops, half, ended, stop, misused>>

TypeOK ==
  /\ state \in {"active", "closing", "closed"}
  /\ instances \subseteq Calls
  /\ wg \in 0 .. Cardinality(Calls)
  /\ serve \in [Calls -> {"idle", "opening", "opened", "serving", "refused", "returned"}]
  /\ checked \in [Calls -> BOOLEAN]
  /\ started \in [Calls -> 0 .. MaxOps] /\ ops \in [Calls -> 0 .. MaxOps]
  /\ half \in [Calls -> BOOLEAN] /\ ended \in [Calls -> BOOLEAN]
  /\ stop \in [Waiters -> {"idle", "wait", "returned"}]
  /\ misused \in BOOLEAN

Init ==
  /\ state = "active" /\ instances = {} /\ wg = 0
  /\ serve = [c \in Calls |-> "idle"]
  /\ checked = [c \in Calls |-> FALSE]
  /\ started = [c \in Calls |-> 0] /\ ops = [c \in Calls |-> 0]
  /\ half = [c \in Calls |-> FALSE] /\ ended = [c \in Calls |-> FALSE]
  /\ stop = [w \in Waiters |-> "idle"]
  /\ misused = FALSE
-----------------------------------------------------------------------------
Serve(c) ==
  /\ serve[c] = "idle"
  /\ serve' = [serve EXCEPT ![c] = "opening"]
  /\ UNCHANGED <<state, instances, wg, checked, started, ops, half, ended, stop, misused>>

\* The RPC that opens the tunnel has succeeded, or it has failed or taken too
\* long.
Opened(c, ok) ==
  /\ serve[c] = "opening"
  /\ serve' = [serve EXCEPT ![c] = IF ok THEN "opened" ELSE "refused"]
  /\ UNCHANGED <<state, instances, wg, checked, started, ops, half, ended, stop, misused>>

\* Mutant: tunnels are still accepted during a graceful shutdown.
Refusing_OnlyClosed == state = "closed"
Refusing == state # "active"

\* Mutant: the deferred wg.Done runs for a refused tunnel too.
addInstance_DoneAnyway(c) ==
  /\ serve[c] = "opened"
  /\ IF Refusing
       THEN /\ serve' = [serve EXCEPT ![c] = "refused"]
            /\ wg' = wg - 1
            /\ UNCHANGED <<instances, misused>>
       ELSE /\ serve' = [serve EXCEPT ![c] = "serving"]
            /\ instances' = instances \cup {c}
            /\ wg' = wg + 1
            /\ misused' = (misused \/ (wg = 0 /\ \E w \in Waiters : stop[w] # "idle"))
  /\ UNCHANGED <<state, checked, started, ops, half, ended, stop>>

\* A refused tunnel's RPC is cancelled by the deferred est.release.
addInstance(c) ==
  /\ serve[c] = "opened"
  /\ IF Refusing
       THEN /\ serve' = [serve EXCEPT ![c] = "refused"]
            /\ UNCHANGED <<instances, wg, misused>>
       ELSE /\ serve' = [serve EXCEPT ![c] = "serving"]
            /\ instances' = instances \cup {c}
            /\ wg' = wg + 1
            /\ misused' = (misused \/ (wg = 0 /\ \E w \in Waiters : stop[w] # "idle"))
  /\ UNCHANGED <<state, checked, started, ops, half, ended, stop>>

\* createStream asks isClosing before it takes the lock of the tunnel, then
\* starts or rejects the RPC.
CheckClosing(c) ==
  /\ serve[c] = "serving" /\ ~ended[c] /\ ~checked[c]
  /\ started[c] < MaxOps
  /\ state = "active"
  /\ checked' = [checked EXCEPT ![c] = TRUE]
  /\ UNCHANGED <<state, instances, wg, serve, started, ops, half, ended, stop, misused>>

StartOp(c) ==
  /\ checked[c] /\ serve[c] = "serving"
  /\ checked' = [checked EXCEPT ![c] = FALSE]
  /\ started' = [started EXCEPT ![c] = @ + 1]
  /\ ops' = [ops EXCEPT ![c] = @ + 1]
  /\ UNCHANGED <<state, instances, wg, serve, half, ended, stop, misused>>

EndOp(c) ==
  /\ ops[c] > 0
  /\ ops' = [ops EXCEPT ![c] = @ - 1]
  /\ UNCHANGED <<state, instances, wg, serve, checked, started, half, ended, stop, misused>>

\* The other end hangs up, as it does once it has read the end of our half.
PeerEnds(c) ==
  /\ serve[c] = "serving" /\ ~ended[c]
  /\ half[c] \/ PeerHangsUp
  /\ ended' = [ended EXCEPT ![c] = TRUE]
  /\ UNCHANGED <<state, instances, wg, serve, checked, started, ops, half, stop, misused>>

\* serveTunnel returns and Serve does too, with the deferred wg.Done.
ServeReturns(c) ==
  /\ serve[c] = "serving" /\ ended[c] /\ ~checked[c]
  /\ serve' = [serve EXCEPT ![c] = "returned"]
  /\ wg' = wg - 1
  /\ UNCHANGED <<state, instances, checked, started, ops, half, ended, stop, misused>>
-----------------------------------------------------------------------------
\* Mutant: a graceful shutdown in progress is left alone.
Stop_OnlyActive(w) ==
  /\ stop[w] = "idle"
  /\ stop' = [stop EXCEPT ![w] = "wait"]
  /\ IF state # "active" THEN UNCHANGED <<state, half>>
     ELSE state' = "closed" /\ half' = [c \in Calls |-> half[c] \/ c \in instances]
  /\ UNCHANGED <<instances, wg, serve, checked, started, ops, ended, misused>>

\* Mutant: a second Stop returns at once instead of waiting as well.
Stop_NoWait(w) ==
  /\ stop[w] = "idle"
  /\ stop' = [stop EXCEPT ![w] = IF state = "closed" THEN "returned" ELSE "wait"]
  /\ IF state = "closed" THEN UNCHANGED <<state, half>>
     ELSE state' = "closed" /\ half' = [c \in Calls |-> half[c] \/ c \in instances]
  /\ UNCHANGED <<instances, wg, serve, checked, started, ops, ended, misused>>

\* Stop half-closes every tunnel, then waits.
Stop(w) ==
  /\ stop[w] = "idle"
  /\ stop' = [stop EXCEPT ![w] = "wait"]
  /\ IF state = "closed" THEN UNCHANGED <<state, half>>
     ELSE state' = "closed" /\ half' = [c \in Calls |-> half[c] \/ c \in instances]
  /\ UNCHANGED <<instances, wg, serve, checked, started, ops, ended, misused>>

\* GracefulStop only sets the state, then waits.
GracefulStop(w) ==
  /\ stop[w] = "idle"
  /\ stop' = [stop EXCEPT ![w] = "wait"]
  /\ state' = IF state = "active" THEN "closing" ELSE state
  /\ UNCHANGED <<instances, wg, serve, checked, started, ops, half, ended, misused>>

\* wg.Wait
WaitDone(w) ==
  /\ stop[w] = "wait"
  /\ wg = 0
  /\ stop' = [stop EXCEPT ![w] = "returned"]
  /\ UNCHANGED <<state, instances, wg, serve, checked, started, ops, half, ended, misused>>
-----------------------------------------------------------------------------
Next ==
  \/ \E c \in Calls :
       \/ Serve(c) \/ addInstance(c) \/ CheckClosing(c) \/ StartOp(c) \/ EndOp(c)
       \/ PeerEnds(c) \/ ServeReturns(c) \/ \E ok \in BOOLEAN : Opened(c, ok)
  \/ \E w \in Stoppers : Stop(w)
  \/ \E w \in Gracefuls : GracefulStop(w)
  \/ \E w \in Waiters : WaitDone(w)

Spec == Init /\ [][Next]_vars

(***************************************************************************)
(* Fairness: goroutines run, RPCs complete, the establishment timeout ends *)
(* an attempt to open a tunnel, and the other end answers the end of our   *)
(* half of a tunnel by ending its own.  It need not hang up otherwise.     *)
(***************************************************************************)
Fairness ==
  /\ \A c \in Calls :
       /\ WF_vars(\E ok \in BOOLEAN : Opened(c, ok)) /\ WF_vars(addInstance(c))
       /\ WF_vars(StartOp(c)) /\ WF_vars(EndOp(c))
       /\ WF_vars(half[c] /\ PeerEnds(c)) /\ WF_vars(ServeReturns(c))
  /\ \A w \in Waiters : WF_vars(WaitDone(w))

FairSpec == Spec /\ Fairness
-----------------------------------------------------------------------------
\* When Stop or GracefulStop has returned, no call of Serve still runs a
\* tunnel and none will, whatever calls were opening one at the time.
StoppedForGood ==
  (\E w \in Waiters : stop[w] = "returned") => \A c \in Calls : serve[c] # "serving"

\* The WaitGroup is used as its contract demands: no Add from zero once
\* somebody waits.
WaitGroupUsed == ~misused

\* Stop returns, also during a graceful shutdown or another Stop.
StopReturns == \A w \in Stoppers : stop[w] = "wait" ~> stop[w] = "returned"

\* "The server stops after all existing operations complete": GracefulStop
\* returns if every RPC ends.
GracefulStopReturns == \A w \in Gracefuls : stop[w] = "wait" ~> stop[w] = "returned"
=============================================================================
