------------------------- MODULE ReverseServerProofs -------------------------
(***************************************************************************)
(* Proofs, for any number of calls of Serve, Stop and GracefulStop, that a *)
(* stopped ReverseTunnelServer serves no tunnel and that its WaitGroup is  *)
(* used as its contract demands.                                           *)
(***************************************************************************)
EXTENDS ReverseServer, FiniteSetTheorems, TLAPS

Serving == {c \in Calls : serve[c] = "serving"}
ServePCs == {"idle", "opening", "opened", "serving", "refused", "returned"}

\* The types of what the proof is about.
CoreType ==
  /\ state \in {"active", "closing", "closed"}
  /\ serve \in [Calls -> ServePCs]
  /\ stop \in [Waiters -> {"idle", "wait", "returned"}]

\* wg counts the tunnels that are served.
Counted == wg = Cardinality(Serving)

\* Whoever stops the server has first left the active state for good; so once
\* wg is zero afterwards it stays zero.
NoneAfterStop ==
  /\ (\E w \in Waiters : stop[w] # "idle") => state # "active"
  /\ (\E w \in Waiters : stop[w] = "returned") => Serving = {}

IInv == CoreType /\ Counted /\ NoneAfterStop /\ misused = FALSE

\* Every set of calls is finite.
LEMMA ServingFinite == IsFiniteSet(Serving) /\ Cardinality(Serving) \in Nat
<1>1. Serving \subseteq Calls
  BY DEF Serving
<1>2. IsFiniteSet(Serving)
  BY <1>1, ServerAssumption, FS_Subset
<1>. QED  BY <1>2, FS_CardinalityType

LEMMA InitIInv == Init => IInv
<1> SUFFICES ASSUME Init PROVE IInv
  OBVIOUS
<1>1. CoreType
  BY DEF Init, CoreType, ServePCs
<1>2. Serving = {}
  BY DEF Init, Serving
<1>3. Counted
  BY <1>2, FS_EmptySet DEF Init, Counted
<1>. QED  BY <1>1, <1>2, <1>3 DEF Init, IInv, NoneAfterStop

\* A step that moves a call of Serve outside the tunnels that are served.
LEMMA SameServing ==
  ASSUME IInv, serve' \in [Calls -> ServePCs], Serving' = Serving,
         UNCHANGED <<state, wg, stop, misused>>
  PROVE  IInv'
BY DEF IInv, CoreType, Counted, NoneAfterStop

\* Every step of Serve, of the tunnels and of stopping.
LEMMA StepIInv == IInv /\ [Next]_vars => IInv'
<1> SUFFICES ASSUME IInv, [Next]_vars PROVE IInv'
  OBVIOUS
<1>0. CoreType /\ Counted /\ NoneAfterStop /\ misused = FALSE
  BY DEF IInv
<1>1. CASE UNCHANGED vars
  BY <1>0, <1>1, SameServing DEF vars, Serving, CoreType
<1>2. ASSUME NEW c \in Calls, Serve(c) \/ \E ok \in BOOLEAN : Opened(c, ok) PROVE IInv'
  <2>1. PICK to \in {"opening", "opened", "refused"} :
          /\ serve[c] # "serving" /\ serve' = [serve EXCEPT ![c] = to]
          /\ UNCHANGED <<state, wg, stop, misused>>
    BY <1>2 DEF Serve, Opened
  <2>2. serve' \in [Calls -> ServePCs]
    BY <1>0, <2>1 DEF CoreType, ServePCs
  <2>3. Serving' = Serving
    BY <1>0, <2>1 DEF Serving, CoreType
  <2>. QED  BY <2>1, <2>2, <2>3, SameServing
<1>3. ASSUME NEW c \in Calls, addInstance(c) PROVE IInv'
  <2>1. CASE Refusing
    <3>1. /\ serve[c] = "opened" /\ serve' = [serve EXCEPT ![c] = "refused"]
          /\ UNCHANGED <<state, wg, stop, misused>>
      BY <1>3, <2>1 DEF addInstance
    <3>2. serve' \in [Calls -> ServePCs]
      BY <1>0, <3>1 DEF CoreType, ServePCs
    <3>3. Serving' = Serving
      BY <1>0, <3>1 DEF Serving, CoreType
    <3>. QED  BY <3>1, <3>2, <3>3, SameServing
  <2>2. CASE ~Refusing
    <3>1. /\ serve[c] = "opened" /\ serve' = [serve EXCEPT ![c] = "serving"] /\ wg' = wg + 1
          /\ misused' = (misused \/ (wg = 0 /\ \E w \in Waiters : stop[w] # "idle"))
          /\ UNCHANGED <<state, stop>> /\ state = "active"
      BY <1>3, <2>2 DEF addInstance, Refusing
    <3>2. ~\E w \in Waiters : stop[w] # "idle"
      BY <1>0, <3>1 DEF NoneAfterStop
    <3>3. misused' = FALSE
      BY <1>0, <3>1, <3>2
    <3>4. CoreType'
      BY <1>0, <3>1 DEF CoreType, ServePCs
    <3>5. Serving' = Serving \cup {c} /\ c \notin Serving
      BY <1>0, <3>1 DEF Serving, CoreType
    <3>6. Counted'
      BY <1>0, <3>1, <3>5, ServingFinite, FS_AddElement DEF Counted
    <3>7. NoneAfterStop'
      BY <3>1, <3>2 DEF NoneAfterStop
    <3>. QED  BY <3>3, <3>4, <3>6, <3>7 DEF IInv
  <2>. QED  BY <2>1, <2>2
<1>4. ASSUME NEW c \in Calls, CheckClosing(c) \/ StartOp(c) \/ EndOp(c) \/ PeerEnds(c) PROVE IInv'
  <2>1. UNCHANGED <<state, wg, stop, misused, serve>>
    BY <1>4 DEF CheckClosing, StartOp, EndOp, PeerEnds
  <2>. QED  BY <1>0, <2>1, SameServing DEF Serving, CoreType
<1>5. ASSUME NEW c \in Calls, ServeReturns(c) PROVE IInv'
  <2>1. /\ serve[c] = "serving" /\ serve' = [serve EXCEPT ![c] = "returned"] /\ wg' = wg - 1
        /\ UNCHANGED <<state, stop, misused>>
    BY <1>5 DEF ServeReturns
  <2>2. CoreType'
    BY <1>0, <2>1 DEF CoreType, ServePCs
  <2>3. Serving' = Serving \ {c} /\ c \in Serving
    BY <1>0, <2>1 DEF Serving, CoreType
  <2>4. Counted'
    BY <1>0, <2>1, <2>3, ServingFinite, FS_RemoveElement DEF Counted
  <2>5. NoneAfterStop'
    BY <1>0, <2>1, <2>3 DEF NoneAfterStop
  <2>. QED  BY <1>0, <2>1, <2>2, <2>4, <2>5 DEF IInv
<1>6. ASSUME NEW w \in Waiters, Stop(w) \/ GracefulStop(w) PROVE IInv'
  <2>1. /\ stop[w] = "idle" /\ stop' = [stop EXCEPT ![w] = "wait"]
        /\ state' \in {"closing", "closed"} /\ UNCHANGED <<wg, serve, misused>>
    BY <1>0, <1>6 DEF Stop, GracefulStop, CoreType
  <2>2. CoreType' /\ Serving' = Serving
    BY <1>0, <2>1 DEF CoreType, Serving
  <2>3. NoneAfterStop'
    BY <1>0, <2>1, <2>2 DEF NoneAfterStop, CoreType
  <2>. QED  BY <1>0, <2>1, <2>2, <2>3 DEF IInv, Counted
<1>7. ASSUME NEW w \in Waiters, WaitDone(w) PROVE IInv'
  <2>1. /\ stop[w] = "wait" /\ wg = 0 /\ stop' = [stop EXCEPT ![w] = "returned"]
        /\ UNCHANGED <<state, wg, serve, misused>>
    BY <1>7 DEF WaitDone
  <2>2. CoreType' /\ Serving' = Serving
    BY <1>0, <2>1 DEF CoreType, Serving
  <2>3. Serving = {}
    BY <1>0, <2>1, ServingFinite, FS_EmptySet DEF Counted
  <2>4. NoneAfterStop'
    BY <1>0, <2>1, <2>2, <2>3 DEF NoneAfterStop, CoreType
  <2>. QED  BY <1>0, <2>1, <2>2, <2>4 DEF IInv, Counted
<1>. QED  BY <1>1, <1>2, <1>3, <1>4, <1>5, <1>6, <1>7 DEF Next, Waiters

\* wg counts the tunnels that are served, and whoever waits for it has left the
\* active state, in which alone addInstance calls wg.Add.
THEOREM Inductive == Spec => []IInv
BY InitIInv, StepIInv, PTL DEF Spec

\* For any number of concurrent calls: once Stop or GracefulStop has returned
\* no call of Serve runs a tunnel, and none will.
THEOREM StoppedStays == Spec => []StoppedForGood
<1>1. IInv => StoppedForGood
  BY DEF IInv, NoneAfterStop, Serving, StoppedForGood
<1>. QED  BY Inductive, <1>1, PTL

\* wg.Add is never called from zero once somebody waits.
THEOREM WaitGroupRight == Spec => []WaitGroupUsed
<1>1. IInv => WaitGroupUsed
  BY DEF IInv, WaitGroupUsed
<1>. QED  BY Inductive, <1>1, PTL
-----------------------------------------------------------------------------
\* The RPCs of each tunnel: as many run as have been started at most, and one
\* that createStream lets through does not exceed the bound.
RpcsCounted ==
  /\ instances \subseteq Calls
  /\ checked \in [Calls -> BOOLEAN] /\ half \in [Calls -> BOOLEAN] /\ ended \in [Calls -> BOOLEAN]
  /\ started \in [Calls -> 0 .. MaxOps] /\ ops \in [Calls -> 0 .. MaxOps]
  /\ \A c \in Calls : ops[c] <= started[c] /\ (checked[c] => started[c] < MaxOps)

LEMMA RpcsStep == RpcsCounted /\ [Next]_vars => RpcsCounted'
<1> SUFFICES ASSUME RpcsCounted, [Next]_vars PROVE RpcsCounted'
  OBVIOUS
<1> USE ServerAssumption DEF RpcsCounted
<1>1. CASE UNCHANGED <<instances, checked, started, ops, half, ended>>
  BY <1>1
<1>2. ASSUME NEW c \in Calls, addInstance(c) PROVE RpcsCounted'
  <2>1. UNCHANGED <<checked, started, ops, half, ended>> /\ instances' \subseteq instances \cup {c}
    BY <1>2 DEF addInstance
  <2>. QED  BY <2>1
<1>3. ASSUME NEW c \in Calls, CheckClosing(c) PROVE RpcsCounted'
  BY <1>3 DEF CheckClosing
<1>4. ASSUME NEW c \in Calls, StartOp(c) PROVE RpcsCounted'
  <2>1. /\ checked[c] /\ checked' = [checked EXCEPT ![c] = FALSE]
        /\ started' = [started EXCEPT ![c] = @ + 1] /\ ops' = [ops EXCEPT ![c] = @ + 1]
        /\ UNCHANGED <<instances, half, ended>>
    BY <1>4 DEF StartOp
  <2>2. PICK a \in 0 .. MaxOps, b \in 0 .. MaxOps : a = started[c] /\ b = ops[c] /\ b <= a /\ a < MaxOps
    BY <2>1
  <2>3. started[c] + 1 \in 0 .. MaxOps /\ ops[c] + 1 \in 0 .. MaxOps
    BY <2>2
  <2>4. started' \in [Calls -> 0 .. MaxOps] /\ ops' \in [Calls -> 0 .. MaxOps]
    BY <2>1, <2>3
  <2>5. ASSUME NEW d \in Calls PROVE ops'[d] <= started'[d] /\ (checked'[d] => started'[d] < MaxOps)
    BY <2>1, <2>2
  <2>. QED  BY <2>1, <2>4, <2>5
<1>5. ASSUME NEW c \in Calls, EndOp(c) PROVE RpcsCounted'
  <2>1. ops[c] > 0 /\ ops' = [ops EXCEPT ![c] = @ - 1] /\ UNCHANGED <<instances, checked, started, half, ended>>
    BY <1>5 DEF EndOp
  <2>2. PICK b \in 0 .. MaxOps : b = ops[c] /\ b > 0
    BY <2>1
  <2>3. ops' \in [Calls -> 0 .. MaxOps]
    BY <2>1, <2>2
  <2>4. ASSUME NEW d \in Calls PROVE ops'[d] <= started'[d] /\ (checked'[d] => started'[d] < MaxOps)
    BY <2>1, <2>2
  <2>. QED  BY <2>1, <2>3, <2>4
<1>6. ASSUME NEW c \in Calls, PeerEnds(c) PROVE RpcsCounted'
  BY <1>6 DEF PeerEnds
<1>7. ASSUME NEW w \in Waiters, Stop(w) PROVE RpcsCounted'
  <2>1. UNCHANGED <<instances, checked, started, ops, ended>> /\ half' \in [Calls -> BOOLEAN]
    BY <1>7 DEF Stop
  <2>. QED  BY <2>1
<1>8. CASE \/ \E c \in Calls : Serve(c) \/ ServeReturns(c) \/ \E ok \in BOOLEAN : Opened(c, ok)
           \/ \E w \in Gracefuls : GracefulStop(w)
           \/ \E w \in Waiters : WaitDone(w)
           \/ UNCHANGED vars
  BY <1>1, <1>8 DEF Serve, ServeReturns, Opened, GracefulStop, WaitDone, vars
<1>. QED  BY <1>2, <1>3, <1>4, <1>5, <1>6, <1>7, <1>8 DEF Next, Waiters

\* wg never falls below zero nor exceeds the number of calls, and no tunnel
\* has more RPCs running than were started on it.
THEOREM TypeCorrect == Spec => []TypeOK
<1>1. Init => RpcsCounted
  BY ServerAssumption DEF Init, RpcsCounted
<1>2. IInv /\ RpcsCounted => TypeOK
  <2> SUFFICES ASSUME IInv, RpcsCounted PROVE TypeOK
    OBVIOUS
  <2>1. Cardinality(Serving) <= Cardinality(Calls) /\ Cardinality(Calls) \in Nat
    <3>1. Serving \subseteq Calls
      BY DEF Serving
    <3>. QED  BY <3>1, ServerAssumption, FS_Subset, FS_CardinalityType
  <2>2. wg \in 0 .. Cardinality(Calls)
    BY <2>1, ServingFinite DEF IInv, Counted
  <2>. QED  BY <2>2 DEF IInv, CoreType, ServePCs, RpcsCounted, TypeOK
<1>. QED  BY <1>1, <1>2, Inductive, RpcsStep, PTL DEF Spec
=============================================================================
