--------------------------- MODULE ReverseChannels ---------------------------
(***************************************************************************)
(* The reverse tunnels a TunnelServiceHandler knows (handler.go): one list *)
(* of all of them and one for each affinity key, from which RPCs pick a    *)
(* tunnel in turn and on which callers wait until there is one.            *)
(*                                                                         *)
(* Each tunnel has the goroutine that serves openReverseTunnel, which      *)
(* lists it and takes it off again, and others that may close it at any    *)
(* time (its receive loop, the application), which take it off as well.    *)
(* Each list has a lock of its own, so a tunnel is on some and off others  *)
(* in between.                                                             *)
(***************************************************************************)
EXTENDS Integers, Sequences

CONSTANTS
  Tunnels,      \* reverse tunnels
  Keys,         \* affinity keys
  All,          \* the list of all tunnels
  Closers,      \* goroutines that may close a tunnel: its receive loop, the application
  Closed,       \* bound: tunnels that they may close
  Waiters,      \* goroutines that call WaitForReady
  MaxPicks      \* bound: picks that are remembered

ASSUME ReverseAssumption == All \notin Keys /\ "handler" \notin Closers /\ MaxPicks \in Nat

Lists == Keys \cup {All}
Callers == Closers \cup {"handler"}
NotWaiting == [at |-> "idle", list |-> All, avail |-> 0]

VARIABLES
  chans,        \* reverseChannels.chans of each list
  idx,          \* reverseChannels.idx
  avail,        \* reverseChannels.avail: the number of the current channel
  availClosed,  \* whether that channel is closed
  made,         \* keys that have a list in reverseByKey
  panicked,     \* a closed channel has been closed again
  pc,           \* where each openReverseTunnel is
  key,          \* the affinity key of each tunnel
  done,         \* the tunnel's context is done
  cl,           \* where each caller is in close of each tunnel
  wait,         \* where each waiter is, on which list, with which avail
  picks         \* history: picks from each list since it last changed

vars == <<chans, idx, avail, availClosed, made, panicked, pc, key, done, cl, wait, picks>>
listVars == <<chans, idx, avail, availClosed, panicked, picks>>

TypeOK ==
  /\ chans \in [Lists -> Seq(Tunnels)]
  /\ idx \in [Lists -> Nat] /\ avail \in [Lists -> Nat] /\ availClosed \in [Lists -> BOOLEAN]
  /\ made \subseteq Keys /\ panicked \in BOOLEAN
  /\ pc \in [Tunnels -> {"new", "open", "all", "key", "keyed", "serve", "removeKey", "removeAll", "close", "returned"}]
  /\ key \in [Tunnels -> Keys] /\ done \in [Tunnels -> BOOLEAN]
  /\ cl \in [Tunnels -> [Callers -> {"no", "remove", "lookup", "removeKey", "section", "end"}]]
  /\ wait \in [Waiters -> [at : {"idle", "load", "wait", "ready"}, list : Lists, avail : Nat]]
  /\ picks \in [Lists -> Seq(Tunnels)]

Init ==
  /\ chans = [l \in Lists |-> <<>>] /\ idx = [l \in Lists |-> 0]
  /\ avail = [l \in Lists |-> 0] /\ availClosed = [l \in Lists |-> FALSE]
  /\ made = {} /\ panicked = FALSE
  /\ pc = [t \in Tunnels |-> "new"]
  /\ key \in [Tunnels -> Keys]
  /\ done = [t \in Tunnels |-> FALSE]
  /\ cl = [t \in Tunnels |-> [w \in Callers |-> "no"]]
  /\ wait = [w \in Waiters |-> NotWaiting]
  /\ picks = [l \in Lists |-> <<>>]
-----------------------------------------------------------------------------
On(l, t) == \E i \in 1 .. Len(chans[l]) : chans[l][i] = t

\* reverseChannels.add: the first tunnel of a list closes avail.
add(l, t) ==
  /\ chans' = [chans EXCEPT ![l] = Append(@, t)]
  /\ panicked' = (panicked \/ (chans[l] = <<>> /\ availClosed[l]))
  /\ availClosed' = [availClosed EXCEPT ![l] = @ \/ chans[l] = <<>>]
  /\ picks' = [picks EXCEPT ![l] = <<>>]
  /\ UNCHANGED <<idx, avail>>

\* append(chans[:i], chans[i+1:]...), at the first place the tunnel has.
Place(l, t) == CHOOSE i \in 1 .. Len(chans[l]) : chans[l][i] = t /\ \A j \in 1 .. i - 1 : chans[l][j] # t
Without(l, t) == [j \in 1 .. Len(chans[l]) - 1 |-> IF j < Place(l, t) THEN chans[l][j] ELSE chans[l][j + 1]]

\* Mutant: the last tunnel leaves the closed channel behind.
remove_KeepsAvail(l, t) ==
  IF ~On(l, t) THEN UNCHANGED listVars
  ELSE /\ chans' = [chans EXCEPT ![l] = Without(l, t)]
       /\ picks' = [picks EXCEPT ![l] = <<>>]
       /\ UNCHANGED <<idx, avail, availClosed, panicked>>

\* reverseChannels.remove: with the last tunnel comes a new avail.
remove(l, t) ==
  IF ~On(l, t) THEN UNCHANGED listVars
  ELSE /\ chans' = [chans EXCEPT ![l] = Without(l, t)]
       /\ avail' = [avail EXCEPT ![l] = IF Len(chans[l]) = 1 THEN @ + 1 ELSE @]
       /\ availClosed' = [availClosed EXCEPT ![l] = @ /\ Len(chans[l]) # 1]
       /\ picks' = [picks EXCEPT ![l] = <<>>]
       /\ UNCHANGED <<idx, panicked>>

\* Mutant: the last tunnel is never reached.
NextIdx_Short(l) == IF idx[l] + 2 >= Len(chans[l]) THEN 0 ELSE idx[l] + 1
\* The index pick goes on to; removals may have left it beyond the end.
NextIdx(l) == IF idx[l] + 1 >= Len(chans[l]) THEN 0 ELSE idx[l] + 1

\* ready, keyIsReady: there is a list and it has a tunnel.
ready(l) == (l = All \/ l \in made) /\ chans[l] # <<>>

\* pick and pickKey: the next tunnel of the list.
pick(l) ==
  /\ idx' = [idx EXCEPT ![l] = NextIdx(l)]
  /\ picks' = [picks EXCEPT ![l] = Append(@, chans[l][NextIdx(l) + 1])]

\* Invoke and NewStream of AsChannel (the list All) and of KeyAsChannel: an RPC
\* on the tunnel that is picked (which is the matter of Tunnel).  Without any
\* it fails as Unavailable, which changes nothing.
Invoke(l) ==
  /\ ready(l)
  /\ Len(picks[l]) < MaxPicks
  /\ pick(l)
  /\ UNCHANGED <<chans, avail, availClosed, made, panicked, pc, key, done, cl, wait>>
-----------------------------------------------------------------------------
(***************************************************************************)
(* openReverseTunnel, from the moment newReverseChannel returns.           *)
(***************************************************************************)
Handler(t, from, to) ==
  /\ pc[t] = from
  /\ pc' = [pc EXCEPT ![t] = to]

\* A tunnel that was never established is not listed; the deferred ch.Close
\* runs all the same.
Open(t) ==
  /\ Handler(t, "new", IF done[t] THEN "close" ELSE "open")
  /\ UNCHANGED <<listVars, made, key, done, cl, wait>>

AddToAll(t) ==
  /\ Handler(t, "open", "all")
  /\ add(All, t)
  /\ UNCHANGED <<made, key, done, cl, wait>>

\* Mutant: the list is filed under the tunnel instead of its key.
ListForKey_Tunnel(t) ==
  /\ Handler(t, "all", "key")
  /\ made' = made \cup {t}
  /\ UNCHANGED <<listVars, key, done, cl, wait>>

\* Mutant: a key gets a new list although it has one.
ListForKey_Replaces(t) ==
  /\ Handler(t, "all", "key")
  /\ made' = made \cup {key[t]}
  /\ chans' = [chans EXCEPT ![key[t]] = <<>>]
  /\ availClosed' = [availClosed EXCEPT ![key[t]] = FALSE]
  /\ avail' = [avail EXCEPT ![key[t]] = @ + 1]
  /\ picks' = [picks EXCEPT ![key[t]] = <<>>]
  /\ UNCHANGED <<idx, panicked, key, done, cl, wait>>

\* reverseChannelsForKey
ListForKey(t) ==
  /\ Handler(t, "all", "key")
  /\ made' = made \cup {key[t]}
  /\ UNCHANGED <<listVars, key, done, cl, wait>>

AddToKey(t) ==
  /\ Handler(t, "key", "keyed")
  /\ add(key[t], t)
  /\ UNCHANGED <<made, key, done, cl, wait>>

\* The callback onReverseTunnelConnect.
Connect(t) ==
  /\ Handler(t, "keyed", "serve")
  /\ UNCHANGED <<listVars, made, key, done, cl, wait>>

\* Mutant: it is the stream that is awaited, which ends with the receive loop
\* but not when the application closes the tunnel.
Disconnect_StreamEnd(t) ==
  /\ \E w \in Closers : w = "loop" /\ cl[t][w] = "end"
  /\ Handler(t, "serve", "removeKey")
  /\ UNCHANGED <<listVars, made, key, done, cl, wait>>

\* The tunnel is done: the deferred calls, onReverseTunnelDisconnect first.
Disconnect(t) ==
  /\ done[t]
  /\ Handler(t, "serve", "removeKey")
  /\ UNCHANGED <<listVars, made, key, done, cl, wait>>

\* Mutant: it is left to close to take the tunnel off the list of its key.
RemoveFromKey_Skipped(t) ==
  /\ Handler(t, "removeKey", "removeAll")
  /\ UNCHANGED <<listVars, made, key, done, cl, wait>>

RemoveFromKey(t) ==
  /\ Handler(t, "removeKey", "removeAll")
  /\ remove(key[t], t)
  /\ UNCHANGED <<made, key, done, cl, wait>>

RemoveFromAll(t) ==
  /\ Handler(t, "removeAll", "close")
  /\ remove(All, t)
  /\ UNCHANGED <<made, key, done, cl, wait>>

\* The deferred ch.Close, and the return after it.
HandlerClose(t) ==
  /\ pc[t] = "close" /\ cl[t]["handler"] = "no"
  /\ cl' = [cl EXCEPT ![t]["handler"] = "remove"]
  /\ UNCHANGED <<listVars, made, pc, key, done, wait>>

HandlerReturn(t) ==
  /\ cl[t]["handler"] = "end"
  /\ Handler(t, "close", "returned")
  /\ UNCHANGED <<listVars, made, key, done, cl, wait>>
-----------------------------------------------------------------------------
(***************************************************************************)
(* close of a reverse tunnel: its tearDown is unregister.                  *)
(***************************************************************************)
CallClose(t, w) ==
  /\ t \in Closed /\ cl[t][w] = "no"
  /\ cl' = [cl EXCEPT ![t][w] = "remove"]
  /\ UNCHANGED <<listVars, made, pc, key, done, wait>>

\* s.reverse.remove tells whether the tunnel was still listed.
UnregisterAll(t, w) ==
  /\ cl[t][w] = "remove"
  /\ remove(All, t)
  /\ cl' = [cl EXCEPT ![t][w] = IF On(All, t) THEN "lookup" ELSE "section"]
  /\ UNCHANGED <<made, pc, key, done, wait>>

\* The look-up of the list of its key, which may not exist yet.
UnregisterLookup(t, w) ==
  /\ cl[t][w] = "lookup"
  /\ cl' = [cl EXCEPT ![t][w] = IF key[t] \in made THEN "removeKey" ELSE "section"]
  /\ UNCHANGED <<listVars, made, pc, key, done, wait>>

UnregisterKey(t, w) ==
  /\ cl[t][w] = "removeKey"
  /\ remove(key[t], t)
  /\ cl' = [cl EXCEPT ![t][w] = "section"]
  /\ UNCHANGED <<made, pc, key, done, wait>>

\* The rest of close cancels the tunnel's context.
CloseSection(t, w) ==
  /\ cl[t][w] = "section"
  /\ cl' = [cl EXCEPT ![t][w] = "end"]
  /\ done' = [done EXCEPT ![t] = TRUE]
  /\ UNCHANGED <<listVars, made, pc, key, wait>>

\* The tunnel's context derives from that of its RPC, which may end at any time:
\* the handler then takes the tunnel off the lists while others close it.
StreamDone(t) ==
  /\ ~done[t]
  /\ done' = [done EXCEPT ![t] = TRUE]
  /\ UNCHANGED <<listVars, made, pc, key, cl, wait>>
-----------------------------------------------------------------------------
(***************************************************************************)
(* WaitForReady.                                                           *)
(***************************************************************************)
\* waitForKeyReady makes the list if need be.
WaitForReady(w, l) ==
  /\ wait[w].at = "idle"
  /\ wait' = [wait EXCEPT ![w] = [at |-> "load", list |-> l, avail |-> 0]]
  /\ made' = made \cup ({l} \cap Keys)
  /\ UNCHANGED <<listVars, pc, key, done, cl>>

LoadAvail(w) ==
  /\ wait[w].at = "load"
  /\ wait' = [wait EXCEPT ![w] = [at |-> "wait", list |-> wait[w].list, avail |-> avail[wait[w].list]]]
  /\ UNCHANGED <<listVars, made, pc, key, done, cl>>

\* The channel a waiter holds is closed; one that has been replaced was.
Signalled(w) ==
  LET l == wait[w].list IN wait[w].avail < avail[l] \/ availClosed[l]

\* Mutant: a channel that has been replaced does not count.
Wake_Current(w) ==
  /\ wait[w].at = "wait"
  /\ Signalled(w) /\ wait[w].avail = avail[wait[w].list]
  /\ wait' = [wait EXCEPT ![w] = [NotWaiting EXCEPT !.at = "ready"]]
  /\ UNCHANGED <<listVars, made, pc, key, done, cl>>

Wake(w) ==
  /\ wait[w].at = "wait"
  /\ Signalled(w)
  /\ wait' = [wait EXCEPT ![w] = [NotWaiting EXCEPT !.at = "ready"]]
  /\ UNCHANGED <<listVars, made, pc, key, done, cl>>

\* The caller's context is done.
GiveUp(w) ==
  /\ wait[w].at = "wait"
  /\ wait' = [wait EXCEPT ![w] = NotWaiting]
  /\ UNCHANGED <<listVars, made, pc, key, done, cl>>
-----------------------------------------------------------------------------
HandlerStep(t) ==
  \/ Open(t) \/ AddToAll(t) \/ ListForKey(t) \/ AddToKey(t) \/ Connect(t) \/ Disconnect(t)
  \/ RemoveFromKey(t) \/ RemoveFromAll(t) \/ HandlerClose(t) \/ HandlerReturn(t)

CloseStep(t, w) ==
  UnregisterAll(t, w) \/ UnregisterLookup(t, w) \/ UnregisterKey(t, w) \/ CloseSection(t, w)

Next ==
  \/ \E t \in Tunnels :
       HandlerStep(t) \/ StreamDone(t) \/ (\E w \in Closers : CallClose(t, w)) \/ \E w \in Callers : CloseStep(t, w)
  \/ \E l \in Lists : Invoke(l) \/ \E w \in Waiters : WaitForReady(w, l)
  \/ \E w \in Waiters : LoadAvail(w) \/ Wake(w) \/ GiveUp(w)

Spec == Init /\ [][Next]_vars

\* Goroutines run; nothing makes a tunnel end or anyone pick or wait.
Fairness ==
  /\ \A t \in Tunnels : WF_vars(HandlerStep(t)) /\ \A w \in Callers : WF_vars(CloseStep(t, w))
  /\ \A w \in Waiters : WF_vars(LoadAvail(w)) /\ WF_vars(Wake(w))

FairSpec == Spec /\ Fairness
-----------------------------------------------------------------------------
\* avail of a list is closed exactly while the list has tunnels, so no tunnel
\* makes add close a closed channel (which panics), and a caller that sleeps
\* in waitForReady holds the channel that the next add will close.
AvailAgrees ==
  /\ ~panicked
  /\ \A l \in Lists : availClosed[l] <=> chans[l] # <<>>
  /\ \A w \in Waiters : wait[w].at = "wait" /\ ~Signalled(w) =>
       wait[w].avail = avail[wait[w].list] /\ chans[wait[w].list] = <<>>

\* When openReverseTunnel has returned the tunnel is on no list, although
\* close may have run before, between and after the two additions.
Unlisted == \A t \in Tunnels : pc[t] = "returned" => \A l \in Lists : ~On(l, t)

\* From OnReverseTunnelOpen until someone closes it, a tunnel can be reached
\* both through AsChannel and through KeyAsChannel, whatever other tunnels of
\* the same key come and go; and a list never leads to a tunnel of another key.
Reachable ==
  \A t \in Tunnels :
    /\ pc[t] = "serve" /\ (\A w \in Callers : cl[t][w] = "no") =>
         \A l \in {All, key[t]} : ready(l) /\ On(l, t)
    /\ \A l \in Keys : On(l, t) => key[t] = l

\* RPCs take turns: as long as a list of n tunnels does not change, any n
\* picks in a row are n different tunnels, wherever removals left the index.
RoundRobin ==
  \A l \in Lists : \A i, j \in 1 .. Len(picks[l]) :
    i < j /\ j < i + Len(chans[l]) => picks[l][i] # picks[l][j]

\* A tunnel that is closed, or whose RPC has ended, disappears from every list
\* for good, even if that was before it was listed.
ClosedLeaves == \A t \in Tunnels : done[t] ~> [](\A l \in Lists : ~On(l, t))

\* Whoever waits for a list that gets a tunnel is told.
WaitersWoken ==
  \A w \in Waiters : wait[w].at = "wait" /\ chans[wait[w].list] # <<>> ~> wait[w].at # "wait"
=============================================================================
