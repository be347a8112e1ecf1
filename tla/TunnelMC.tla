------------------------------ MODULE TunnelMC ------------------------------
(***************************************************************************)
(* The scenarios of Tunnel that TLC explores.                              *)
(***************************************************************************)
EXTENDS Tunnel

Both == {"client", "server"}

\* A bidirectional RPC that its client may cancel, that may time out at the
\* server and whose handler may fail.
Bidi ==
  [dir |-> "forward", streams |-> 1, req |-> 1, resp |-> 2, client |-> Both, server |-> Both,
   faults |-> {"cancel", "timeout", "error"}]

\* RPCs created at the same time, some of which fail at once or are rejected.
Rejected ==
  [dir |-> "forward", streams |-> 2, req |-> 1, resp |-> 0, client |-> Both, server |-> Both,
   faults |-> {"reject", "creds"}]

\* The two ends do not agree on which side streams.
Mismatch ==
  [dir |-> "forward", streams |-> 1, req |-> 2, resp |-> 2, client |-> {"client"}, server |-> {"server"},
   faults |-> {"cancel"}]

\* The client streams to a method that takes a single request.  That fails the
\* RPC, but its handler may still answer: SendMsg does not look at closed, and
\* the response may overtake the headers that finishStream leaves to another
\* goroutine (tunnel.proto says that headers come first).
Persistent ==
  [dir |-> "forward", streams |-> 1, req |-> 2, resp |-> 1, client |-> Both, server |-> {"server"}, faults |-> {}]

\* A unary RPC on a tunnel that is closed, on one that breaks, and an RPC
\* without messages on one that does both.
Closed ==
  [dir |-> "forward", streams |-> 1, req |-> 1, resp |-> 1, client |-> {}, server |-> {}, faults |-> {"close"}]
Broken == [Closed EXCEPT !.faults = {"break"}]
Falling == [Closed EXCEPT !.req = 0, !.resp = 0, !.client = Both, !.server = Both, !.faults = {"close", "break"}]

\* An RPC that sends nothing and times out at the server.
Silent ==
  [dir |-> "forward", streams |-> 1, req |-> 0, resp |-> 0, client |-> Both, server |-> Both, faults |-> {"timeout"}]

\* An RPC on a reverse tunnel that is stopped by its server, and one on a
\* tunnel that may also be closed by its client.
Stopped ==
  [dir |-> "reverse", streams |-> 1, req |-> 0, resp |-> 1, client |-> Both, server |-> Both, faults |-> {"stop"}]
HungUp == [Stopped EXCEPT !.resp = 0, !.faults = {"stop", "close"}]

SafetyScenarios == {Bidi, Rejected, Persistent}
LiveScenarios == {Mismatch}
DownScenarios == {Closed, Broken, Falling, Stopped, HungUp}
PhantomScenarios == {Silent}
=============================================================================
