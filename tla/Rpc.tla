-------------------------------- MODULE Rpc ----------------------------------
(***************************************************************************)
(* What the two applications of one RPC are promised, whatever carries it: *)
(* its result is decided once; a caller that is told of success has every  *)
(* response, and one that is told of anything else has been told the truth *)
(* (tunnelClientStream.RecvMsg, tunnelServerStream.SendMsg).  Tunnel       *)
(* implements it for each of its streams.                                  *)
(***************************************************************************)
EXTENDS Integers

VARIABLES
  wrote,        \* responses the handler has sent
  result,       \* what the server has decided: "none", "ok" or "error"
  cancelled,    \* the RPC's context at the caller is done
  headers,      \* the caller's Header returns without waiting
  got,          \* responses the caller has received
  end           \* what RecvMsg has told the caller of the end

vars == <<wrote, result, cancelled, headers, got, end>>

Init ==
  /\ wrote = 0 /\ result = "none"
  /\ cancelled = FALSE /\ headers = FALSE /\ got = 0 /\ end = "nil"

\* A handler may go on after its RPC has failed, not after it has succeeded.
Write ==
  /\ result # "ok"
  /\ wrote' = wrote + 1
  /\ UNCHANGED <<result, cancelled, headers, got, end>>

Decide ==
  /\ result = "none"
  /\ result' \in {"ok", "error"}
  /\ UNCHANGED <<wrote, cancelled, headers, got, end>>

Cancel ==
  /\ cancelled' = TRUE
  /\ UNCHANGED <<wrote, result, headers, got, end>>

HeadersKnown ==
  /\ headers' = TRUE
  /\ UNCHANGED <<wrote, result, cancelled, got, end>>

\* No response without headers, except from a handler that goes on after its
\* RPC has failed.
Receive ==
  /\ end = "nil" /\ got < wrote
  /\ headers \/ result = "error"
  /\ got' = got + 1
  /\ UNCHANGED <<wrote, result, cancelled, headers, end>>

\* The caller is told of the end: of success together with the last response,
\* or after it.
End ==
  /\ end = "nil"
  /\ \/ end' = "EOF" /\ headers /\ result = "ok" /\ got' \in {got, got + 1} /\ got' = wrote
     \/ end' = "status" /\ headers /\ result = "error" /\ got' = got
     \/ end' = "canceled" /\ cancelled /\ got' = got
     \/ end' = "multiple" /\ got < wrote /\ got' = got
  /\ UNCHANGED <<wrote, result, cancelled, headers>>

Next == Write \/ Decide \/ Cancel \/ HeadersKnown \/ Receive \/ End

Spec == Init /\ [][Next]_vars
=============================================================================
