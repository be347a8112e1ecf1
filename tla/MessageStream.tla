--------------------------- MODULE MessageStream ---------------------------
(***************************************************************************)
(* What one direction of a stream promises to the application: a reliable, *)
(* ordered sequence of messages.  Whatever is sent is delivered, in order  *)
(* and unchanged; only once the stream has failed may messages be missing. *)
(* Windows, chunks and acknowledgements do not show.                       *)
(***************************************************************************)
EXTENDS Naturals, Sequences

CONSTANT Sizes      \* the messages, told apart by their sizes

VARIABLES
  sent,     \* the messages sent
  got,      \* the messages delivered, with their numbers
  failed

vars == <<sent, got, failed>>

Init == sent = <<>> /\ got = <<>> /\ failed = FALSE

Submit(n) ==
  /\ sent' = Append(sent, n)
  /\ UNCHANGED <<got, failed>>

\* The number of the last message delivered.
Last == IF got = <<>> THEN 0 ELSE got[Len(got)].id

Deliver ==
  \E i \in (Last + 1) .. Len(sent) :
    /\ i = Last + 1 \/ failed
    /\ got' = Append(got, [id |-> i, len |-> sent[i]])
    /\ UNCHANGED <<sent, failed>>

Fail ==
  /\ ~failed
  /\ failed' = TRUE
  /\ UNCHANGED <<sent, got>>

Next == (\E n \in Sizes : Submit(n)) \/ Deliver \/ Fail

\* As long as the stream has not failed every message is delivered.
Spec == Init /\ [][Next]_vars /\ WF_vars(~failed /\ Deliver)
=============================================================================
