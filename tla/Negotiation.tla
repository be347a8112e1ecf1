----------------------------- MODULE Negotiation -----------------------------
(***************************************************************************)
(* What two ends of a tunnel settle before RPCs can run on it: the sizes   *)
(* each end takes from its options (options.go), the protocol revision and *)
(* window the tunnel client accepts from the server's settings (recvLoop), *)
(* and what the server requires of a new stream (createStream).  Sizes and *)
(* limits are those of the code.                                           *)
(***************************************************************************)
EXTENDS Integers

\* Protocol revisions are an open enumeration; zero is that of old versions.
Revisions == Nat
supportedRevisions == {1, 2}

defaultInitialWindowSize == 65536
minInitialWindowSize == 1024
defaultChunkMax == 16384
defaultUpdateMin == 16384
revisionTwoMessageOverhead == 5

defaultEstablishmentTimeout == 15

\* The options an application may set; zero is an option that is not set.
\* (Nothing here adds sizes up, so that they fit 32 bits does not matter.)
tunnelOpts == [initialWindowSize : Nat, maxChunkSize : Nat, minWindowUpdateSize : Nat,
               establishmentTimeout : Int]

\* WithEstablishmentTimeout turns "no limit" into a negative number, since
\* zero stands for the default.
WithEstablishmentTimeout(timeout) == IF timeout <= 0 THEN -1 ELSE timeout

\* Mutant: a window that is too small is left alone.
WindowOption_Unclamped(w) == IF w = 0 THEN defaultInitialWindowSize ELSE w
WindowOption(w) ==
  IF w = 0 THEN defaultInitialWindowSize
  ELSE IF w < minInitialWindowSize THEN minInitialWindowSize ELSE w

initOptions(o) ==
  [initialWindowSize    |-> WindowOption(o.initialWindowSize),
   maxChunkSize         |-> IF o.maxChunkSize = 0 THEN defaultChunkMax ELSE o.maxChunkSize,
   minWindowUpdateSize  |-> IF o.minWindowUpdateSize = 0 THEN defaultUpdateMin ELSE o.minWindowUpdateSize,
   establishmentTimeout |-> IF o.establishmentTimeout = 0 THEN defaultEstablishmentTimeout
                            ELSE o.establishmentTimeout]

messageOverhead(revision) == IF revision >= 2 THEN revisionTwoMessageOverhead ELSE 0
minWindowSize(revision) == messageOverhead(revision) + 1

\* Settings, the first frame a tunnel server sends.
Settings == [revisions : SUBSET Revisions, initialWindowSize : Nat]

\* Mutant: any revision the server offers will do.
chooseRevision_Any(offered) ==
  IF \E r \in offered : TRUE THEN CHOOSE r \in offered : \A q \in offered : q <= r ELSE 0

\* The loop of recvLoop over the offered revisions: the latest that both ends
\* support, or zero.
chooseRevision(offered) ==
  LET common == offered \cap supportedRevisions IN
  IF common = {} THEN 0 ELSE CHOOSE r \in common : \A q \in common : q <= r

\* Mutant: every window is accepted.
checkSettings_AnyWindow(s) == IF chooseRevision(s.revisions) = 0 THEN "precondition" ELSE "ok"

\* How recvLoop takes the server's settings.
checkSettings(s) ==
  CASE chooseRevision(s.revisions) = 0 -> "precondition"
    [] /\ chooseRevision(s.revisions) # 0
       /\ s.initialWindowSize < minWindowSize(chooseRevision(s.revisions)) -> "internal"
    [] OTHER -> "ok"

\* Mutant: createStream does not look at the window.
checkNewStream_AnyWindow(revision, window) == IF revision \in supportedRevisions THEN "ok" ELSE "revision"

\* What createStream requires of the frame that creates a stream, besides its
\* ID and its method.
checkNewStream(revision, window) ==
  CASE revision \notin supportedRevisions -> "revision"
    [] revision \in supportedRevisions /\ window < minWindowSize(revision) -> "window"
    [] OTHER -> "ok"
-----------------------------------------------------------------------------
\* The settings a server of this version sends, given its options.
SettingsOf(o) ==
  [revisions |-> supportedRevisions, initialWindowSize |-> initOptions(o).initialWindowSize]
=============================================================================
