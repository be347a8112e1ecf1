-------------------------- MODULE NegotiationProofs --------------------------
(***************************************************************************)
(* What Negotiation computes, for every value of the options and for any   *)
(* settings a peer of another version may send.                            *)
(***************************************************************************)
EXTENDS Negotiation, TLAPS

\* The latest revision both ends support, whatever the server offers besides.
LEMMA ChosenRevision ==
  ASSUME NEW offered \in SUBSET Revisions
  PROVE  LET common == offered \cap supportedRevisions
             r == chooseRevision(offered)
         IN  /\ common = {} => r = 0
             /\ common # {} => r \in common /\ \A q \in common : q <= r
<1> DEFINE common == offered \cap supportedRevisions
<1>1. CASE common = {}
  BY <1>1 DEF chooseRevision
<1>2. CASE 2 \in common
  <2>1. 2 \in common /\ \A q \in common : q <= 2
    BY <1>2 DEF supportedRevisions
  <2>. QED  BY <2>1 DEF chooseRevision
<1>3. CASE common # {} /\ 2 \notin common
  <2>1. 1 \in common /\ \A q \in common : q <= 1
    BY <1>3 DEF supportedRevisions
  <2>. QED  BY <2>1 DEF chooseRevision
<1>. QED  BY <1>1, <1>2, <1>3

\* Every window that initOptions yields, from whatever the application asked
\* for, holds at least one byte of a message in every supported revision, and
\* chunks and window updates are never empty (WithInitialFlowControlWindow,
\* WithMaxChunkSize, WithMinWindowUpdateSize).
THEOREM OptionsUsable ==
  ASSUME NEW o \in tunnelOpts
  PROVE  LET i == initOptions(o)
         IN  /\ \A r \in supportedRevisions : i.initialWindowSize >= minWindowSize(r)
             /\ i.maxChunkSize >= 1 /\ i.minWindowUpdateSize >= 1
             /\ i.establishmentTimeout # 0
<1>1. /\ o.initialWindowSize \in Nat /\ o.maxChunkSize \in Nat /\ o.minWindowUpdateSize \in Nat
      /\ o.establishmentTimeout \in Int
  BY DEF tunnelOpts
<1>2. WindowOption(o.initialWindowSize) \in Nat /\ WindowOption(o.initialWindowSize) >= 1024
  BY <1>1 DEF WindowOption, defaultInitialWindowSize, minInitialWindowSize
<1>3. \A r \in supportedRevisions : minWindowSize(r) \in Nat /\ minWindowSize(r) <= 6
  BY DEF supportedRevisions, minWindowSize, messageOverhead, revisionTwoMessageOverhead
<1>4. \A r \in supportedRevisions : initOptions(o).initialWindowSize >= minWindowSize(r)
  BY <1>2, <1>3 DEF initOptions
<1>5. initOptions(o).maxChunkSize >= 1 /\ initOptions(o).minWindowUpdateSize >= 1
  BY <1>1 DEF initOptions, defaultChunkMax, defaultUpdateMin
<1>6. initOptions(o).establishmentTimeout # 0
  BY <1>1 DEF initOptions, defaultEstablishmentTimeout
<1>. QED  BY <1>4, <1>5, <1>6

\* Whatever settings recvLoop accepts, from a server of any version, every
\* stream then asks for a revision that the server offered, and the window it
\* writes into has room for at least one byte of a message.
THEOREM AcceptedSettings ==
  ASSUME NEW s \in Settings, checkSettings(s) = "ok"
  PROVE  LET r == chooseRevision(s.revisions)
         IN  /\ r \in s.revisions \cap supportedRevisions
             /\ s.initialWindowSize >= minWindowSize(r)
<1>1. s.revisions \in SUBSET Revisions /\ s.initialWindowSize \in Nat
  BY DEF Settings
<1>2. chooseRevision(s.revisions) # 0
  BY DEF checkSettings
<1>3. chooseRevision(s.revisions) \in s.revisions \cap supportedRevisions
  BY <1>1, <1>2, ChosenRevision
<1>4. minWindowSize(chooseRevision(s.revisions)) \in Nat
  BY <1>3 DEF supportedRevisions, minWindowSize, messageOverhead, revisionTwoMessageOverhead
<1>5. ~(s.initialWindowSize < minWindowSize(chooseRevision(s.revisions)))
  BY <1>2 DEF checkSettings
<1>. QED  BY <1>1, <1>3, <1>4, <1>5

\* Two ends of this version always come to terms, whatever options each has:
\* the client accepts the server's settings, and the server accepts what the
\* client's new streams ask for.
THEOREM SameVersionAgrees ==
  ASSUME NEW o \in tunnelOpts, NEW p \in tunnelOpts
  PROVE  /\ checkSettings(SettingsOf(o)) = "ok"
         /\ checkNewStream(chooseRevision(SettingsOf(o).revisions), initOptions(p).initialWindowSize) = "ok"
<1> DEFINE r == chooseRevision(supportedRevisions)
<1>1. SettingsOf(o).revisions = supportedRevisions
      /\ SettingsOf(o).initialWindowSize = initOptions(o).initialWindowSize
  BY DEF SettingsOf
<1>2. supportedRevisions \in SUBSET Revisions /\ supportedRevisions # {}
  BY DEF supportedRevisions, Revisions
<1>3. r \in supportedRevisions /\ r # 0
  <2>1. r \in supportedRevisions
    BY <1>2, ChosenRevision
  <2>. QED  BY <2>1 DEF supportedRevisions
<1>4. /\ initOptions(o).initialWindowSize >= minWindowSize(r)
      /\ initOptions(p).initialWindowSize >= minWindowSize(r)
  BY <1>3, OptionsUsable
<1>5. /\ initOptions(o).initialWindowSize \in Nat /\ initOptions(p).initialWindowSize \in Nat
      /\ minWindowSize(r) \in Nat
  <2>1. o.initialWindowSize \in Nat /\ p.initialWindowSize \in Nat
    BY DEF tunnelOpts
  <2>2. minWindowSize(r) \in Nat
    BY <1>3 DEF supportedRevisions, minWindowSize, messageOverhead, revisionTwoMessageOverhead
  <2>. QED  BY <2>1, <2>2 DEF initOptions, WindowOption, defaultInitialWindowSize, minInitialWindowSize
<1>6. ~(initOptions(o).initialWindowSize < minWindowSize(r)) /\ ~(initOptions(p).initialWindowSize < minWindowSize(r))
  BY <1>4, <1>5
<1>7. checkSettings(SettingsOf(o)) = "ok"
  BY <1>1, <1>3, <1>6 DEF checkSettings
<1>8. checkNewStream(r, initOptions(p).initialWindowSize) = "ok"
  BY <1>3, <1>6 DEF checkNewStream
<1>. QED  BY <1>1, <1>7, <1>8
=============================================================================
