--------------------------- MODULE EstablishmentMC ---------------------------
(***************************************************************************)
(* The configurations that TLC explores.                                   *)
(***************************************************************************)
EXTENDS Establishment

Options(window) ==
  [initialWindowSize |-> window, maxChunkSize |-> 0, minWindowUpdateSize |-> 0, establishmentTimeout |-> 0]

Plain ==
  [dir |-> "forward", timeout |-> 0, htimeout |-> 0, supported |-> TRUE, request |-> TRUE,
   headers |-> "negotiate", first |-> "settings", settings |-> SettingsOf(Options(0)), window |-> 0,
   old |-> FALSE, raw |-> FALSE, this |-> TRUE, streams |-> 1, faults |-> {}]

Dirs == {"forward", "reverse"}
Limits == {0, WithEstablishmentTimeout(0)}

\* Two ends of this version, with everything that can go wrong.
Ours ==
  {[Plain EXCEPT !.dir = d, !.timeout = t, !.htimeout = h, !.supported = s,
                 !.faults = {"parent", "break", "close", "shutdown", "method", "refuse"}] :
     d \in Dirs, t \in Limits, h \in Limits, s \in BOOLEAN}

\* Their sizes, at and below the limits.
Sizes ==
  {[Plain EXCEPT !.dir = d, !.window = w, !.settings = SettingsOf(Options(v))] :
     d \in Dirs, w \in {0, 1, 5, 1024}, v \in {0, 1, 5, 1024}}

\* More streams than there are IDs.
Exhausted == {[Plain EXCEPT !.dir = d, !.streams = 4, !.faults = {"method"}] : d \in Dirs}

\* Tunnel servers of other versions, or that do not keep to the protocol.
Foreign == [Plain EXCEPT !.this = FALSE, !.faults = {"close"}]
Offers ==
  {[Foreign EXCEPT !.dir = d, !.settings = [revisions |-> r, initialWindowSize |-> w]] :
     d \in Dirs, r \in SUBSET {0, 1, 2, 3}, w \in {0, 1, 5, 6}}
Misfits ==
  {[Foreign EXCEPT !.dir = d, !.first = f, !.headers = h, !.request = q] :
     d \in Dirs, f \in {"settings", "badid", "other", "none"}, h \in {"none", "plain", "negotiate"}, q \in BOOLEAN}

\* Tunnel clients of other implementations, with windows on both sides of the
\* smallest one.
Strangers ==
  {[Foreign EXCEPT !.dir = d, !.raw = TRUE, !.window = w, !.settings.revisions = r] :
     d \in Dirs, w \in {0, 1, 5, 6}, r \in {{1}, {1, 2}}}

\* Tunnel clients of versions that do not negotiate.
OldClients ==
  {[Foreign EXCEPT !.dir = d, !.old = TRUE, !.request = (d = "reverse"), !.headers = h, !.streams = 2,
                   !.faults = {"break"}] :
     d \in Dirs, h \in {"plain", "negotiate"}}

AllConfigs == Ours \cup Sizes \cup Exhausted \cup Offers \cup Misfits \cup Strangers \cup OldClients

\* A forward tunnel whose caller may give up.
Impatient == {[Plain EXCEPT !.faults = {"parent"}]}

\* A reverse tunnel, with nothing but the timers at both ends.
Timed == {[Plain EXCEPT !.dir = "reverse"]}
=============================================================================
