------------------------ MODULE ReverseChannelsProofs ------------------------
(***************************************************************************)
(* Proofs, for any number of tunnels, keys, closing goroutines and waiters *)
(* of ReverseChannels, of its invariants TypeOK, AvailAgrees, Unlisted,    *)
(* Reachable and RoundRobin.                                               *)
(***************************************************************************)
EXTENDS ReverseChannels, TLAPS

\* No tunnel is twice on a list.
Distinct == \A l \in Lists : \A i, j \in 1 .. Len(chans[l]) : chans[l][i] = chans[l][j] => i = j

\* Between which steps of openReverseTunnel a tunnel may be on a list.
ListedAll == \A t \in Tunnels :
  On(All, t) => pc[t] \in {"all", "key", "keyed", "serve", "removeKey", "removeAll"}
ListedKey == \A t \in Tunnels : \A l \in Keys :
  On(l, t) => key[t] = l /\ pc[t] \in {"keyed", "serve", "removeKey"}

\* Readiness channels.
AvailInv ==
  /\ ~panicked
  /\ \A l \in Lists : availClosed[l] <=> chans[l] # <<>>
  /\ \A w \in Waiters : wait[w].avail <= avail[wait[w].list]

\* The list of a key exists once a tunnel is going to be put on it.
MadeInv == \A t \in Tunnels :
  pc[t] \in {"key", "keyed", "serve"} => key[t] \in made

\* While nobody has called close, a tunnel is where its handler has put it.
Untouched(t) == \A w \in Callers : cl[t][w] = "no"
StaysInv == \A t \in Tunnels : Untouched(t) =>
  /\ pc[t] \in {"all", "key", "keyed", "serve"} => On(All, t)
  /\ pc[t] \in {"keyed", "serve"} => On(key[t], t)

IInv ==
  TypeOK /\ Distinct /\ ListedAll /\ ListedKey /\ AvailInv /\ MadeInv /\ StaysInv
-----------------------------------------------------------------------------
(***************************************************************************)
(* The two operations on a list.                                           *)
(***************************************************************************)
\* Where the goroutine of openReverseTunnel and a call of close may be.
PCs == {"new", "open", "all", "key", "keyed", "serve", "removeKey", "removeAll", "close", "returned"}
CLs == {"no", "remove", "lookup", "removeKey", "section", "end"}
WaitStates == [at : {"idle", "load", "wait", "ready"}, list : Lists, avail : Nat]

\* What add and remove need and keep of the lists themselves.
ListsOK ==
  /\ chans \in [Lists -> Seq(Tunnels)] /\ idx \in [Lists -> Nat]
  /\ avail \in [Lists -> Nat] /\ availClosed \in [Lists -> BOOLEAN]
  /\ picks \in [Lists -> Seq(Tunnels)]
  /\ Distinct
  /\ panicked = FALSE
  /\ \A l \in Lists : availClosed[l] <=> chans[l] # <<>>

\* A sequence is empty exactly if its length is zero.
LEMMA EmptyLen == ASSUME NEW S, NEW s \in Seq(S) PROVE s # <<>> <=> Len(s) # 0
OBVIOUS

\* add puts a tunnel on one list and changes nothing else about the lists.
LEMMA AddList ==
  ASSUME NEW l \in Lists, NEW t \in Tunnels, ListsOK, ~On(l, t), add(l, t)
  PROVE  /\ ListsOK'
         /\ \A m \in Lists : avail'[m] = avail[m]
         /\ \A m \in Lists, u \in Tunnels : On(m, u)' <=> On(m, u) \/ (m = l /\ u = t)
<1> USE DEF ListsOK, add
<1>1. chans' \in [Lists -> Seq(Tunnels)] /\ picks' \in [Lists -> Seq(Tunnels)]
  OBVIOUS
<1>2. /\ idx' \in [Lists -> Nat] /\ avail' \in [Lists -> Nat]
      /\ \A m \in Lists : avail'[m] = avail[m]
  OBVIOUS
<1>3. \A m \in Lists : m # l => chans'[m] = chans[m]
  OBVIOUS
<1>4. chans'[l] = Append(chans[l], t)
  OBVIOUS
<1>5. /\ Len(chans'[l]) = Len(chans[l]) + 1
      /\ \A i \in 1 .. Len(chans[l]) : chans'[l][i] = chans[l][i]
      /\ chans'[l][Len(chans[l]) + 1] = t
      /\ Len(chans[l]) \in Nat
  BY <1>4
<1>6. Distinct'
  <2> SUFFICES ASSUME NEW m \in Lists, NEW i \in 1 .. Len(chans'[m]), NEW j \in 1 .. Len(chans'[m]),
                      chans'[m][i] = chans'[m][j]
               PROVE  i = j
    BY DEF Distinct
  <2>1. CASE m # l
    BY <2>1, <1>3 DEF Distinct
  <2>2. CASE m = l
    BY <2>2, <1>5 DEF Distinct, On
  <2>. QED  BY <2>1, <2>2
<1>7. panicked' = FALSE
  <2>1. ~(chans[l] = <<>> /\ availClosed[l])
    OBVIOUS
  <2>. QED  BY <2>1
<1>8. availClosed' \in [Lists -> BOOLEAN] /\ \A m \in Lists : availClosed'[m] <=> chans'[m] # <<>>
  <2>1. availClosed' = [availClosed EXCEPT ![l] = availClosed[l] \/ chans[l] = <<>>]
    OBVIOUS
  <2>2. availClosed'[l] = (availClosed[l] \/ chans[l] = <<>>)
    BY <2>1
  <2>3. availClosed'[l]
    BY <2>2
  <2>4. chans'[l] # <<>>
    BY <1>1, <1>5, EmptyLen
  <2>5. \A m \in Lists : m # l => availClosed'[m] = availClosed[m]
    BY <2>1
  <2>6. availClosed' \in [Lists -> BOOLEAN]
    BY <2>1
  <2>. QED  BY <2>3, <2>4, <2>5, <2>6, <1>3
<1>9. ASSUME NEW m \in Lists, NEW u \in Tunnels
      PROVE  On(m, u)' <=> On(m, u) \/ (m = l /\ u = t)
  <2>1. CASE m # l
    BY <2>1, <1>3 DEF On
  <2>2. CASE m = l
    BY <2>2, <1>5 DEF On
  <2>. QED  BY <2>1, <2>2
<1>. QED  BY <1>1, <1>2, <1>6, <1>7, <1>8, <1>9

\* remove takes a tunnel off one list, if it is there.
LEMMA RemoveList ==
  ASSUME NEW l \in Lists, NEW t \in Tunnels, ListsOK, remove(l, t)
  PROVE  /\ ListsOK'
         /\ \A m \in Lists : avail[m] <= avail'[m]
         /\ \A m \in Lists, u \in Tunnels : On(m, u)' <=> On(m, u) /\ ~(m = l /\ u = t)
<1>1. CASE ~On(l, t)
  <2>1. UNCHANGED listVars
    BY <1>1 DEF remove
  <2>. QED  BY <2>1, <1>1 DEF listVars, ListsOK, Distinct, On
<1>2. CASE On(l, t)
  <2> DEFINE p == Place(l, t)
  <2> DEFINE n == Len(chans[l])
  <2>0. /\ chans' = [chans EXCEPT ![l] = Without(l, t)]
        /\ avail' = [avail EXCEPT ![l] = IF Len(chans[l]) = 1 THEN avail[l] + 1 ELSE avail[l]]
        /\ availClosed' = [availClosed EXCEPT ![l] = availClosed[l] /\ Len(chans[l]) # 1]
        /\ picks' = [picks EXCEPT ![l] = <<>>]
        /\ idx' = idx /\ panicked' = panicked
    BY <1>2 DEF remove
  <2>1. n \in Nat /\ chans[l] \in Seq(Tunnels)
    BY DEF ListsOK
  <2>2. PICK i0 \in 1 .. n : chans[l][i0] = t
    BY <1>2 DEF On
  <2>3. \A j \in 1 .. i0 - 1 : chans[l][j] # t
    <3> SUFFICES ASSUME NEW j \in 1 .. i0 - 1, chans[l][j] = t PROVE FALSE
      OBVIOUS
    <3>1. j \in 1 .. n /\ j # i0
      BY <2>1, <2>2
    <3>. QED  BY <3>1, <2>2 DEF ListsOK, Distinct
  <2>4. p \in 1 .. n /\ chans[l][p] = t
    BY <2>2, <2>3 DEF Place
  <2>5. \A i \in 1 .. n : chans[l][i] = t => i = p
    BY <2>4 DEF ListsOK, Distinct
  <2>6. chans'[l] = [j \in 1 .. n - 1 |-> IF j < p THEN chans[l][j] ELSE chans[l][j + 1]]
    BY <2>0 DEF Without, ListsOK
  <2> HIDE DEF p
  <2>7. chans'[l] \in Seq(Tunnels) /\ Len(chans'[l]) = n - 1
    <3>1. \A j \in 1 .. n - 1 : (IF j < p THEN chans[l][j] ELSE chans[l][j + 1]) \in Tunnels
      BY <2>1, <2>4
    <3>2. n - 1 \in Nat
      BY <2>1, <2>4
    <3>. QED  BY <2>6, <3>1, <3>2
  <2>8. \A m \in Lists : m # l => chans'[m] = chans[m]
    BY <2>0 DEF ListsOK
  <2>9. chans' \in [Lists -> Seq(Tunnels)] /\ picks' \in [Lists -> Seq(Tunnels)]
    BY <2>0, <2>6, <2>7 DEF ListsOK
  <2>10. Distinct'
    <3> SUFFICES ASSUME NEW m \in Lists, NEW i \in 1 .. Len(chans'[m]), NEW j \in 1 .. Len(chans'[m]),
                        chans'[m][i] = chans'[m][j]
                 PROVE  i = j
      BY DEF Distinct
    <3>1. CASE m # l
      BY <3>1, <2>8 DEF ListsOK, Distinct
    <3>2. CASE m = l
      <4> DEFINE up(k) == IF k < p THEN k ELSE k + 1
      <4>1. i \in 1 .. n - 1 /\ j \in 1 .. n - 1
        BY <3>2, <2>7
      <4>2. up(i) \in 1 .. n /\ up(j) \in 1 .. n
        BY <4>1, <2>1, <2>4
      <4>3. chans'[l][i] = chans[l][up(i)] /\ chans'[l][j] = chans[l][up(j)]
        BY <4>1, <2>6
      <4>4. up(i) = up(j)
        BY <4>2, <4>3, <3>2 DEF ListsOK, Distinct
      <4>. QED  BY <4>4, <4>1, <2>1, <2>4
    <3>. QED  BY <3>1, <3>2
  <2>11. availClosed' \in [Lists -> BOOLEAN] /\ \A m \in Lists : availClosed'[m] <=> chans'[m] # <<>>
    <3>1. availClosed'[l] = (availClosed[l] /\ n # 1)
      BY <2>0 DEF ListsOK
    <3>2. chans[l] # <<>>
      BY <2>1, <2>4
    <3>3. availClosed[l]
      BY <3>2 DEF ListsOK
    <3>4. availClosed'[l] <=> n # 1
      BY <3>1, <3>3
    <3>5. chans'[l] # <<>> <=> n # 1
      <4>1. chans'[l] # <<>> <=> Len(chans'[l]) # 0
        BY <2>7, EmptyLen
      <4>2. Len(chans'[l]) # 0 <=> n # 1
        BY <2>1, <2>7
      <4>. QED  BY <4>1, <4>2
    <3>6. \A m \in Lists : m # l => availClosed'[m] = availClosed[m]
      BY <2>0 DEF ListsOK
    <3>7. availClosed' \in [Lists -> BOOLEAN]
      BY <2>0 DEF ListsOK
    <3>. QED  BY <3>4, <3>5, <3>6, <3>7, <2>8 DEF ListsOK
  <2>12. /\ avail' \in [Lists -> Nat] /\ idx' \in [Lists -> Nat] /\ panicked' = FALSE
         /\ \A m \in Lists : avail[m] <= avail'[m]
    BY <2>0 DEF ListsOK
  <2>13. ASSUME NEW m \in Lists, NEW u \in Tunnels
         PROVE  On(m, u)' <=> On(m, u) /\ ~(m = l /\ u = t)
    <3>1. CASE m # l
      BY <3>1, <2>8 DEF On
    <3>2. CASE m = l /\ u = t
      <4>1. ASSUME NEW i \in 1 .. n - 1, chans'[l][i] = t PROVE FALSE
        <5>1. CASE i < p
          BY <5>1, <4>1, <2>6, <2>5, <2>1
        <5>2. CASE ~(i < p)
          BY <5>2, <4>1, <2>6, <2>5, <2>1, <2>4
        <5>. QED  BY <5>1, <5>2
      <4>. QED  BY <3>2, <4>1, <2>7 DEF On
    <3>3. CASE m = l /\ u # t
      <4>1. ASSUME On(l, u) PROVE On(l, u)'
        <5>1. PICK i \in 1 .. n : chans[l][i] = u
          BY <4>1 DEF On
        <5>2. i # p
          BY <5>1, <3>3, <2>4
        <5>3. CASE i < p
          <6>1. i \in 1 .. n - 1 /\ chans'[l][i] = u
            BY <5>1, <5>3, <2>1, <2>4, <2>6
          <6>. QED  BY <6>1, <2>7 DEF On
        <5>4. CASE i > p
          <6>1. i - 1 \in 1 .. n - 1 /\ ~(i - 1 < p) /\ (i - 1) + 1 = i
            BY <5>4, <2>1, <2>4
          <6>2. chans'[l][i - 1] = u
            BY <5>1, <6>1, <2>6
          <6>. QED  BY <6>1, <6>2, <2>7 DEF On
        <5>. QED  BY <5>2, <5>3, <5>4, <2>4
      <4>2. ASSUME On(l, u)' PROVE On(l, u)
        <5>1. PICK i \in 1 .. n - 1 : chans'[l][i] = u
          BY <4>2, <2>7 DEF On
        <5>2. i \in 1 .. n /\ i + 1 \in 1 .. n
          BY <5>1, <2>1
        <5>3. chans[l][i] = u \/ chans[l][i + 1] = u
          BY <5>1, <2>6
        <5>. QED  BY <5>2, <5>3 DEF On
      <4>. QED  BY <3>3, <4>1, <4>2
    <3>. QED  BY <3>1, <3>2, <3>3
  <2>. QED  BY <2>9, <2>10, <2>11, <2>12, <2>13 DEF ListsOK
<1>. QED  BY <1>1, <1>2
-----------------------------------------------------------------------------
(***************************************************************************)
(* The invariant is inductive.                                             *)
(***************************************************************************)
\* The parts of the invariant that speak of the lists.
LEMMA Listed == IInv => ListsOK
BY DEF IInv, ListsOK, TypeOK, AvailInv

\* Initially nothing is listed.
LEMMA InitIInv == Init => IInv
<1> SUFFICES ASSUME Init PROVE IInv
  OBVIOUS
<1>1. TypeOK
  <2>1. chans \in [Lists -> Seq(Tunnels)] /\ picks \in [Lists -> Seq(Tunnels)]
    BY DEF Init
  <2>2. idx \in [Lists -> Nat] /\ avail \in [Lists -> Nat] /\ availClosed \in [Lists -> BOOLEAN]
    BY DEF Init
  <2>3. NotWaiting \in [at : {"idle", "load", "wait", "ready"}, list : Lists, avail : Nat]
    BY DEF NotWaiting, Lists
  <2>4. wait \in [Waiters -> [at : {"idle", "load", "wait", "ready"}, list : Lists, avail : Nat]]
    BY <2>3 DEF Init
  <2>5. /\ made \subseteq Keys /\ panicked \in BOOLEAN
        /\ pc \in [Tunnels -> PCs] /\ key \in [Tunnels -> Keys] /\ done \in [Tunnels -> BOOLEAN]
        /\ cl \in [Tunnels -> [Callers -> CLs]]
    BY DEF Init, PCs, CLs
  <2>. QED  BY <2>1, <2>2, <2>4, <2>5 DEF TypeOK, PCs, CLs
<1>2. \A l \in Lists : Len(chans[l]) = 0
  BY DEF Init
<1>3. \A l \in Lists, t \in Tunnels : ~On(l, t)
  BY <1>2 DEF On
<1>4. Distinct
  BY <1>2 DEF Distinct
<1>5. AvailInv
  BY DEF Init, AvailInv, NotWaiting, Lists
<1>. QED  BY <1>1, <1>3, <1>4, <1>5 DEF IInv, ListedAll, ListedKey, MadeInv, StaysInv, Init, Lists

\* A step that leaves the lists alone.
LEMMA SameLists ==
  ASSUME ListsOK, UNCHANGED listVars
  PROVE  /\ ListsOK'
         /\ \A m \in Lists : avail[m] <= avail'[m]
         /\ \A m \in Lists, u \in Tunnels : On(m, u)' <=> On(m, u)
BY DEF ListsOK, Distinct, On, listVars

\* What a step of openReverseTunnel has to observe.
LEMMA HandlerMove ==
  ASSUME IInv, NEW t \in Tunnels, NEW to \in PCs,
         pc' = [pc EXCEPT ![t] = to], UNCHANGED <<key, done, cl, wait>>,
         made \subseteq made', made' \subseteq Keys,
         ListsOK', \A m \in Lists : avail[m] <= avail'[m],
         \A m \in Lists, u \in Tunnels : u # t => (On(m, u)' <=> On(m, u)),
         On(All, t)' => to \in {"all", "key", "keyed", "serve", "removeKey", "removeAll"},
         \A l \in Keys : On(l, t)' => key[t] = l /\ to \in {"keyed", "serve", "removeKey"},
         to \in {"key", "keyed", "serve"} => key[t] \in made',
         Untouched(t) => /\ to \in {"all", "key", "keyed", "serve"} => On(All, t)'
                         /\ to \in {"keyed", "serve"} => On(key[t], t)'
  PROVE  IInv'
<1> USE DEF IInv
<1>0. pc \in [Tunnels -> PCs] /\ key \in [Tunnels -> Keys]
  BY DEF TypeOK, PCs
<1>1. pc'[t] = to /\ \A u \in Tunnels : u # t => pc'[u] = pc[u]
  BY <1>0
<1>2. TypeOK'
  <2>1. pc' \in [Tunnels -> PCs]
    BY <1>0
  <2>2. panicked' \in BOOLEAN
    BY DEF ListsOK
  <2>. QED  BY <2>1, <2>2 DEF TypeOK, ListsOK, PCs
<1>3. Distinct'
  BY DEF ListsOK
<1>4. ListedAll'
  <2> SUFFICES ASSUME NEW u \in Tunnels, On(All, u)'
               PROVE  pc'[u] \in {"all", "key", "keyed", "serve", "removeKey", "removeAll"}
    BY DEF ListedAll
  <2>. QED  BY <1>1 DEF ListedAll, Lists
<1>5. ListedKey'
  <2> SUFFICES ASSUME NEW u \in Tunnels, NEW l \in Keys, On(l, u)'
               PROVE  key'[u] = l /\ pc'[u] \in {"keyed", "serve", "removeKey"}
    BY DEF ListedKey
  <2>. QED  BY <1>1 DEF ListedKey, Lists
<1>6. AvailInv'
  <2>1. \A w \in Waiters : wait[w].list \in Lists /\ wait[w].avail \in Nat
    BY DEF TypeOK
  <2>2. avail \in [Lists -> Nat] /\ avail' \in [Lists -> Nat]
    BY DEF TypeOK, ListsOK
  <2>. QED  BY <2>1, <2>2 DEF AvailInv, ListsOK
<1>7. MadeInv'
  BY <1>1 DEF MadeInv
<1>8. StaysInv'
  <2> SUFFICES ASSUME NEW u \in Tunnels, Untouched(u)'
               PROVE  /\ pc'[u] \in {"all", "key", "keyed", "serve"} => On(All, u)'
                      /\ pc'[u] \in {"keyed", "serve"} => On(key[u], u)'
    BY DEF StaysInv, On
  <2>1. Untouched(u)
    BY DEF Untouched
  <2>. QED  BY <2>1, <1>0, <1>1 DEF StaysInv, Lists
<1>. QED  BY <1>2, <1>3, <1>4, <1>5, <1>6, <1>7, <1>8

\* What a step of close has to observe.
LEMMA CloseMove ==
  ASSUME IInv, NEW t \in Tunnels, NEW w \in Callers,
         NEW to \in {"remove", "lookup", "removeKey", "section", "end"},
         cl' = [cl EXCEPT ![t][w] = to], UNCHANGED <<pc, key, made, wait>>,
         done' \in [Tunnels -> BOOLEAN],
         ListsOK', \A m \in Lists : avail[m] <= avail'[m],
         \A m \in Lists, u \in Tunnels : On(m, u)' => On(m, u),
         \A m \in Lists, u \in Tunnels : u # t => (On(m, u)' <=> On(m, u))
  PROVE  IInv'
<1> USE DEF IInv
<1>0. cl \in [Tunnels -> [Callers -> CLs]] /\ key \in [Tunnels -> Keys]
  BY DEF TypeOK, CLs
<1>1. cl'[t][w] = to /\ \A u \in Tunnels : u # t => cl'[u] = cl[u]
  BY <1>0
<1>2. TypeOK'
  <2>1. cl' \in [Tunnels -> [Callers -> CLs]]
    BY <1>0 DEF CLs
  <2>2. panicked' \in BOOLEAN
    BY DEF ListsOK
  <2>. QED  BY <2>1, <2>2 DEF TypeOK, ListsOK, CLs
<1>3. Distinct'
  BY DEF ListsOK
<1>4. ListedAll'
  BY DEF ListedAll, Lists
<1>5. ListedKey'
  BY DEF ListedKey, Lists
<1>6. AvailInv'
  <2>1. \A v \in Waiters : wait[v].list \in Lists /\ wait[v].avail \in Nat
    BY DEF TypeOK
  <2>2. avail \in [Lists -> Nat] /\ avail' \in [Lists -> Nat]
    BY DEF TypeOK, ListsOK
  <2>. QED  BY <2>1, <2>2 DEF AvailInv, ListsOK
<1>7. MadeInv'
  BY DEF MadeInv
<1>8. StaysInv'
  <2> SUFFICES ASSUME NEW u \in Tunnels, Untouched(u)'
               PROVE  /\ pc'[u] \in {"all", "key", "keyed", "serve"} => On(All, u)'
                      /\ pc'[u] \in {"keyed", "serve"} => On(key[u], u)'
    BY DEF StaysInv, On
  <2>1. u # t
    BY <1>1 DEF Untouched
  <2>2. Untouched(u)
    BY <2>1, <1>1 DEF Untouched
  <2>. QED  BY <2>1, <2>2, <1>0 DEF StaysInv, Lists
<1>. QED  BY <1>2, <1>3, <1>4, <1>5, <1>6, <1>7, <1>8

\* A step that touches neither tunnels nor what is on the lists.
LEMMA WaiterMove ==
  ASSUME IInv, UNCHANGED <<chans, avail, availClosed, panicked, pc, key, done, cl>>,
         idx' \in [Lists -> Nat], picks' \in [Lists -> Seq(Tunnels)],
         made \subseteq made', made' \subseteq Keys,
         wait' \in [Waiters -> WaitStates],
         \A w \in Waiters : wait'[w].avail <= avail[wait'[w].list]
  PROVE  IInv'
<1> USE DEF IInv
<1>1. TypeOK'
  BY DEF TypeOK, WaitStates
<1>2. \A l, t : On(l, t)' <=> On(l, t)
  BY DEF On
<1>3. Distinct' /\ AvailInv'
  BY DEF Distinct, AvailInv
<1>4. ListedAll' /\ ListedKey'
  BY <1>2 DEF ListedAll, ListedKey
<1>5. MadeInv'
  BY DEF MadeInv
<1>6. StaysInv'
  BY <1>2 DEF StaysInv, Untouched
<1>. QED  BY <1>1, <1>3, <1>4, <1>5, <1>6

\* Every step of openReverseTunnel.
LEMMA HandlerKeeps ==
  ASSUME IInv, NEW t \in Tunnels, HandlerStep(t) PROVE IInv'
<1> USE DEF IInv
<1>0. ListsOK /\ pc \in [Tunnels -> PCs] /\ key[t] \in Keys /\ made \subseteq Keys
  BY Listed DEF TypeOK, PCs
<1>1. All \in Lists /\ key[t] \in Lists /\ key[t] # All
  BY <1>0, ReverseAssumption DEF Lists
<1>2. CASE Open(t)
  <2> DEFINE to == IF done[t] THEN "close" ELSE "open"
  <2>1. /\ pc[t] = "new" /\ pc' = [pc EXCEPT ![t] = to]
        /\ UNCHANGED <<key, done, cl, wait>> /\ made' = made /\ UNCHANGED listVars
    BY <1>2 DEF Open, Handler
  <2>2. to \in PCs /\ to \in {"close", "open"}
    BY DEF PCs
  <2> HIDE DEF to
  <2>3. ListsOK' /\ (\A m \in Lists : avail[m] <= avail'[m]) /\ \A m \in Lists, u \in Tunnels : On(m, u)' <=> On(m, u)
    BY <1>0, <2>1, SameLists
  <2>4. \A m \in Lists : ~On(m, t)
    BY <2>1 DEF ListedAll, ListedKey, Lists
  <2>. QED  BY <1>0, <2>1, <2>2, <2>3, <2>4, HandlerMove DEF Lists
<1>3. CASE AddToAll(t)
  <2>1. /\ pc[t] = "open" /\ pc' = [pc EXCEPT ![t] = "all"] /\ add(All, t)
        /\ UNCHANGED <<key, done, cl, wait>> /\ made' = made
    BY <1>3 DEF AddToAll, Handler
  <2>2. \A m \in Lists : ~On(m, t)
    BY <2>1 DEF ListedAll, ListedKey, Lists
  <2>3. /\ ListsOK' /\ \A m \in Lists : avail'[m] = avail[m]
        /\ \A m \in Lists, u \in Tunnels : On(m, u)' <=> On(m, u) \/ (m = All /\ u = t)
    BY <1>0, <1>1, <2>1, <2>2, AddList
  <2>4. \A m \in Lists : avail[m] <= avail'[m]
    BY <1>0, <2>3 DEF ListsOK
  <2>5. /\ On(All, t)'
        /\ \A l \in Keys : ~On(l, t)'
        /\ \A m \in Lists, u \in Tunnels : u # t => (On(m, u)' <=> On(m, u))
    BY <2>2, <2>3, ReverseAssumption DEF Lists
  <2>6. "all" \in PCs
    BY DEF PCs
  <2>. QED  BY <1>0, <2>1, <2>3, <2>4, <2>5, <2>6, HandlerMove
<1>4. CASE ListForKey(t)
  <2>1. /\ pc[t] = "all" /\ pc' = [pc EXCEPT ![t] = "key"] /\ UNCHANGED listVars
        /\ UNCHANGED <<key, done, cl, wait>> /\ made' = made \cup {key[t]}
    BY <1>4 DEF ListForKey, Handler
  <2>2. ListsOK' /\ (\A m \in Lists : avail[m] <= avail'[m]) /\ \A m \in Lists, u \in Tunnels : On(m, u)' <=> On(m, u)
    BY <1>0, <2>1, SameLists
  <2>3. /\ \A l \in Keys : ~On(l, t)'
        /\ Untouched(t) => On(All, t)'
    BY <1>1, <2>1, <2>2 DEF ListedKey, StaysInv, Lists
  <2>4. "key" \in PCs
    BY DEF PCs
  <2>. QED  BY <1>0, <2>1, <2>2, <2>3, <2>4, HandlerMove
<1>5. CASE AddToKey(t)
  <2>1. /\ pc[t] = "key" /\ pc' = [pc EXCEPT ![t] = "keyed"] /\ add(key[t], t)
        /\ UNCHANGED <<key, done, cl, wait>> /\ made' = made
    BY <1>5 DEF AddToKey, Handler
  <2>2. \A l \in Keys : ~On(l, t)
    BY <2>1 DEF ListedKey
  <2>3. /\ ListsOK' /\ \A m \in Lists : avail'[m] = avail[m]
        /\ \A m \in Lists, u \in Tunnels : On(m, u)' <=> On(m, u) \/ (m = key[t] /\ u = t)
    BY <1>0, <1>1, <2>1, <2>2, AddList
  <2>4. \A m \in Lists : avail[m] <= avail'[m]
    BY <1>0, <2>3 DEF ListsOK
  <2>5. /\ On(key[t], t)' /\ (Untouched(t) => On(All, t)')
        /\ \A l \in Keys : On(l, t)' => key[t] = l
        /\ \A m \in Lists, u \in Tunnels : u # t => (On(m, u)' <=> On(m, u))
    BY <1>1, <2>1, <2>2, <2>3 DEF StaysInv, Lists
  <2>6. "keyed" \in PCs /\ key[t] \in made
    BY <2>1 DEF PCs, MadeInv
  <2>. QED  BY <1>0, <2>1, <2>3, <2>4, <2>5, <2>6, HandlerMove
<1>6. CASE Connect(t)
  <2>1. /\ pc[t] = "keyed" /\ pc' = [pc EXCEPT ![t] = "serve"] /\ UNCHANGED listVars
        /\ UNCHANGED <<key, done, cl, wait>> /\ made' = made
    BY <1>6 DEF Connect, Handler
  <2>2. ListsOK' /\ (\A m \in Lists : avail[m] <= avail'[m]) /\ \A m \in Lists, u \in Tunnels : On(m, u)' <=> On(m, u)
    BY <1>0, <2>1, SameLists
  <2>3. /\ \A l \in Keys : On(l, t)' => key[t] = l
        /\ Untouched(t) => On(All, t)' /\ On(key[t], t)'
    BY <1>1, <2>1, <2>2 DEF ListedKey, StaysInv, Lists
  <2>4. "serve" \in PCs /\ key[t] \in made
    BY <2>1 DEF PCs, MadeInv
  <2>. QED  BY <1>0, <2>1, <2>2, <2>3, <2>4, HandlerMove
<1>7. CASE Disconnect(t)
  <2>1. /\ pc[t] = "serve" /\ pc' = [pc EXCEPT ![t] = "removeKey"] /\ UNCHANGED listVars
        /\ UNCHANGED <<key, done, cl, wait>> /\ made' = made
    BY <1>7 DEF Disconnect, Handler
  <2>2. ListsOK' /\ (\A m \in Lists : avail[m] <= avail'[m]) /\ \A m \in Lists, u \in Tunnels : On(m, u)' <=> On(m, u)
    BY <1>0, <2>1, SameLists
  <2>3. \A l \in Keys : On(l, t)' => key[t] = l
    BY <2>2 DEF ListedKey, Lists
  <2>4. "removeKey" \in PCs
    BY DEF PCs
  <2>. QED  BY <1>0, <2>1, <2>2, <2>3, <2>4, HandlerMove
<1>8. CASE RemoveFromKey(t)
  <2>1. /\ pc[t] = "removeKey" /\ pc' = [pc EXCEPT ![t] = "removeAll"] /\ remove(key[t], t)
        /\ UNCHANGED <<key, done, cl, wait>> /\ made' = made
    BY <1>8 DEF RemoveFromKey, Handler
  <2>2. /\ ListsOK' /\ \A m \in Lists : avail[m] <= avail'[m]
        /\ \A m \in Lists, u \in Tunnels : On(m, u)' <=> On(m, u) /\ ~(m = key[t] /\ u = t)
    BY <1>0, <1>1, <2>1, RemoveList
  <2>3. /\ \A l \in Keys : ~On(l, t)'
        /\ \A m \in Lists, u \in Tunnels : u # t => (On(m, u)' <=> On(m, u))
    BY <2>2 DEF ListedKey, Lists
  <2>4. "removeAll" \in PCs
    BY DEF PCs
  <2>. QED  BY <1>0, <2>1, <2>2, <2>3, <2>4, HandlerMove
<1>9. CASE RemoveFromAll(t)
  <2>1. /\ pc[t] = "removeAll" /\ pc' = [pc EXCEPT ![t] = "close"] /\ remove(All, t)
        /\ UNCHANGED <<key, done, cl, wait>> /\ made' = made
    BY <1>9 DEF RemoveFromAll, Handler
  <2>2. /\ ListsOK' /\ \A m \in Lists : avail[m] <= avail'[m]
        /\ \A m \in Lists, u \in Tunnels : On(m, u)' <=> On(m, u) /\ ~(m = All /\ u = t)
    BY <1>0, <1>1, <2>1, RemoveList
  <2>3. /\ ~On(All, t)' /\ \A l \in Keys : ~On(l, t)'
        /\ \A m \in Lists, u \in Tunnels : u # t => (On(m, u)' <=> On(m, u))
    BY <1>1, <2>1, <2>2 DEF ListedKey, Lists
  <2>4. "close" \in PCs
    BY DEF PCs
  <2>. QED  BY <1>0, <2>1, <2>2, <2>3, <2>4, HandlerMove
<1>10. CASE HandlerClose(t)
  <2>1. /\ cl' = [cl EXCEPT ![t]["handler"] = "remove"] /\ UNCHANGED <<pc, key, made, wait>>
        /\ done' = done /\ UNCHANGED listVars
    BY <1>10 DEF HandlerClose
  <2>2. ListsOK' /\ (\A m \in Lists : avail[m] <= avail'[m]) /\ \A m \in Lists, u \in Tunnels : On(m, u)' <=> On(m, u)
    BY <1>0, <2>1, SameLists
  <2>3. "handler" \in Callers /\ done' \in [Tunnels -> BOOLEAN]
    BY <2>1 DEF Callers, TypeOK
  <2>. QED  BY <2>1, <2>2, <2>3, CloseMove
<1>11. CASE HandlerReturn(t)
  <2>1. /\ pc[t] = "close" /\ pc' = [pc EXCEPT ![t] = "returned"] /\ UNCHANGED listVars
        /\ UNCHANGED <<key, done, cl, wait>> /\ made' = made
    BY <1>11 DEF HandlerReturn, Handler
  <2>2. ListsOK' /\ (\A m \in Lists : avail[m] <= avail'[m]) /\ \A m \in Lists, u \in Tunnels : On(m, u)' <=> On(m, u)
    BY <1>0, <2>1, SameLists
  <2>3. \A m \in Lists : ~On(m, t)
    BY <2>1 DEF ListedAll, ListedKey, Lists
  <2>4. "returned" \in PCs
    BY DEF PCs
  <2>. QED  BY <1>0, <2>1, <2>2, <2>3, <2>4, HandlerMove DEF Lists
<1>. QED  BY <1>2, <1>3, <1>4, <1>5, <1>6, <1>7, <1>8, <1>9, <1>10, <1>11 DEF HandlerStep

\* Every step of close.
LEMMA CloseKeeps ==
  ASSUME IInv, NEW t \in Tunnels, NEW w \in Callers, CallClose(t, w) \/ CloseStep(t, w) PROVE IInv'
<1> USE DEF IInv
<1>0. ListsOK /\ key[t] \in Lists /\ All \in Lists /\ done \in [Tunnels -> BOOLEAN]
  BY Listed DEF TypeOK, Lists
<1>1. CASE CallClose(t, w)
  <2>1. /\ cl' = [cl EXCEPT ![t][w] = "remove"] /\ UNCHANGED <<pc, key, made, wait>>
        /\ done' = done /\ UNCHANGED listVars
    BY <1>1 DEF CallClose
  <2>2. ListsOK' /\ (\A m \in Lists : avail[m] <= avail'[m]) /\ \A m \in Lists, u \in Tunnels : On(m, u)' <=> On(m, u)
    BY <1>0, <2>1, SameLists
  <2>. QED  BY <1>0, <2>1, <2>2, CloseMove
<1>2. CASE UnregisterAll(t, w)
  <2> DEFINE to == IF On(All, t) THEN "lookup" ELSE "section"
  <2>1. /\ cl' = [cl EXCEPT ![t][w] = to] /\ UNCHANGED <<pc, key, made, wait>>
        /\ done' = done /\ remove(All, t)
    BY <1>2 DEF UnregisterAll
  <2>2. to \in {"remove", "lookup", "removeKey", "section", "end"}
    OBVIOUS
  <2> HIDE DEF to
  <2>3. /\ ListsOK' /\ \A m \in Lists : avail[m] <= avail'[m]
        /\ \A m \in Lists, u \in Tunnels : On(m, u)' <=> On(m, u) /\ ~(m = All /\ u = t)
    BY <1>0, <2>1, RemoveList
  <2>. QED  BY <1>0, <2>1, <2>2, <2>3, CloseMove
<1>3. CASE UnregisterLookup(t, w)
  <2> DEFINE to == IF key[t] \in made THEN "removeKey" ELSE "section"
  <2>1. /\ cl' = [cl EXCEPT ![t][w] = to] /\ UNCHANGED <<pc, key, made, wait>>
        /\ done' = done /\ UNCHANGED listVars
    BY <1>3 DEF UnregisterLookup
  <2>2. to \in {"remove", "lookup", "removeKey", "section", "end"}
    OBVIOUS
  <2> HIDE DEF to
  <2>3. ListsOK' /\ (\A m \in Lists : avail[m] <= avail'[m]) /\ \A m \in Lists, u \in Tunnels : On(m, u)' <=> On(m, u)
    BY <1>0, <2>1, SameLists
  <2>. QED  BY <1>0, <2>1, <2>2, <2>3, CloseMove
<1>4. CASE UnregisterKey(t, w)
  <2>1. /\ cl' = [cl EXCEPT ![t][w] = "section"] /\ UNCHANGED <<pc, key, made, wait>>
        /\ done' = done /\ remove(key[t], t)
    BY <1>4 DEF UnregisterKey
  <2>2. /\ ListsOK' /\ \A m \in Lists : avail[m] <= avail'[m]
        /\ \A m \in Lists, u \in Tunnels : On(m, u)' <=> On(m, u) /\ ~(m = key[t] /\ u = t)
    BY <1>0, <2>1, RemoveList
  <2>. QED  BY <1>0, <2>1, <2>2, CloseMove
<1>5. CASE CloseSection(t, w)
  <2>1. /\ cl' = [cl EXCEPT ![t][w] = "end"] /\ UNCHANGED <<pc, key, made, wait>>
        /\ done' = [done EXCEPT ![t] = TRUE] /\ UNCHANGED listVars
    BY <1>5 DEF CloseSection
  <2>2. done' \in [Tunnels -> BOOLEAN]
    BY <1>0, <2>1
  <2>3. ListsOK' /\ (\A m \in Lists : avail[m] <= avail'[m]) /\ \A m \in Lists, u \in Tunnels : On(m, u)' <=> On(m, u)
    BY <1>0, <2>1, SameLists
  <2>. QED  BY <1>0, <2>1, <2>2, <2>3, CloseMove
<1>. QED  BY <1>1, <1>2, <1>3, <1>4, <1>5 DEF CloseStep

\* The end of a tunnel's RPC leaves it where it is listed.
LEMMA StreamKeeps ==
  ASSUME IInv, NEW t \in Tunnels, StreamDone(t) PROVE IInv'
<1>1. done' = [done EXCEPT ![t] = TRUE] /\ UNCHANGED <<listVars, made, pc, key, cl, wait>>
  BY DEF StreamDone
<1>2. TypeOK'
  <2>1. done \in [Tunnels -> BOOLEAN]
    BY DEF IInv, TypeOK
  <2>2. done' \in [Tunnels -> BOOLEAN]
    BY <1>1, <2>1
  <2>. QED  BY <1>1, <2>2 DEF IInv, TypeOK, listVars
<1>. QED  BY <1>1, <1>2 DEF IInv, listVars, Distinct, ListedAll, ListedKey, AvailInv, MadeInv, StaysInv, Untouched, On

\* RPCs that pick a tunnel, and the steps of WaitForReady.
LEMMA CallerKeeps ==
  ASSUME IInv, \/ \E l \in Lists : Invoke(l) \/ \E w \in Waiters : WaitForReady(w, l)
               \/ \E w \in Waiters : LoadAvail(w) \/ Wake(w) \/ GiveUp(w)
  PROVE  IInv'
<1>0. /\ chans \in [Lists -> Seq(Tunnels)] /\ idx \in [Lists -> Nat] /\ avail \in [Lists -> Nat]
      /\ made \subseteq Keys /\ wait \in [Waiters -> WaitStates] /\ picks \in [Lists -> Seq(Tunnels)]
      /\ \A w \in Waiters : wait[w].avail <= avail[wait[w].list]
  BY DEF IInv, TypeOK, AvailInv, WaitStates
<1>1. ASSUME NEW l \in Lists, Invoke(l) PROVE IInv'
  <2>1. /\ chans[l] # <<>> /\ idx' = [idx EXCEPT ![l] = NextIdx(l)]
        /\ picks' = [picks EXCEPT ![l] = Append(picks[l], chans[l][NextIdx(l) + 1])]
        /\ UNCHANGED <<chans, avail, availClosed, made, panicked, pc, key, done, cl, wait>>
    BY <1>1 DEF Invoke, ready, pick
  <2>2. chans[l] \in Seq(Tunnels) /\ Len(chans[l]) \in Nat /\ Len(chans[l]) # 0
    BY <1>0, <2>1, EmptyLen
  <2>3. NextIdx(l) \in Nat /\ NextIdx(l) + 1 \in 1 .. Len(chans[l])
    <3>1. idx[l] \in Nat
      BY <1>0
    <3>. QED  BY <2>2, <3>1 DEF NextIdx
  <2>4. chans[l][NextIdx(l) + 1] \in Tunnels
    BY <2>2, <2>3
  <2>5. idx' \in [Lists -> Nat] /\ picks' \in [Lists -> Seq(Tunnels)]
    BY <1>0, <2>1, <2>3, <2>4
  <2>6. wait' = wait /\ made' = made
    BY <2>1
  <2>. QED  BY <1>0, <2>1, <2>5, <2>6, WaiterMove
<1>2. ASSUME NEW w \in Waiters, NEW r \in WaitStates, r.avail <= avail[r.list],
             wait' = [wait EXCEPT ![w] = r],
             UNCHANGED <<listVars, pc, key, done, cl>>, made \subseteq made', made' \subseteq Keys
      PROVE  IInv'
  <2>1. /\ wait' \in [Waiters -> WaitStates]
        /\ \A v \in Waiters : wait'[v] = IF v = w THEN r ELSE wait[v]
    BY <1>0, <1>2
  <2>2. \A v \in Waiters : wait'[v].avail <= avail[wait'[v].list]
    BY <1>0, <1>2, <2>1
  <2>. QED  BY <1>0, <1>2, <2>1, <2>2, WaiterMove DEF listVars
<1>3. ASSUME NEW l \in Lists, NEW w \in Waiters, WaitForReady(w, l) PROVE IInv'
  <2> DEFINE r == [at |-> "load", list |-> l, avail |-> 0]
  <2>1. /\ wait' = [wait EXCEPT ![w] = r] /\ made' = made \cup ({l} \cap Keys)
        /\ UNCHANGED <<listVars, pc, key, done, cl>>
    BY <1>3 DEF WaitForReady
  <2>2. avail[l] \in Nat
    BY <1>0
  <2>3. r \in WaitStates /\ r.avail <= avail[r.list]
    BY <2>2 DEF WaitStates
  <2>4. made \subseteq made' /\ made' \subseteq Keys
    BY <1>0, <2>1
  <2> HIDE DEF r
  <2>. QED  BY <2>1, <2>3, <2>4, <1>2
<1>4. ASSUME NEW w \in Waiters, LoadAvail(w) PROVE IInv'
  <2> DEFINE r == [at |-> "wait", list |-> wait[w].list, avail |-> avail[wait[w].list]]
  <2>1. wait' = [wait EXCEPT ![w] = r] /\ UNCHANGED <<listVars, made, pc, key, done, cl>>
    BY <1>4 DEF LoadAvail
  <2>2. wait[w].list \in Lists /\ avail[wait[w].list] \in Nat
    BY <1>0 DEF WaitStates
  <2>3. r \in WaitStates /\ r.avail <= avail[r.list]
    BY <2>2 DEF WaitStates
  <2> HIDE DEF r
  <2>. QED  BY <1>0, <2>1, <2>3, <1>2
<1>5. ASSUME NEW w \in Waiters, Wake(w) \/ GiveUp(w) PROVE IInv'
  <2>1. /\ \/ wait' = [wait EXCEPT ![w] = NotWaiting]
           \/ wait' = [wait EXCEPT ![w] = [NotWaiting EXCEPT !.at = "ready"]]
        /\ UNCHANGED <<listVars, made, pc, key, done, cl>>
    BY <1>5 DEF Wake, GiveUp
  <2>2. NotWaiting \in WaitStates /\ [NotWaiting EXCEPT !.at = "ready"] \in WaitStates
    BY DEF NotWaiting, Lists, WaitStates
  <2>3. /\ NotWaiting.avail = 0 /\ NotWaiting.list \in Lists
        /\ [NotWaiting EXCEPT !.at = "ready"].avail = 0 /\ [NotWaiting EXCEPT !.at = "ready"].list \in Lists
    BY DEF NotWaiting, Lists, WaitStates
  <2>4. /\ NotWaiting.avail <= avail[NotWaiting.list]
        /\ [NotWaiting EXCEPT !.at = "ready"].avail <= avail[[NotWaiting EXCEPT !.at = "ready"].list]
    BY <1>0, <2>3
  <2>5. made' = made /\ UNCHANGED <<listVars, pc, key, done, cl>>
    BY <2>1
  <2>. QED  BY <1>0, <2>1, <2>2, <2>3, <2>4, <2>5, <1>2
<1>. QED  BY <1>1, <1>3, <1>4, <1>5

\* A step of anything.
LEMMA StepIInv == IInv /\ [Next]_vars => IInv'
<1> SUFFICES ASSUME IInv, [Next]_vars PROVE IInv'
  OBVIOUS
<1>1. CASE UNCHANGED vars
  BY <1>1 DEF vars, IInv, TypeOK, Distinct, ListedAll, ListedKey, AvailInv, MadeInv, StaysInv, Untouched, On
<1>2. ASSUME NEW t \in Tunnels, HandlerStep(t) PROVE IInv'
  BY <1>2, HandlerKeeps
<1>3. ASSUME NEW t \in Tunnels, NEW w \in Callers, CallClose(t, w) \/ CloseStep(t, w) PROVE IInv'
  BY <1>3, CloseKeeps
<1>. QED  BY <1>1, <1>2, <1>3, StreamKeeps, CallerKeeps DEF Next, Callers

\* The lists are as the goroutines of openReverseTunnel have left them.
THEOREM Inductive == Spec => []IInv
BY InitIInv, StepIInv, PTL DEF Spec
-----------------------------------------------------------------------------
\* Variables keep their types: in particular pick never reads beyond the end
\* of a list, wherever removals have left its index.
THEOREM TypeCorrect == Spec => []TypeOK
<1>1. IInv => TypeOK
  BY DEF IInv
<1>. QED  BY Inductive, <1>1, PTL

\* For any tunnels, keys and waiters: add never closes a channel twice, and
\* whoever sleeps in waitForReady holds the channel the next add will close.
THEOREM AvailIsRight == Spec => []AvailAgrees
<1>1. IInv => AvailAgrees
  <2> SUFFICES ASSUME IInv PROVE AvailAgrees
    OBVIOUS
  <2>1. ~panicked /\ \A l \in Lists : availClosed[l] <=> chans[l] # <<>>
    BY DEF IInv, AvailInv
  <2>2. ASSUME NEW w \in Waiters, ~Signalled(w)
        PROVE  wait[w].avail = avail[wait[w].list] /\ chans[wait[w].list] = <<>>
    <3>1. wait[w].list \in Lists /\ wait[w].avail \in Nat /\ avail[wait[w].list] \in Nat
      BY DEF IInv, TypeOK
    <3>2. wait[w].avail <= avail[wait[w].list]
      BY DEF IInv, AvailInv
    <3>3. ~(wait[w].avail < avail[wait[w].list]) /\ ~availClosed[wait[w].list]
      BY <2>2 DEF Signalled
    <3>4. wait[w].avail = avail[wait[w].list]
      BY <3>1, <3>2, <3>3
    <3>. QED  BY <2>1, <3>1, <3>3, <3>4
  <2>. QED  BY <2>1, <2>2 DEF AvailAgrees
<1>. QED  BY Inductive, <1>1, PTL

\* For any number of concurrent closers: when openReverseTunnel has returned
\* the tunnel is on no list.
THEOREM ReturnedUnlisted == Spec => []Unlisted
<1>1. IInv => Unlisted
  BY DEF IInv, ListedAll, ListedKey, Unlisted, Lists
<1>. QED  BY Inductive, <1>1, PTL

\* A tunnel that nobody has closed can be reached through AsChannel and
\* KeyAsChannel whatever other tunnels of its key do, and through no other key.
THEOREM OpenReachable == Spec => []Reachable
<1>1. IInv => Reachable
  <2> SUFFICES ASSUME IInv, NEW t \in Tunnels
               PROVE  /\ pc[t] = "serve" /\ (\A w \in Callers : cl[t][w] = "no") =>
                           \A l \in {All, key[t]} : ready(l) /\ On(l, t)
                      /\ \A l \in Keys : On(l, t) => key[t] = l
    BY DEF Reachable
  <2>1. \A l \in Keys : On(l, t) => key[t] = l
    BY DEF IInv, ListedKey
  <2>2. ASSUME pc[t] = "serve", \A w \in Callers : cl[t][w] = "no", NEW l \in {All, key[t]}
        PROVE  ready(l) /\ On(l, t)
    <3>1. On(l, t)
      BY <2>2 DEF IInv, StaysInv, Untouched
    <3>2. l = All \/ l \in made
      BY <2>2 DEF IInv, MadeInv
    <3>3. chans[l] # <<>>
      BY <3>1 DEF On
    <3>. QED  BY <3>1, <3>2, <3>3 DEF ready
  <2>. QED  BY <2>1, <2>2
<1>. QED  BY Inductive, <1>1, PTL
-----------------------------------------------------------------------------
(***************************************************************************)
(* Turns.                                                                  *)
(***************************************************************************)
\* Where on its list the tunnel is that was picked k picks before the last.
TurnAt(l, k) == IF k <= idx[l] THEN idx[l] - k + 1 ELSE idx[l] - k + Len(chans[l]) + 1

\* The picks since the list last changed, as far back as the list is long, are
\* what lies before the index, going round.
Turn(l) ==
  picks[l] # <<>> =>
    /\ idx[l] < Len(chans[l])
    /\ \A j \in 1 .. Len(picks[l]) :
         Len(picks[l]) - j < Len(chans[l]) => picks[l][j] = chans[l][TurnAt(l, Len(picks[l]) - j)]

Alternate(l) ==
  \A i, j \in 1 .. Len(picks[l]) : i < j /\ j < i + Len(chans[l]) => picks[l][i] # picks[l][j]

TurnInv == \A l \in Lists : Turn(l) /\ Alternate(l)

\* add and remove leave no picks behind on the list that they change, and leave
\* the other lists alone.
LEMMA ListChange ==
  ASSUME TypeOK, NEW l \in Lists, NEW m \in Lists, NEW t \in Tunnels, add(l, t) \/ remove(l, t)
  PROVE  picks'[m] = <<>> \/ (picks'[m] = picks[m] /\ chans'[m] = chans[m] /\ idx'[m] = idx[m])
<1>1. CASE add(l, t)
  BY <1>1 DEF add, TypeOK
<1>2. CASE remove(l, t)
  BY <1>2 DEF remove, listVars, TypeOK
<1>. QED  BY <1>1, <1>2

\* So does every step but Invoke.
LEMMA OtherSteps ==
  ASSUME IInv, [Next]_vars, NEW m \in Lists, ~ Invoke(m)
  PROVE  picks'[m] = <<>> \/ (picks'[m] = picks[m] /\ chans'[m] = chans[m] /\ idx'[m] = idx[m])
<1> DEFINE Goal == picks'[m] = <<>> \/ (picks'[m] = picks[m] /\ chans'[m] = chans[m] /\ idx'[m] = idx[m])
<1>0. TypeOK /\ All \in Lists /\ \A t \in Tunnels : key[t] \in Lists
  BY DEF IInv, TypeOK, Lists
<1>1. CASE UNCHANGED listVars
  BY <1>1 DEF listVars
<1>2. ASSUME NEW t \in Tunnels, HandlerStep(t) PROVE Goal
  <2>1. CASE AddToAll(t) \/ AddToKey(t) \/ RemoveFromKey(t) \/ RemoveFromAll(t)
    <3>1. add(All, t) \/ add(key[t], t) \/ remove(key[t], t) \/ remove(All, t)
      BY <2>1 DEF AddToAll, AddToKey, RemoveFromKey, RemoveFromAll
    <3>. QED  BY <1>0, <3>1, ListChange
  <2>2. CASE Open(t) \/ ListForKey(t) \/ Connect(t) \/ Disconnect(t) \/ HandlerClose(t) \/ HandlerReturn(t)
    BY <1>1, <2>2 DEF Open, ListForKey, Connect, Disconnect, HandlerClose, HandlerReturn
  <2>. QED  BY <1>2, <2>1, <2>2 DEF HandlerStep
<1>3. ASSUME NEW t \in Tunnels, NEW w \in Callers, CallClose(t, w) \/ CloseStep(t, w) PROVE Goal
  <2>1. CASE UnregisterAll(t, w) \/ UnregisterKey(t, w)
    <3>1. remove(key[t], t) \/ remove(All, t)
      BY <2>1 DEF UnregisterAll, UnregisterKey
    <3>. QED  BY <1>0, <3>1, ListChange
  <2>2. CASE CallClose(t, w) \/ UnregisterLookup(t, w) \/ CloseSection(t, w)
    BY <1>1, <2>2 DEF CallClose, UnregisterLookup, CloseSection
  <2>. QED  BY <1>3, <2>1, <2>2 DEF CloseStep
<1>4. ASSUME NEW l \in Lists, Invoke(l) PROVE Goal
  BY <1>0, <1>4 DEF Invoke, pick, TypeOK
<1>5. ASSUME NEW w \in Waiters, LoadAvail(w) \/ Wake(w) \/ GiveUp(w) \/ \E l \in Lists : WaitForReady(w, l)
      PROVE  Goal
  BY <1>1, <1>5 DEF LoadAvail, Wake, GiveUp, WaitForReady
<1>6. CASE UNCHANGED vars
  BY <1>1, <1>6 DEF vars, listVars
<1>7. ASSUME NEW t \in Tunnels, StreamDone(t) PROVE Goal
  BY <1>1, <1>7 DEF StreamDone
<1>. QED  BY <1>2, <1>3, <1>4, <1>5, <1>6, <1>7 DEF Next, Callers

\* A pick goes on by one, so the picks before it are one further back.
LEMMA InvokeTurn ==
  ASSUME IInv, NEW l \in Lists, Invoke(l), Turn(l), Alternate(l)
  PROVE  Turn(l)' /\ Alternate(l)'
<1> DEFINE c == chans[l]
           p == picks[l]
           q == picks'[l]
           n == Len(c)
           k == Len(p)
           x == idx[l]
           y == idx'[l]
<1>1. /\ c \in Seq(Tunnels) /\ p \in Seq(Tunnels) /\ x \in Nat /\ n \in Nat /\ k \in Nat /\ n >= 1
      /\ p # <<>> <=> k # 0
  BY EmptyLen DEF IInv, TypeOK, Invoke, ready
<1>2. chans'[l] = c /\ y = NextIdx(l) /\ q = Append(p, c[y + 1])
  BY DEF IInv, TypeOK, Invoke, pick
<1>3. y \in Nat /\ y < n /\ (y = 0 \/ y = x + 1) /\ (y = 0 => x + 1 >= n)
  BY <1>1, <1>2 DEF NextIdx
<1>4. c[y + 1] \in Tunnels
  BY <1>1, <1>3
<1>5. Len(q) = k + 1 /\ q[k + 1] = c[y + 1] /\ \A j \in 1 .. k : q[j] = p[j]
  BY <1>1, <1>2, <1>4
<1>6. \A i, j \in 1 .. n : c[i] = c[j] => i = j
  BY DEF IInv, Distinct
<1>7. k # 0 => x < n /\ \A j \in 1 .. k : k - j < n => p[j] = c[TurnAt(l, k - j)]
  BY <1>1 DEF Turn
<1>8. \A i, j \in 1 .. k : i < j /\ j < i + n => p[i] # p[j]
  BY DEF Alternate
<1>. HIDE DEF c, p, q, n, k, x, y
<1>9. \A d \in 1 .. k : d < n => p[k + 1 - d] = c[IF d <= y THEN y - d + 1 ELSE y - d + n + 1]
  <2> SUFFICES ASSUME NEW d \in 1 .. k, d < n
               PROVE  p[k + 1 - d] = c[IF d <= y THEN y - d + 1 ELSE y - d + n + 1]
    OBVIOUS
  <2>1. x < n /\ p[k + 1 - d] = c[TurnAt(l, d - 1)]
    <3>1. k + 1 - d \in 1 .. k /\ k - (k + 1 - d) = d - 1 /\ d - 1 < n /\ k # 0
      BY <1>1
    <3>. QED  BY <1>7, <3>1
  <2>2. TurnAt(l, d - 1) = IF d - 1 <= x THEN x - (d - 1) + 1 ELSE x - (d - 1) + n + 1
    BY DEF TurnAt, n, c, x
  <2>3. TurnAt(l, d - 1) = IF d <= y THEN y - d + 1 ELSE y - d + n + 1
    BY <1>1, <1>3, <2>1, <2>2
  <2>. QED  BY <2>1, <2>3
<1>10. Turn(l)'
  <2>1. SUFFICES ASSUME NEW j \in 1 .. (k + 1), (k + 1) - j < n
                 PROVE  q[j] = c[IF (k + 1) - j <= y THEN y - ((k + 1) - j) + 1 ELSE y - ((k + 1) - j) + n + 1]
    BY <1>2, <1>3, <1>5 DEF Turn, TurnAt, n, q, y
  <2>2. CASE j = k + 1
    <3>1. (k + 1) - j = 0 /\ 0 <= y /\ y - 0 + 1 = y + 1
      BY <1>1, <1>3, <2>2
    <3>. QED  BY <1>5, <2>2, <3>1
  <2>3. CASE j # k + 1
    <3>1. (k + 1) - j \in 1 .. k /\ j \in 1 .. k /\ k + 1 - ((k + 1) - j) = j
      BY <1>1, <2>1, <2>3
    <3> DEFINE d == (k + 1) - j
    <3>2. p[k + 1 - d] = c[IF d <= y THEN y - d + 1 ELSE y - d + n + 1]
      BY <1>9, <2>1, <3>1
    <3>. QED  BY <1>5, <3>1, <3>2
  <2>. QED  BY <2>2, <2>3
<1>11. Alternate(l)'
  <2>1. SUFFICES ASSUME NEW i \in 1 .. (k + 1), NEW j \in 1 .. (k + 1), i < j, j < i + n
                 PROVE  q[i] # q[j]
    BY <1>2, <1>5 DEF Alternate, n, q
  <2>2. CASE j = k + 1
    <3> DEFINE d == (k + 1) - i
               z == IF d <= y THEN y - d + 1 ELSE y - d + n + 1
    <3>1. d \in 1 .. k /\ d < n /\ i \in 1 .. k /\ k + 1 - d = i
      BY <1>1, <2>1, <2>2
    <3>2. p[k + 1 - d] = c[z]
      BY <1>9, <3>1
    <3>3. z \in 1 .. n /\ y + 1 \in 1 .. n /\ z # y + 1
      <4>. HIDE DEF d
      <4>. QED  BY <1>1, <1>3, <3>1
    <3>. QED  BY <1>5, <1>6, <2>2, <3>1, <3>2, <3>3
  <2>3. CASE j # k + 1
    <3>1. i \in 1 .. k /\ j \in 1 .. k
      BY <1>1, <2>1, <2>3
    <3>. QED  BY <1>5, <1>8, <2>1, <3>1
  <2>. QED  BY <2>2, <2>3
<1>. QED  BY <1>10, <1>11

\* Turns are kept by every step.
LEMMA StepTurn == IInv /\ TurnInv /\ [Next]_vars => TurnInv'
<1> SUFFICES ASSUME IInv, TurnInv, [Next]_vars, NEW l \in Lists
             PROVE  Turn(l)' /\ Alternate(l)'
  BY DEF TurnInv
<1>1. Turn(l) /\ Alternate(l)
  BY DEF TurnInv
<1>2. CASE Invoke(l)
  BY <1>1, <1>2, InvokeTurn
<1>3. CASE picks'[l] = <<>>
  BY <1>3 DEF Turn, Alternate
<1>4. CASE picks'[l] = picks[l] /\ chans'[l] = chans[l] /\ idx'[l] = idx[l]
  BY <1>1, <1>4 DEF Turn, Alternate, TurnAt
<1>. QED  BY <1>2, <1>3, <1>4, OtherSteps

\* RPCs take turns on a list of any length: as long as it does not change, no
\* tunnel of n is picked twice in n picks, wherever removals left the index.
THEOREM TakesTurns == Spec => []RoundRobin
<1>1. Init => TurnInv
  BY DEF Init, TurnInv, Turn, Alternate
<1>2. TurnInv => RoundRobin
  BY DEF TurnInv, Alternate, RoundRobin
<1>. QED  BY Inductive, StepTurn, <1>1, <1>2, PTL DEF Spec
=============================================================================
