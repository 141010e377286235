-------------------------- MODULE DiscoveryProofs --------------------------
(***************************************************************************)
(* Label discovery is safe for any number of nodes, labels and sizes, any  *)
(* number of broadcasts under way and any number of faults, restarts       *)
(* included: the tables of handles and routes agree, subscribers can be    *)
(* reached, and Discovery implements Subscriptions.                        *)
(***************************************************************************)
EXTENDS Discovery, FiniteSetTheorems, TLAPS

-----------------------------------------------------------------------------
(* The first MAX_LABELS labels of a route table. *)

\* A finite set has subsets of every smaller size.
LEMMA SmallerSubset ==
    ASSUME NEW S, IsFiniteSet(S), NEW k \in Nat, k <= Cardinality(S)
    PROVE  \E T \in SUBSET S : Cardinality(T) = k
  <1>1. PICK f : f \in Bijection(1 .. Cardinality(S), S) /\ Cardinality(S) \in Nat
    BY FS_CardinalityType DEF ExistsBijection
  <1> DEFINE D == 1 .. k
             T == {f[i] : i \in D}
             g == [i \in D |-> f[i]]
  <1>2. D \subseteq 1 .. Cardinality(S)
    BY <1>1
  <1>3. T \in SUBSET S
    BY <1>1, <1>2 DEF Bijection, Injection, Surjection
  <1>4. g \in Bijection(D, T)
    <2>1. g \in [D -> T]
      OBVIOUS
    <2>2. \A i, j \in D : g[i] = g[j] => i = j
      BY <1>1, <1>2 DEF Bijection, Injection, IsInjective
    <2>3. \A t \in T : \E i \in D : g[i] = t
      OBVIOUS
    <2> HIDE DEF D, T, g
    <2> QED
      BY <2>1, <2>2, <2>3 DEF Bijection, Injection, Surjection, IsInjective
  <1>5. IsFiniteSet(D) /\ Cardinality(D) = k
    <2>1. 1 \in Int /\ k \in Int
      OBVIOUS
    <2>2. IsFiniteSet(D) /\ Cardinality(D) = IF 1 > k THEN 0 ELSE k - 1 + 1
      BY <2>1, FS_Interval, Zenon
    <2> QED
      BY <2>2
  <1> HIDE DEF D, T, g
  <1>6. Cardinality(T) = Cardinality(D)
    BY <1>4, <1>5, FS_Bijection DEF ExistsBijection
  <1> QED
    BY <1>3, <1>5, <1>6

\* get_send_labels returns labels that have a route.
LEMMA AnnouncedRouted ==
    ASSUME NEW size \in [Labels -> Sizes \union {NoSize}]
    PROVE  Announced(size) \in SUBSET Routed(size)
  <1>1. IsFiniteSet(Routed(size)) /\ Cardinality(Routed(size)) \in Nat
    BY NodesAssumption, FS_Subset, FS_CardinalityType DEF Routed
  <1>2. CASE Cardinality(Routed(size)) <= MAX_LABELS
    BY <1>2 DEF Announced
  <1>3. CASE ~(Cardinality(Routed(size)) <= MAX_LABELS)
    <2>1. \E S \in SUBSET Routed(size) : Cardinality(S) = MAX_LABELS
      BY <1>1, <1>3, NodesAssumption, SmallerSubset
    <2> QED
      BY <1>3, <2>1 DEF Announced
  <1> QED
    BY <1>2, <1>3

-----------------------------------------------------------------------------
(* A table of handles and the table of routes that goes with it. *)

TableOK(hs, last, size, users) ==
    /\ \A h \in hs : h.uid <= last /\ size[h.label] = h.size
    /\ \A h, g \in hs : h.uid = g.uid => h = g
    /\ \A l \in Labels : /\ users[l] = Owners(hs, l)
                         /\ size[l] = NoSize <=> users[l] = {}

\* A handle that was opened joins the route of its label, or creates it.
LEMMA TableOpen ==
    ASSUME NEW hs \in SUBSET Handle, NEW last \in Nat,
           NEW size \in [Labels -> Sizes \union {NoSize}], NEW users \in [Labels -> SUBSET Uids],
           TableOK(hs, last, size, users), NEW l \in Labels, NEW s \in Sizes, Fits(size[l], s)
    PROVE  TableOK(hs \union {[uid |-> last + 1, label |-> l, size |-> s]}, last + 1,
                   [size EXCEPT ![l] = s], [users EXCEPT ![l] = @ \union {last + 1}])
  <1> DEFINE h == [uid |-> last + 1, label |-> l, size |-> s]
             new == hs \union {h}
             nsize == [size EXCEPT ![l] = s]
             nusers == [users EXCEPT ![l] = @ \union {last + 1}]
  <1>1. \A g \in hs : g.uid \in Nat /\ g.uid <= last /\ g.label \in Labels /\ size[g.label] = g.size
    BY DEF TableOK, Handle, Uids
  <1>2. s # NoSize
    BY NodesAssumption DEF NoSize
  <1>3. \A g \in hs : g.label = l => g.size = s
    <2> SUFFICES ASSUME NEW g \in hs, g.label = l PROVE g.size = s
      OBVIOUS
    <2>1. g.uid \in users[l]
      BY DEF TableOK, Owners
    <2>2. size[l] # NoSize
      BY <2>1 DEF TableOK
    <2> QED
      BY <1>1, <2>2 DEF Fits
  <1>4. \A g \in new : g.uid <= last + 1 /\ nsize[g.label] = g.size
    BY <1>1, <1>3
  <1>5. \A f, g \in new : f.uid = g.uid => f = g
    BY <1>1 DEF TableOK
  <1>6. ASSUME NEW k \in Labels
        PROVE  nusers[k] = Owners(new, k) /\ (nsize[k] = NoSize <=> nusers[k] = {})
    <2>1. users[k] = Owners(hs, k) /\ (size[k] = NoSize <=> users[k] = {})
      BY DEF TableOK
    <2>2. Owners(new, k) = IF k = l THEN Owners(hs, k) \union {last + 1} ELSE Owners(hs, k)
      <3>1. h.uid = last + 1 /\ h.label = l
        OBVIOUS
      <3> HIDE DEF h
      <3>2. ASSUME NEW x \in Owners(new, k) PROVE x \in Owners(hs, k) \/ (k = l /\ x = last + 1)
        BY <3>1, <3>2 DEF Owners
      <3>3. Owners(hs, k) \subseteq Owners(new, k) /\ (k = l => last + 1 \in Owners(new, k))
        BY <3>1 DEF Owners
      <3> QED
        BY <3>2, <3>3
    <2> QED
      BY <1>2, <2>1, <2>2
  <1> QED
    BY <1>4, <1>5, <1>6 DEF TableOK

\* Closing a handle leaves the route to the others, or ends it.
LEMMA TableClose ==
    ASSUME NEW hs \in SUBSET Handle, NEW last \in Nat,
           NEW size \in [Labels -> Sizes \union {NoSize}], NEW users \in [Labels -> SUBSET Uids],
           TableOK(hs, last, size, users), NEW h \in hs
    PROVE  LET left == users[h.label] \ {h.uid}
           IN  TableOK(hs \ {h}, last, [size EXCEPT ![h.label] = IF left = {} THEN NoSize ELSE @],
                       [users EXCEPT ![h.label] = left])
  <1> DEFINE left == users[h.label] \ {h.uid}
             old == hs \ {h}
             nsize == [size EXCEPT ![h.label] = IF left = {} THEN NoSize ELSE @]
             nusers == [users EXCEPT ![h.label] = left]
  <1>1. h.label \in Labels /\ \A g \in hs : g.label \in Labels /\ g.uid <= last /\ size[g.label] = g.size
    BY DEF TableOK, Handle
  <1>2. \A g \in old : g.uid # h.uid
    BY DEF TableOK
  <1>3. \A l \in Labels : users[l] = Owners(hs, l) /\ (size[l] = NoSize <=> users[l] = {})
    BY DEF TableOK
  <1>4. Owners(old, h.label) = Owners(hs, h.label) \ {h.uid}
    BY <1>2 DEF Owners
  <1>5. \A l \in Labels : l # h.label => Owners(old, l) = Owners(hs, l)
    BY DEF Owners
  <1>6. \A g \in old : nsize[g.label] = g.size
    <2> SUFFICES ASSUME NEW g \in old PROVE nsize[g.label] = g.size
      OBVIOUS
    <2>1. g.label = h.label => g.uid \in left
      BY <1>1, <1>2, <1>3 DEF Owners
    <2> QED
      BY <1>1, <2>1
  <1>7. ASSUME NEW l \in Labels
        PROVE  nusers[l] = Owners(old, l) /\ (nsize[l] = NoSize <=> nusers[l] = {})
    <2>1. CASE l = h.label
      <3>1. h.uid \in users[l]
        BY <1>3, <2>1 DEF Owners
      <3> QED
        BY <1>1, <1>3, <1>4, <2>1, <3>1
    <2>2. CASE l # h.label
      BY <1>1, <1>3, <1>5, <2>2
    <2> QED
      BY <2>1, <2>2
  <1>8. \A g \in old : g.uid <= last
    BY <1>1
  <1>9. \A f, g \in old : f.uid = g.uid => f = g
    BY DEF TableOK
  <1> QED
    BY <1>6, <1>7, <1>8, <1>9 DEF TableOK

\* A number that was given away leaves the table as it is, and a handle that
\* was refused is not in it.
LEMMA TableRefused ==
    ASSUME NEW hs \in SUBSET Handle, NEW last \in Nat, NEW size, NEW users,
           TableOK(hs, last, size, users), NEW l, NEW s
    PROVE  /\ TableOK(hs, last + 1, size, users)
           /\ AfterRefusal(hs, [uid |-> last + 1, label |-> l, size |-> s]) = hs
  <1>1. \A h \in hs : h.uid \in Nat /\ h.uid <= last
    BY DEF TableOK, Handle, Uids
  <1> QED
    BY <1>1 DEF TableOK, AfterRefusal

-----------------------------------------------------------------------------
(* The inductive invariant. *)

TablesInv ==
    \A n \in Nodes : /\ TableOK(sendHandles[n], uid[n], sendSize[n], publishers[n])
                     /\ TableOK(recvHandles[n], uid[n], recvSize[n], subscribers[n])

\* The label that is about to change is one.
PlaceInv == \A n \in Nodes : bpc[n] \in {"adding", "removing"} => current[n] \in Labels

\* What node n has to go by.
Heard(n) == net[n] \union {msg[n]}

\* Nobody hears of a label that was not asked for.
AskedInv ==
    /\ \A n \in Nodes, l \in Labels : recvSize[n][l] # NoSize => <<n, l, recvSize[n][l]>> \in asked
    /\ \A n \in Nodes : \A b \in Heard(n) : \A l \in Labels :
          b.labels[l] # NoSize => <<b.id, l, b.labels[l]>> \in asked

IInv ==
    /\ TypeOK /\ TablesInv /\ PlaceInv /\ SubscribersReachable /\ AskedInv

-----------------------------------------------------------------------------
(* Types. *)

SizeTable == [Labels -> Sizes \union {NoSize}]
Places == {"recv", "add", "adding", "remove", "removing"}

LEMMA BlankFact ==
    /\ Blank \notin Broadcasts /\ Blank.id \notin Nodes
    /\ \A l \in Labels : Blank.labels[l] = NoSize
  <1>1. Blank.id = 0 /\ \A l \in Labels : Blank.labels[l] = NoSize
    BY DEF Blank
  <1>2. Blank.id \notin Nodes
    BY <1>1, NodesAssumption
  <1> QED
    BY <1>1, <1>2 DEF Broadcasts

LEMMA HeardFact ==
    ASSUME TypeOK, NEW n \in Nodes, NEW b \in Heard(n)
    PROVE  /\ b \in Broadcasts \/ b = Blank
           /\ b # Blank => b.id \in Nodes
           /\ b.labels \in SizeTable
  <1>1. b \in Broadcasts \/ b = Blank
    BY DEF TypeOK, Heard
  <1>2. CASE b \in Broadcasts
    BY <1>2 DEF Broadcasts, SizeTable
  <1>3. CASE b = Blank
    BY <1>3 DEF Blank, SizeTable
  <1> QED
    BY <1>1, <1>2, <1>3

LEMMA SnapshotFact ==
    ASSUME TypeOK, NEW n \in Nodes
    PROVE  /\ Snapshot(n) \in Broadcasts /\ Snapshot(n).id = n
           /\ \A l \in Labels : Snapshot(n).labels[l] \in {recvSize[n][l], NoSize}
  <1>1. recvSize[n] \in SizeTable
    BY DEF TypeOK, SizeTable
  <1> DEFINE labels == [l \in Labels |-> IF l \in Announced(recvSize[n]) THEN recvSize[n][l] ELSE NoSize]
  <1>2. labels \in SizeTable /\ \A l \in Labels : labels[l] \in {recvSize[n][l], NoSize}
    BY <1>1 DEF SizeTable
  <1> HIDE DEF labels
  <1>3. Snapshot(n) = [id |-> n, labels |-> labels]
    BY DEF Snapshot, labels
  <1> QED
    BY <1>1, <1>2, <1>3 DEF Broadcasts, SizeTable

-----------------------------------------------------------------------------
(* Initial states. *)

LEMMA InitInv == Init => IInv
  <1> SUFFICES ASSUME Init PROVE IInv
    OBVIOUS
  <1>1. TypeOK
    <2>1. \A x, S : x \in S => ForEachLabel(x) \in [Nodes -> [Labels -> S]]
      BY DEF ForEachLabel
    <2>2. /\ sendSize \in [Nodes -> [Labels -> Sizes \union {NoSize}]]
          /\ recvSize \in [Nodes -> [Labels -> Sizes \union {NoSize}]]
      BY <2>1, Zenon DEF Init
    <2>3. /\ publishers \in [Nodes -> [Labels -> SUBSET Uids]]
          /\ subscribers \in [Nodes -> [Labels -> SUBSET Uids]]
          /\ local \in [Nodes -> [Labels -> SUBSET Nodes]]
          /\ remote \in [Nodes -> [Labels -> SUBSET Nodes]]
      <3>1. {} \in SUBSET Uids /\ {} \in SUBSET Nodes
        OBVIOUS
      <3> QED
        BY <2>1, <3>1, Zenon DEF Init
    <2>4. uid \in [Nodes -> 0 .. MaxOpens] /\ faults \in 0 .. MaxFaults
      BY NodesAssumption DEF Init
    <2>5. /\ sendHandles \in [Nodes -> SUBSET Handle] /\ recvHandles \in [Nodes -> SUBSET Handle]
          /\ transport \in [Nodes -> SUBSET Nodes] /\ net \in [Nodes -> SUBSET Broadcasts]
          /\ todo \in [Nodes -> SUBSET Labels] /\ asked \subseteq Nodes \X Labels \X Sizes
      BY DEF Init
    <2>6. /\ msg \in [Nodes -> Broadcasts \union {Blank}]
          /\ bpc \in [Nodes -> {"recv", "add", "adding", "remove", "removing"}]
          /\ current \in [Nodes -> Labels \union {INVALID_LABEL}]
      BY DEF Init
    <2> QED
      BY <2>2, <2>3, <2>4, <2>5, <2>6 DEF TypeOK
  <1>2. TablesInv
    BY DEF Init, TablesInv, TableOK, Owners, ForEachLabel
  <1>3. PlaceInv
    BY DEF Init, PlaceInv
  <1>4. SubscribersReachable
    BY DEF Init, SubscribersReachable, ForEachLabel
  <1>5. AskedInv
    <2>1. \A n \in Nodes : Heard(n) = {Blank}
      BY DEF Init, Heard
    <2> QED
      BY <2>1, BlankFact DEF AskedInv, Init, ForEachLabel
  <1> QED
    BY <1>1, <1>2, <1>3, <1>4, <1>5 DEF IInv

-----------------------------------------------------------------------------
(* What a step leaves alone. *)

LEMMA TablesFrame ==
    ASSUME TablesInv, UNCHANGED <<uid, sendHandles, recvHandles, sendSize, recvSize, publishers, subscribers>>
    PROVE  TablesInv'
  BY DEF TablesInv

LEMMA PlaceFrame ==
    ASSUME PlaceInv, UNCHANGED <<bpc, current>> PROVE PlaceInv'
  BY DEF PlaceInv

LEMMA ReachFrame ==
    ASSUME SubscribersReachable, UNCHANGED <<sendSize, local, remote, transport>>
    PROVE  SubscribersReachable'
  BY DEF SubscribersReachable

\* Nothing is heard but what was heard before, and what nodes send now.
LEMMA NewsFrame ==
    ASSUME TypeOK, AskedInv, UNCHANGED <<recvSize, asked>>,
           \A n \in Nodes : Heard(n)' \subseteq Heard(n) \union {Snapshot(k) : k \in Nodes}
    PROVE  AskedInv'
  <1> SUFFICES ASSUME NEW n \in Nodes, NEW b \in Heard(n)', NEW l \in Labels, b.labels[l] # NoSize
               PROVE  <<b.id, l, b.labels[l]>> \in asked
    BY DEF AskedInv
  <1>1. CASE b \in Heard(n)
    BY <1>1 DEF AskedInv
  <1>2. CASE \E k \in Nodes : b = Snapshot(k)
    <2>1. PICK k \in Nodes : b = Snapshot(k)
      BY <1>2
    <2>2. b.id = k /\ b.labels[l] = recvSize[k][l]
      BY <2>1, SnapshotFact
    <2> QED
      BY <2>2 DEF AskedInv
  <1> QED
    BY <1>1, <1>2

LEMMA AskedFrame ==
    ASSUME AskedInv, UNCHANGED <<net, msg, recvSize, asked>> PROVE AskedInv'
  BY DEF AskedInv, Heard

-----------------------------------------------------------------------------
(* The application. *)

LEMMA UidFact ==
    ASSUME TypeOK, NEW n \in Nodes, uid[n] < MaxOpens, NEW l \in Labels, NEW s \in Sizes
    PROVE  /\ uid[n] \in Nat /\ uid[n] + 1 \in 0 .. MaxOpens /\ uid[n] + 1 \in Uids
           /\ [uid |-> uid[n] + 1, label |-> l, size |-> s] \in Handle
  BY NodesAssumption DEF TypeOK, Uids, Handle

LEMMA TableFact ==
    ASSUME TypeOK, NEW n \in Nodes
    PROVE  /\ sendHandles[n] \in SUBSET Handle /\ recvHandles[n] \in SUBSET Handle /\ uid[n] \in Nat
           /\ sendSize[n] \in [Labels -> Sizes \union {NoSize}]
           /\ recvSize[n] \in [Labels -> Sizes \union {NoSize}]
           /\ publishers[n] \in [Labels -> SUBSET Uids] /\ subscribers[n] \in [Labels -> SUBSET Uids]
  BY NodesAssumption DEF TypeOK

LEMMA OpenSendInv ==
    ASSUME IInv, NEW n \in Nodes, NEW l \in Labels, NEW s \in Sizes, OpenSend(n, l, s)
    PROVE  IInv'
  <1> USE DEF IInv
  <1> DEFINE h == [uid |-> uid[n] + 1, label |-> l, size |-> s]
  <1>1. /\ uid[n] < MaxOpens /\ Fits(sendSize[n][l], s)
        /\ uid' = [uid EXCEPT ![n] = @ + 1]
        /\ sendHandles' = [sendHandles EXCEPT ![n] = @ \union {h}]
        /\ sendSize' = [sendSize EXCEPT ![n] = [sendSize[n] EXCEPT ![l] = s]]
        /\ publishers' = [publishers EXCEPT ![n] = [publishers[n] EXCEPT ![l] = @ \union {uid[n] + 1}]]
        /\ UNCHANGED <<recvHandles, local, remote, recvRoute, transport, net, thread, faults, asked>>
    BY DEF OpenSend
  <1>2. uid[n] \in Nat /\ uid[n] + 1 \in 0 .. MaxOpens /\ uid[n] + 1 \in Uids /\ h \in Handle
    BY <1>1, UidFact
  <1>3. /\ TableOK(sendHandles[n] \union {h}, uid[n] + 1, [sendSize[n] EXCEPT ![l] = s],
                   [publishers[n] EXCEPT ![l] = @ \union {uid[n] + 1}])
        /\ TableOK(recvHandles[n], uid[n] + 1, recvSize[n], subscribers[n])
    BY <1>1, TableFact, TableOpen, TableRefused DEF TablesInv
  <1> HIDE DEF h
  <1>4. TypeOK'
    <2>1. uid' \in [Nodes -> 0 .. MaxOpens] /\ sendHandles' \in [Nodes -> SUBSET Handle]
      BY <1>1, <1>2 DEF TypeOK
    <2>2. sendSize' \in [Nodes -> [Labels -> Sizes \union {NoSize}]]
      BY <1>1 DEF TypeOK
    <2>3. publishers' \in [Nodes -> [Labels -> SUBSET Uids]]
      <3>1. [publishers[n] EXCEPT ![l] = @ \union {uid[n] + 1}] \in [Labels -> SUBSET Uids]
        BY <1>2, TableFact
      <3> QED
        BY <1>1, <3>1 DEF TypeOK
    <2> QED
      BY <1>1, <2>1, <2>2, <2>3 DEF TypeOK, recvRoute, thread
  <1>5. TablesInv'
    BY <1>1, <1>3 DEF TablesInv, TypeOK, recvRoute
  <1>6. PlaceInv' /\ AskedInv'
    BY <1>1, PlaceFrame, AskedFrame DEF recvRoute, thread
  <1>7. SubscribersReachable'
    <2>1. \A k \in Nodes, j \in Labels : sendSize'[k][j] = NoSize => sendSize[k][j] = NoSize
      <3>1. s # NoSize
        BY NodesAssumption DEF NoSize
      <3> QED
        BY <1>1, <3>1 DEF TypeOK
    <2> QED
      BY <1>1, <2>1 DEF SubscribersReachable
  <1> QED
    BY <1>4, <1>5, <1>6, <1>7

LEMMA OpenRecvInv ==
    ASSUME IInv, NEW n \in Nodes, NEW l \in Labels, NEW s \in Sizes, OpenRecv(n, l, s)
    PROVE  IInv'
  <1> USE DEF IInv
  <1> DEFINE h == [uid |-> uid[n] + 1, label |-> l, size |-> s]
  <1>1. /\ uid[n] < MaxOpens /\ Fits(recvSize[n][l], s)
        /\ uid' = [uid EXCEPT ![n] = @ + 1]
        /\ recvHandles' = [recvHandles EXCEPT ![n] = @ \union {h}]
        /\ recvSize' = [recvSize EXCEPT ![n] = [recvSize[n] EXCEPT ![l] = s]]
        /\ subscribers' = [subscribers EXCEPT ![n] = [subscribers[n] EXCEPT ![l] = @ \union {uid[n] + 1}]]
        /\ asked' = asked \union {<<n, l, s>>}
        /\ UNCHANGED <<sendHandles, sendRoute, transport, net, thread, faults>>
    BY DEF OpenRecv
  <1>2. uid[n] \in Nat /\ uid[n] + 1 \in 0 .. MaxOpens /\ uid[n] + 1 \in Uids /\ h \in Handle
    BY <1>1, UidFact
  <1>3. /\ TableOK(recvHandles[n] \union {h}, uid[n] + 1, [recvSize[n] EXCEPT ![l] = s],
                   [subscribers[n] EXCEPT ![l] = @ \union {uid[n] + 1}])
        /\ TableOK(sendHandles[n], uid[n] + 1, sendSize[n], publishers[n])
    BY <1>1, TableFact, TableOpen, TableRefused DEF TablesInv
  <1> HIDE DEF h
  <1>5. TypeOK'
    <2>1. uid' \in [Nodes -> 0 .. MaxOpens] /\ recvHandles' \in [Nodes -> SUBSET Handle]
      BY <1>1, <1>2 DEF TypeOK
    <2>2. recvSize' \in [Nodes -> [Labels -> Sizes \union {NoSize}]]
      BY <1>1 DEF TypeOK
    <2>3. subscribers' \in [Nodes -> [Labels -> SUBSET Uids]]
      <3>1. [subscribers[n] EXCEPT ![l] = @ \union {uid[n] + 1}] \in [Labels -> SUBSET Uids]
        BY <1>2, TableFact
      <3> QED
        BY <1>1, <3>1 DEF TypeOK
    <2>4. asked' \subseteq Nodes \X Labels \X Sizes
      BY <1>1 DEF TypeOK
    <2> QED
      BY <1>1, <2>1, <2>2, <2>3, <2>4 DEF TypeOK, sendRoute, thread
  <1>6. TablesInv'
    BY <1>1, <1>3 DEF TablesInv, TypeOK, sendRoute
  <1>7. PlaceInv' /\ SubscribersReachable'
    BY <1>1, PlaceFrame, ReachFrame DEF sendRoute, thread
  <1>8. \A k \in Nodes : k # n => recvSize'[k] = recvSize[k]
    BY <1>1 DEF TypeOK
  <1>10. AskedInv'
    <2>1. /\ recvSize'[n][l] = s /\ \A k \in Labels : k # l => recvSize'[n][k] = recvSize[n][k]
          /\ \A k \in Nodes : Heard(k)' = Heard(k)
      BY <1>1 DEF TypeOK, Heard, thread
    <2>2. ASSUME NEW m \in Nodes, NEW k \in Labels, recvSize'[m][k] # NoSize
          PROVE  <<m, k, recvSize'[m][k]>> \in asked'
      <3>1. CASE m = n /\ k = l
        BY <1>1, <2>1, <3>1
      <3>2. CASE ~(m = n /\ k = l)
        <4>1. recvSize'[m][k] = recvSize[m][k]
          BY <1>8, <2>1, <3>2
        <4> QED
          BY <1>1, <2>2, <4>1 DEF AskedInv
      <3> QED
        BY <3>1, <3>2
    <2> QED
      BY <1>1, <2>1, <2>2 DEF AskedInv
  <1> QED
    BY <1>5, <1>6, <1>7, <1>10

LEMMA RefusedInv ==
    ASSUME IInv, NEW n \in Nodes, NEW l \in Labels, NEW s \in Sizes,
           OpenSendRefused(n, l, s) \/ OpenRecvRefused(n, l, s)
    PROVE  IInv'
  <1> USE DEF IInv
  <1> DEFINE h == [uid |-> uid[n] + 1, label |-> l, size |-> s]
  <1>1. uid[n] < MaxOpens /\ uid' = [uid EXCEPT ![n] = @ + 1]
    BY DEF OpenSendRefused, OpenRecvRefused
  <1>2. uid[n] \in Nat /\ uid[n] + 1 \in 0 .. MaxOpens
    BY <1>1, UidFact
  <1>3. /\ TableOK(sendHandles[n], uid[n] + 1, sendSize[n], publishers[n])
        /\ TableOK(recvHandles[n], uid[n] + 1, recvSize[n], subscribers[n])
        /\ AfterRefusal(sendHandles[n], h) = sendHandles[n]
        /\ AfterRefusal(recvHandles[n], h) = recvHandles[n]
    BY TableFact, TableRefused DEF TablesInv
  <1>4. /\ sendHandles' = sendHandles /\ recvHandles' = recvHandles
        /\ UNCHANGED <<routes, transport, net, thread, faults, asked>>
    <2>1. CASE OpenSendRefused(n, l, s)
      <3>1. /\ sendHandles' = [sendHandles EXCEPT ![n] = AfterRefusal(@, h)]
            /\ UNCHANGED <<recvHandles, routes, transport, net, thread, faults, asked>>
        BY <2>1 DEF OpenSendRefused
      <3> QED
        BY <1>3, <3>1 DEF TypeOK
    <2>2. CASE OpenRecvRefused(n, l, s)
      <3>1. /\ recvHandles' = [recvHandles EXCEPT ![n] = AfterRefusal(@, h)]
            /\ UNCHANGED <<sendHandles, routes, transport, net, thread, faults, asked>>
        BY <2>2 DEF OpenRecvRefused
      <3> QED
        BY <1>3, <3>1 DEF TypeOK
    <2> QED
      BY <2>1, <2>2
  <1>5. TypeOK'
    BY <1>1, <1>2, <1>4 DEF TypeOK, routes, thread
  <1>6. TablesInv'
    BY <1>1, <1>3, <1>4 DEF TablesInv, TypeOK, routes
  <1>7. PlaceInv' /\ SubscribersReachable' /\ AskedInv'
    BY <1>4, PlaceFrame, ReachFrame, AskedFrame DEF routes, thread
  <1> QED
    BY <1>5, <1>6, <1>7

LEMMA CloseSendInv ==
    ASSUME IInv, NEW n \in Nodes, NEW h \in sendHandles[n], CloseSend(n, h)
    PROVE  IInv'
  <1> USE DEF IInv
  <1> DEFINE left == publishers[n][h.label] \ {h.uid}
  <1>1. /\ sendHandles' = [sendHandles EXCEPT ![n] = @ \ {h}]
        /\ publishers' = [publishers EXCEPT ![n] = [publishers[n] EXCEPT ![h.label] = left]]
        /\ sendSize' = [sendSize EXCEPT ![n] = [sendSize[n] EXCEPT ![h.label] = IF left = {} THEN NoSize ELSE @]]
        /\ local' = [local EXCEPT ![n] = [local[n] EXCEPT ![h.label] = Orphaned(left, @)]]
        /\ remote' = [remote EXCEPT ![n] = [remote[n] EXCEPT ![h.label] = Orphaned(left, @)]]
        /\ UNCHANGED <<uid, recvHandles, recvRoute, transport, net, thread, faults, asked>>
    BY DEF CloseSend, SizeAfterClose
  <1>2. h.label \in Labels /\ h \in Handle
    BY DEF TypeOK, Handle
  <1>3. TableOK(sendHandles[n] \ {h}, uid[n], [sendSize[n] EXCEPT ![h.label] = IF left = {} THEN NoSize ELSE @],
                [publishers[n] EXCEPT ![h.label] = left])
    BY TableFact, TableClose DEF TablesInv
  <1>4. left \in SUBSET Uids
    BY <1>2, TableFact
  <1> HIDE DEF left
  <1>5. /\ Orphaned(left, local[n][h.label]) \subseteq local[n][h.label]
        /\ Orphaned(left, remote[n][h.label]) \subseteq remote[n][h.label]
        /\ left = {} => Orphaned(left, local[n][h.label]) = {} /\ Orphaned(left, remote[n][h.label]) = {}
    BY DEF Orphaned
  <1>6. /\ \A k \in Nodes, j \in Labels : local'[k][j] \subseteq local[k][j] /\ remote'[k][j] \subseteq remote[k][j]
        /\ left = {} => local'[n][h.label] = {} /\ remote'[n][h.label] = {}
    BY <1>1, <1>2, <1>5 DEF TypeOK
  <1>7. TypeOK'
    <2>1. sendHandles' \in [Nodes -> SUBSET Handle]
      BY <1>1 DEF TypeOK
    <2>2. sendSize' \in [Nodes -> [Labels -> Sizes \union {NoSize}]]
      <3>1. [sendSize[n] EXCEPT ![h.label] = IF left = {} THEN NoSize ELSE @] \in [Labels -> Sizes \union {NoSize}]
        BY <1>2, TableFact
      <3> QED
        BY <1>1, <3>1 DEF TypeOK
    <2>3. publishers' \in [Nodes -> [Labels -> SUBSET Uids]]
      <3>1. [publishers[n] EXCEPT ![h.label] = left] \in [Labels -> SUBSET Uids]
        BY <1>4, TableFact
      <3> QED
        BY <1>1, <3>1 DEF TypeOK
    <2>4. /\ local' \in [Nodes -> [Labels -> SUBSET Nodes]]
          /\ remote' \in [Nodes -> [Labels -> SUBSET Nodes]]
      <3>1. [local[n] EXCEPT ![h.label] = Orphaned(left, @)] \in [Labels -> SUBSET Nodes]
        BY <1>2, <1>5 DEF TypeOK
      <3>2. [remote[n] EXCEPT ![h.label] = Orphaned(left, @)] \in [Labels -> SUBSET Nodes]
        BY <1>2, <1>5 DEF TypeOK
      <3> QED
        BY <1>1, <3>1, <3>2 DEF TypeOK
    <2> QED
      BY <1>1, <2>1, <2>2, <2>3, <2>4 DEF TypeOK, recvRoute, thread
  <1>8. TablesInv'
    BY <1>1, <1>3 DEF TablesInv, TypeOK, recvRoute
  <1>9. PlaceInv' /\ AskedInv'
    BY <1>1, PlaceFrame, AskedFrame DEF recvRoute, thread
  <1>10. SubscribersReachable'
    <2>1. ASSUME NEW k \in Nodes, NEW j \in Labels, sendSize'[k][j] = NoSize
          PROVE  local'[k][j] \union remote'[k][j] = {}
      <3>1. CASE sendSize[k][j] = NoSize
        BY <1>6, <3>1 DEF SubscribersReachable
      <3>2. CASE sendSize[k][j] # NoSize
        <4>1. k = n /\ j = h.label /\ left = {}
          BY <1>1, <1>2, <2>1, <3>2 DEF TypeOK
        <4> QED
          BY <1>6, <4>1
      <3> QED
        BY <3>1, <3>2
    <2>2. transport' = transport
      BY <1>1
    <2> QED
      BY <1>6, <2>1, <2>2 DEF SubscribersReachable
  <1> QED
    BY <1>7, <1>8, <1>9, <1>10

LEMMA CloseRecvInv ==
    ASSUME IInv, NEW n \in Nodes, NEW h \in recvHandles[n], CloseRecv(n, h)
    PROVE  IInv'
  <1> USE DEF IInv
  <1> DEFINE left == subscribers[n][h.label] \ {h.uid}
  <1>1. /\ recvHandles' = [recvHandles EXCEPT ![n] = @ \ {h}]
        /\ subscribers' = [subscribers EXCEPT ![n] = [subscribers[n] EXCEPT ![h.label] = left]]
        /\ recvSize' = [recvSize EXCEPT ![n] = [recvSize[n] EXCEPT ![h.label] = IF left = {} THEN NoSize ELSE @]]
        /\ UNCHANGED <<uid, sendHandles, sendRoute, transport, net, thread, faults, asked>>
    BY DEF CloseRecv, SizeAfterClose
  <1>2. h.label \in Labels /\ h \in Handle
    BY DEF TypeOK, Handle
  <1>3. TableOK(recvHandles[n] \ {h}, uid[n], [recvSize[n] EXCEPT ![h.label] = IF left = {} THEN NoSize ELSE @],
                [subscribers[n] EXCEPT ![h.label] = left])
    BY TableFact, TableClose DEF TablesInv
  <1>4. left \in SUBSET Uids
    BY <1>2, TableFact
  <1> HIDE DEF left
  <1>5. \A l \in Labels : recvSize'[n][l] # NoSize => recvSize'[n][l] = recvSize[n][l]
    BY <1>1, <1>2 DEF TypeOK
  <1>6. \A k \in Nodes : k # n => recvSize'[k] = recvSize[k]
    BY <1>1 DEF TypeOK
  <1>7. TypeOK'
    <2>1. recvHandles' \in [Nodes -> SUBSET Handle]
      BY <1>1 DEF TypeOK
    <2>2. recvSize' \in [Nodes -> [Labels -> Sizes \union {NoSize}]]
      <3>1. [recvSize[n] EXCEPT ![h.label] = IF left = {} THEN NoSize ELSE @] \in [Labels -> Sizes \union {NoSize}]
        BY <1>2, TableFact
      <3> QED
        BY <1>1, <3>1 DEF TypeOK
    <2>3. subscribers' \in [Nodes -> [Labels -> SUBSET Uids]]
      <3>1. [subscribers[n] EXCEPT ![h.label] = left] \in [Labels -> SUBSET Uids]
        BY <1>4, TableFact
      <3> QED
        BY <1>1, <3>1 DEF TypeOK
    <2> QED
      BY <1>1, <2>1, <2>2, <2>3 DEF TypeOK, sendRoute, thread
  <1>8. TablesInv'
    BY <1>1, <1>3 DEF TablesInv, TypeOK, sendRoute
  <1>9. PlaceInv' /\ SubscribersReachable'
    BY <1>1, PlaceFrame, ReachFrame DEF sendRoute, thread
  <1>11. AskedInv'
    <2>1. asked' = asked /\ \A k \in Nodes : Heard(k)' = Heard(k)
      BY <1>1 DEF Heard, thread
    <2>2. \A k \in Nodes, l \in Labels : recvSize'[k][l] # NoSize => recvSize'[k][l] = recvSize[k][l]
      BY <1>5, <1>6
    <2> QED
      BY <2>1, <2>2 DEF AskedInv
  <1> QED
    BY <1>7, <1>8, <1>9, <1>11

-----------------------------------------------------------------------------
(* Transports and broadcasts. *)

LEMMA EstablishInv ==
    ASSUME IInv, NEW n \in Nodes, NEW m \in Nodes, Establish(n, m)
    PROVE  IInv'
  <1> USE DEF IInv
  <1>1. /\ transport' = [transport EXCEPT ![n] = @ \union {m}]
        /\ UNCHANGED <<handles, routes, net, thread, faults, asked>>
    BY DEF Establish
  <1>2. TypeOK'
    BY <1>1 DEF TypeOK, handles, routes, thread
  <1>3. SubscribersReachable'
    <2>1. \A k \in Nodes : transport[k] \subseteq transport'[k]
      BY <1>1 DEF TypeOK
    <2> QED
      BY <1>1, <2>1 DEF SubscribersReachable, routes
  <1>4. TablesInv' /\ PlaceInv' /\ AskedInv'
    BY <1>1, TablesFrame, PlaceFrame, AskedFrame DEF handles, routes, thread
  <1> QED
    BY <1>2, <1>3, <1>4

LEMMA SendBroadcastInv ==
    ASSUME IInv, NEW n \in Nodes, SendBroadcast(n)
    PROVE  IInv'
  <1> USE DEF IInv
  <1>1. /\ net' = [r \in Nodes |-> IF r \in Listeners THEN net[r] \union {Snapshot(n)} ELSE net[r]]
        /\ UNCHANGED <<handles, routes, transport, thread, faults, asked>>
    BY DEF SendBroadcast, Multicast
  <1>2. TypeOK'
    <2>1. net' \in [Nodes -> SUBSET Broadcasts]
      BY <1>1, SnapshotFact DEF TypeOK
    <2> QED
      BY <1>1, <2>1 DEF TypeOK, handles, routes, thread
  <1>3. AskedInv'
    <2>1. \A r \in Nodes : Heard(r)' \subseteq Heard(r) \union {Snapshot(k) : k \in Nodes}
      BY <1>1 DEF Heard, thread
    <2> QED
      BY <1>1, <2>1, NewsFrame DEF routes
  <1>4. TablesInv' /\ PlaceInv' /\ SubscribersReachable'
    BY <1>1, TablesFrame, PlaceFrame, ReachFrame DEF handles, routes, thread
  <1> QED
    BY <1>2, <1>3, <1>4

\* recv_broadcast begins with a message that was heard, for the first time or
\* again.
LEMMA TakeInv ==
    ASSUME IInv, NEW n \in Nodes, NEW m \in Heard(n), Take(n, m), faults' \in 0 .. MaxFaults,
           net' \in [Nodes -> SUBSET Broadcasts], \A r \in Nodes : net'[r] \subseteq net[r]
    PROVE  IInv'
  <1> USE DEF IInv
  <1>1. /\ msg' = [msg EXCEPT ![n] = m] /\ todo' = [todo EXCEPT ![n] = Routed(m.labels)]
        /\ bpc' = [bpc EXCEPT ![n] = "add"]
        /\ UNCHANGED <<handles, routes, transport, current, asked>>
    BY DEF Take, Goto
  <1>2. m \in Broadcasts \union {Blank}
    BY HeardFact
  <1>3. TypeOK'
    <2>1. msg' \in [Nodes -> Broadcasts \union {Blank}]
      BY <1>1, <1>2 DEF TypeOK
    <2>2. todo' \in [Nodes -> SUBSET Labels]
      <3>1. Routed(m.labels) \in SUBSET Labels
        BY DEF Routed
      <3> QED
        BY <1>1, <3>1 DEF TypeOK
    <2>3. bpc' \in [Nodes -> {"recv", "add", "adding", "remove", "removing"}]
      BY <1>1 DEF TypeOK
    <2> QED
      BY <1>1, <2>1, <2>2, <2>3 DEF TypeOK, handles, routes
  <1>4. PlaceInv'
    BY <1>1 DEF PlaceInv, TypeOK
  <1>5. AskedInv'
    <2>1. \A r \in Nodes : Heard(r)' \subseteq Heard(r)
      BY <1>1 DEF Heard, TypeOK
    <2> QED
      BY <1>1, <2>1, NewsFrame DEF routes
  <1>6. TablesInv' /\ SubscribersReachable'
    BY <1>1, TablesFrame, ReachFrame DEF handles, routes
  <1> QED
    BY <1>3, <1>4, <1>5, <1>6

LEMMA ReceiveInv ==
    ASSUME IInv, NEW n \in Nodes,
           (\E m \in net[n] : Receive(n, m) \/ ReceiveTwice(n, m)) \/ ReceiveFails(n)
    PROVE  IInv'
  <1> USE DEF IInv
  <1>1. faults \in 0 .. MaxFaults /\ net \in [Nodes -> SUBSET Broadcasts] /\ faults \in Nat /\ MaxFaults \in Nat
    BY NodesAssumption DEF TypeOK
  <1>2. ASSUME NEW m \in net[n], Receive(n, m) PROVE IInv'
    <2>1. net' = [net EXCEPT ![n] = @ \ {m}] /\ Take(n, m) /\ faults' = faults
      BY <1>2 DEF Receive
    <2>2. m \in Heard(n)
      BY DEF Heard
    <2>3. net' \in [Nodes -> SUBSET Broadcasts] /\ \A r \in Nodes : net'[r] \subseteq net[r]
      BY <1>1, <2>1
    <2> QED
      BY <1>1, <2>1, <2>2, <2>3, TakeInv
  <1>3. ASSUME NEW m \in net[n], ReceiveTwice(n, m) PROVE IInv'
    <2>1. net' = net /\ Take(n, m) /\ faults' \in 0 .. MaxFaults
      BY <1>1, <1>3 DEF ReceiveTwice
    <2>2. m \in Heard(n)
      BY DEF Heard
    <2> QED
      BY <1>1, <2>1, <2>2, TakeInv
  <1>4. ASSUME ReceiveFails(n) PROVE IInv'
    <2>1. net' = net /\ Take(n, msg[n]) /\ faults' \in 0 .. MaxFaults
      BY <1>1, <1>4 DEF ReceiveFails
    <2>2. msg[n] \in Heard(n)
      BY DEF Heard
    <2> QED
      BY <1>1, <2>1, <2>2, TakeInv
  <1> QED
    BY <1>2, <1>3, <1>4

-----------------------------------------------------------------------------
(* add_subscriber and remove_subscriber. *)

LEMMA LookAtInv ==
    ASSUME IInv, NEW n \in Nodes, NEW l \in Labels, NEW change, NEW next \in {"adding", "removing"},
           bpc[n] \in {"add", "remove"}, LookAt(n, l, change, next)
    PROVE  IInv'
  <1> USE DEF IInv
  <1> DEFINE pc == IF change THEN next ELSE bpc[n]
  <1>1. /\ todo' = [todo EXCEPT ![n] = @ \ {l}] /\ current' = [current EXCEPT ![n] = l]
        /\ bpc' = [bpc EXCEPT ![n] = pc] /\ pc \in {"add", "remove", "adding", "removing"}
        /\ UNCHANGED <<handles, routes, transport, net, msg, faults, asked>>
    BY DEF LookAt, Goto
  <1> HIDE DEF pc
  <1>2. TypeOK'
    BY <1>1 DEF TypeOK, handles, routes
  <1>3. PlaceInv'
    BY <1>1 DEF PlaceInv, TypeOK
  <1>4. TablesInv' /\ SubscribersReachable' /\ AskedInv'
    BY <1>1, TablesFrame, ReachFrame, AskedFrame DEF handles, routes
  <1> QED
    BY <1>2, <1>3, <1>4

\* A label is looked at again under the lock: what is added can be reached.
LEMMA AddSubscriberInv ==
    ASSUME IInv, NEW n \in Nodes, AddSubscriber(n)
    PROVE  IInv'
  <1> USE DEF IInv
  <1>1. PICK l \in Labels : l = current[n]
    BY DEF AddSubscriber, PlaceInv
  <1>2. PICK m : m = msg[n].id
    OBVIOUS
  <1>3. /\ local' = [local EXCEPT ![n][l] = LocalWith(n, l, m)]
        /\ remote' = [remote EXCEPT ![n][l] = RemoteWith(n, l, m)]
        /\ bpc' = [bpc EXCEPT ![n] = "add"]
        /\ UNCHANGED <<handles, sendSize, publishers, recvRoute, transport, net,
                       msg, todo, current, faults, asked>>
    BY <1>1, <1>2 DEF AddSubscriber, Goto
  <1>4. /\ \A x \in LocalWith(n, l, m) \ local[n][l] :
              x = m /\ IsLocal(n, x) /\ sendSize[n][l] # NoSize /\ x \in transport[n]
        /\ \A x \in RemoteWith(n, l, m) \ remote[n][l] :
              x = m /\ ~IsLocal(n, x) /\ sendSize[n][l] # NoSize /\ x \in transport[n]
    BY DEF LocalWith, RemoteWith, Accepts, HasSendRoute, Reachable
  <1>5. LocalWith(n, l, m) \in SUBSET Nodes /\ RemoteWith(n, l, m) \in SUBSET Nodes
    BY <1>4 DEF TypeOK
  <1>6. TypeOK'
    <2>1. local' \in [Nodes -> [Labels -> SUBSET Nodes]]
      BY <1>3, <1>5 DEF TypeOK
    <2>2. remote' \in [Nodes -> [Labels -> SUBSET Nodes]]
      BY <1>3, <1>5 DEF TypeOK
    <2>3. bpc' \in [Nodes -> {"recv", "add", "adding", "remove", "removing"}]
      BY <1>3 DEF TypeOK
    <2> QED
      BY <1>3, <2>1, <2>2, <2>3 DEF TypeOK, handles, recvRoute
  <1>7. PlaceInv'
    BY <1>3 DEF PlaceInv, TypeOK
  <1>8. SubscribersReachable'
    <2>1. /\ local'[n][l] = LocalWith(n, l, m) /\ remote'[n][l] = RemoteWith(n, l, m)
          /\ \A k \in Nodes, j \in Labels : k # n \/ j # l =>
                local'[k][j] = local[k][j] /\ remote'[k][j] = remote[k][j]
      BY <1>3 DEF TypeOK
    <2>2. transport' = transport /\ sendSize' = sendSize
      BY <1>3
    <2> SUFFICES ASSUME NEW k \in Nodes, NEW j \in Labels
                 PROVE  /\ local'[k][j] \union remote'[k][j] \subseteq transport[k]
                        /\ \A x \in local'[k][j] : IsLocal(k, x)
                        /\ \A x \in remote'[k][j] : ~IsLocal(k, x)
                        /\ sendSize[k][j] = NoSize => local'[k][j] \union remote'[k][j] = {}
      BY <2>2 DEF SubscribersReachable
    <2>3. CASE k = n /\ j = l
      BY <1>4, <2>1, <2>3 DEF SubscribersReachable
    <2>4. CASE k # n \/ j # l
      BY <2>1, <2>4 DEF SubscribersReachable
    <2> QED
      BY <2>3, <2>4
  <1>9. TablesInv' /\ AskedInv'
    BY <1>3, TablesFrame, AskedFrame DEF handles, recvRoute
  <1> QED
    BY <1>6, <1>7, <1>8, <1>9

LEMMA RemoveSubscriberInv ==
    ASSUME IInv, NEW n \in Nodes, RemoveSubscriber(n)
    PROVE  IInv'
  <1> USE DEF IInv
  <1>1. PICK l \in Labels : l = current[n]
    BY DEF RemoveSubscriber, PlaceInv
  <1>2. PICK m : m = msg[n].id
    OBVIOUS
  <1>3. /\ local' = [local EXCEPT ![n][l] = LocalWithout(n, l, m)]
        /\ remote' = [remote EXCEPT ![n][l] = RemoteWithout(n, l, m)]
        /\ bpc' = [bpc EXCEPT ![n] = "remove"]
        /\ UNCHANGED <<handles, sendSize, publishers, recvRoute, transport, net,
                       msg, todo, current, faults, asked>>
    BY <1>1, <1>2 DEF RemoveSubscriber, Goto
  <1>4. LocalWithout(n, l, m) \subseteq local[n][l] /\ RemoteWithout(n, l, m) \subseteq remote[n][l]
    BY DEF LocalWithout, RemoteWithout
  <1>5. TypeOK'
    <2>1. local' \in [Nodes -> [Labels -> SUBSET Nodes]]
      BY <1>3, <1>4 DEF TypeOK
    <2>2. remote' \in [Nodes -> [Labels -> SUBSET Nodes]]
      BY <1>3, <1>4 DEF TypeOK
    <2>3. bpc' \in [Nodes -> {"recv", "add", "adding", "remove", "removing"}]
      BY <1>3 DEF TypeOK
    <2> QED
      BY <1>3, <2>1, <2>2, <2>3 DEF TypeOK, handles, recvRoute
  <1>6. PlaceInv'
    BY <1>3 DEF PlaceInv, TypeOK
  <1>7. SubscribersReachable'
    <2>1. \A k \in Nodes, j \in Labels : local'[k][j] \subseteq local[k][j] /\ remote'[k][j] \subseteq remote[k][j]
      BY <1>3, <1>4 DEF TypeOK
    <2> QED
      BY <1>3, <2>1 DEF SubscribersReachable
  <1>8. TablesInv' /\ AskedInv'
    BY <1>3, TablesFrame, AskedFrame DEF handles, recvRoute
  <1> QED
    BY <1>5, <1>6, <1>7, <1>8

LEMMA LoopDoneInv ==
    ASSUME IInv, NEW n \in Nodes, AddDone(n) \/ RemoveDone(n)
    PROVE  IInv'
  <1> USE DEF IInv
  <1>1. PICK pc \in {"remove", "recv"} : bpc' = [bpc EXCEPT ![n] = pc]
    BY DEF AddDone, RemoveDone, Goto
  <1>2. /\ todo' = todo \/ todo' = [todo EXCEPT ![n] = Announced(sendSize[n])]
        /\ UNCHANGED <<handles, routes, transport, net, msg, current, faults, asked>>
    BY DEF AddDone, RemoveDone
  <1>3. TypeOK'
    <2>1. Announced(sendSize[n]) \in SUBSET Labels
      BY TableFact, AnnouncedRouted DEF Routed
    <2>2. todo' \in [Nodes -> SUBSET Labels]
      BY <1>2, <2>1 DEF TypeOK
    <2>3. bpc' \in [Nodes -> {"recv", "add", "adding", "remove", "removing"}]
      BY <1>1 DEF TypeOK
    <2> QED
      BY <1>2, <2>2, <2>3 DEF TypeOK, handles, routes
  <1>4. PlaceInv'
    BY <1>1, <1>2 DEF PlaceInv, TypeOK
  <1>5. TablesInv' /\ SubscribersReachable' /\ AskedInv'
    BY <1>2, TablesFrame, ReachFrame, AskedFrame DEF handles, routes
  <1> QED
    BY <1>3, <1>4, <1>5

\* A new process has empty tables; what the others have heard of the old one
\* was asked for then.
LEMMA RestartInv ==
    ASSUME IInv, NEW n \in Nodes, Restart(n)
    PROVE  IInv'
  <1> USE DEF IInv
  <1>1. TypeOK'
    <2>1. /\ uid' \in [Nodes -> 0 .. MaxOpens] /\ faults' \in 0 .. MaxFaults
          /\ sendHandles' \in [Nodes -> SUBSET Handle] /\ recvHandles' \in [Nodes -> SUBSET Handle]
          /\ transport' \in [Nodes -> SUBSET Nodes] /\ todo' \in [Nodes -> SUBSET Labels]
      BY NodesAssumption DEF Restart, TypeOK
    <2>2. /\ sendSize' \in [Nodes -> [Labels -> Sizes \union {NoSize}]]
          /\ recvSize' \in [Nodes -> [Labels -> Sizes \union {NoSize}]]
      BY DEF Restart, TypeOK
    <2>3. /\ publishers' \in [Nodes -> [Labels -> SUBSET Uids]]
          /\ subscribers' \in [Nodes -> [Labels -> SUBSET Uids]]
          /\ local' \in [Nodes -> [Labels -> SUBSET Nodes]]
          /\ remote' \in [Nodes -> [Labels -> SUBSET Nodes]]
      BY DEF Restart, TypeOK
    <2>4. /\ msg' \in [Nodes -> Broadcasts \union {Blank}]
          /\ bpc' \in [Nodes -> {"recv", "add", "adding", "remove", "removing"}]
          /\ current' \in [Nodes -> Labels \union {INVALID_LABEL}]
      BY DEF Restart, TypeOK, Goto
    <2> QED
      BY <2>1, <2>2, <2>3, <2>4 DEF TypeOK, Restart
  <1>2. TablesInv'
    <2>1. ASSUME NEW k \in Nodes, k # n
          PROVE  /\ TableOK(sendHandles'[k], uid'[k], sendSize'[k], publishers'[k])
                 /\ TableOK(recvHandles'[k], uid'[k], recvSize'[k], subscribers'[k])
      <3>1. /\ sendHandles'[k] = sendHandles[k] /\ recvHandles'[k] = recvHandles[k] /\ uid'[k] = uid[k]
            /\ sendSize'[k] = sendSize[k] /\ publishers'[k] = publishers[k]
            /\ recvSize'[k] = recvSize[k] /\ subscribers'[k] = subscribers[k]
        BY <2>1 DEF Restart, TypeOK
      <3> QED
        BY <3>1 DEF TablesInv
    <2>2. /\ sendHandles'[n] = {} /\ recvHandles'[n] = {}
          /\ sendSize'[n] = [l \in Labels |-> NoSize] /\ recvSize'[n] = [l \in Labels |-> NoSize]
          /\ publishers'[n] = [l \in Labels |-> {}] /\ subscribers'[n] = [l \in Labels |-> {}]
      BY DEF Restart, TypeOK
    <2>3. \A last : TableOK({}, last, [l \in Labels |-> NoSize], [l \in Labels |-> {}])
      BY DEF TableOK, Owners
    <2> QED
      BY <2>1, <2>2, <2>3 DEF TablesInv
  <1>3. PlaceInv'
    BY DEF PlaceInv, Restart, Goto, TypeOK
  <1>4. SubscribersReachable'
    <2>1. ASSUME NEW k \in Nodes, k # n
          PROVE  /\ local'[k] = local[k] /\ remote'[k] = remote[k]
                 /\ sendSize'[k] = sendSize[k] /\ transport'[k] = transport[k]
      BY <2>1 DEF Restart, TypeOK
    <2>2. \A l \in Labels : local'[n][l] = {} /\ remote'[n][l] = {}
      BY DEF Restart, TypeOK
    <2> QED
      BY <2>1, <2>2 DEF SubscribersReachable
  <1>5. AskedInv'
    <2>1. asked' = asked /\ \A k \in Nodes : Heard(k)' \subseteq Heard(k) \union {Blank}
      BY DEF Restart, Heard, TypeOK
    <2>2. \A k \in Nodes, l \in Labels : recvSize'[k][l] # NoSize => recvSize'[k][l] = recvSize[k][l]
      BY DEF Restart, TypeOK
    <2> QED
      BY <2>1, <2>2, BlankFact DEF AskedInv
  <1> QED
    BY <1>1, <1>2, <1>3, <1>4, <1>5

LEMMA UnchangedInv ==
    ASSUME IInv, UNCHANGED vars
    PROVE  IInv'
  <1> USE DEF IInv, vars, handles, routes, thread
  <1>1. TypeOK'
    BY DEF TypeOK
  <1>2. TablesInv' /\ PlaceInv' /\ SubscribersReachable' /\ AskedInv'
    BY TablesFrame, PlaceFrame, ReachFrame, AskedFrame
  <1> QED
    BY <1>1, <1>2

LEMMA NextInv == IInv /\ [Next]_vars => IInv'
  <1> SUFFICES ASSUME IInv, [Next]_vars PROVE IInv'
    OBVIOUS
  <1>1. ASSUME NEW n \in Nodes, Application(n) PROVE IInv'
    BY <1>1, OpenSendInv, OpenRecvInv, RefusedInv, CloseSendInv, CloseRecvInv DEF Application
  <1>2. ASSUME NEW n \in Nodes, Apply(n) PROVE IInv'
    <2>1. ASSUME NEW l \in Labels, AddCheck(n, l) \/ RemoveCheck(n, l) PROVE IInv'
      BY <2>1, LookAtInv DEF AddCheck, RemoveCheck
    <2> QED
      BY <1>2, <2>1, AddSubscriberInv, RemoveSubscriberInv, LoopDoneInv DEF Apply
  <1>3. ASSUME NEW n \in Nodes, SendBroadcast(n) PROVE IInv'
    BY <1>3, SendBroadcastInv
  <1>4. ASSUME NEW n \in Nodes, (\E m \in net[n] : Receive(n, m) \/ ReceiveTwice(n, m)) \/ ReceiveFails(n)
        PROVE  IInv'
    BY <1>4, ReceiveInv
  <1>5. ASSUME NEW n \in Nodes, NEW m \in Nodes, Establish(n, m) PROVE IInv'
    BY <1>5, EstablishInv
  <1>6. ASSUME NEW n \in Nodes, Restart(n) PROVE IInv'
    BY <1>6, RestartInv
  <1>7. ASSUME UNCHANGED vars PROVE IInv'
    BY <1>7, UnchangedInv
  <1> QED
    BY <1>1, <1>2, <1>3, <1>4, <1>5, <1>6, <1>7 DEF Next

-----------------------------------------------------------------------------
(* Discovery implements Subscriptions. *)

\* Whom each node sends each label to, as the abstract specification sees it.
Served == [n \in Nodes |-> [l \in Labels |-> local[n][l] \union remote[n][l]]]

AbstractStep == Abstract!Next \/ UNCHANGED Abstract!vars

LEMMA ServedStays ==
    ASSUME UNCHANGED <<asked, sendSize, local, remote>>
    PROVE  AbstractStep
  BY DEF AbstractStep, Abstract!vars

\* Only one entry changes.
LEMMA ServedChanges ==
    ASSUME TypeOK, NEW n \in Nodes, NEW l \in Labels,
           \A k \in Nodes, j \in Labels : k # n \/ j # l =>
               local'[k][j] = local[k][j] /\ remote'[k][j] = remote[k][j]
    PROVE  Served' = [Served EXCEPT ![n][l] = local'[n][l] \union remote'[n][l]]
  <1> DEFINE U == local'[n][l] \union remote'[n][l]
             row == [Served[n] EXCEPT ![l] = U]
  <1>1. Served'[n] = row
    BY DEF Served
  <1>2. \A k \in Nodes : k # n => Served'[k] = Served[k]
    BY DEF Served
  <1>3. DOMAIN Served = Nodes /\ Served' = [k \in Nodes |-> Served'[k]]
    BY DEF Served
  <1>4. [Served EXCEPT ![n] = row] = [k \in Nodes |-> IF k = n THEN row ELSE Served[k]]
    BY <1>3
  <1> HIDE DEF row
  <1>5. [Served EXCEPT ![n] = row] = [k \in Nodes |-> Served'[k]]
    BY <1>1, <1>2, <1>4
  <1> QED
    BY <1>3, <1>5 DEF row

LEMMA OpenSendAbstract ==
    ASSUME IInv, NEW n \in Nodes, NEW l \in Labels, NEW s \in Sizes, OpenSend(n, l, s)
    PROVE  AbstractStep
  <1>1. /\ sendSize' = [sendSize EXCEPT ![n][l] = s] /\ Fits(sendSize[n][l], s)
        /\ UNCHANGED <<asked, local, remote>>
    BY DEF OpenSend
  <1>2. CASE sendSize[n][l] = NoSize
    <2>1. Abstract!Offer(n, l, s)
      BY <1>1, <1>2 DEF Abstract!Offer, NoSize
    <2> QED
      BY <2>1 DEF AbstractStep, Abstract!Next
  <1>3. CASE sendSize[n][l] # NoSize
    <2>1. sendSize' = sendSize
      BY <1>1, <1>3 DEF IInv, TypeOK, Fits
    <2> QED
      BY <1>1, <2>1, ServedStays
  <1> QED
    BY <1>2, <1>3

LEMMA OpenRecvAbstract ==
    ASSUME NEW n \in Nodes, NEW l \in Labels, NEW s \in Sizes, OpenRecv(n, l, s)
    PROVE  AbstractStep
  <1>1. asked' = asked \union {<<n, l, s>>} /\ UNCHANGED <<sendSize, local, remote>>
    BY DEF OpenRecv, sendRoute
  <1>2. Abstract!Ask(n, l, s)
    BY <1>1 DEF Abstract!Ask
  <1> QED
    BY <1>2 DEF AbstractStep, Abstract!Next

LEMMA CloseSendAbstract ==
    ASSUME IInv, NEW n \in Nodes, NEW h \in sendHandles[n], CloseSend(n, h)
    PROVE  AbstractStep
  <1> DEFINE left == publishers[n][h.label] \ {h.uid}
  <1>1. PICK l \in Labels : l = h.label
    BY DEF IInv, TypeOK, Handle
  <1>2. /\ sendSize' = [sendSize EXCEPT ![n][l] = IF left = {} THEN NoSize ELSE @]
        /\ local' = [local EXCEPT ![n][l] = Orphaned(left, @)]
        /\ remote' = [remote EXCEPT ![n][l] = Orphaned(left, @)]
        /\ UNCHANGED asked
    BY <1>1 DEF CloseSend, SizeAfterClose
  <1> HIDE DEF left
  <1>3. CASE left = {}
    <2>1. /\ local'[n][l] = {} /\ remote'[n][l] = {}
          /\ \A k \in Nodes, j \in Labels : k # n \/ j # l =>
               local'[k][j] = local[k][j] /\ remote'[k][j] = remote[k][j]
      BY <1>2, <1>3 DEF Orphaned, IInv, TypeOK
    <2>2. Served' = [Served EXCEPT ![n][l] = {}]
      BY <2>1, ServedChanges DEF IInv
    <2>3. Abstract!Withdraw(n, l)
      BY <1>2, <1>3, <2>2 DEF Abstract!Withdraw, Served, NoSize
    <2> QED
      BY <2>3 DEF AbstractStep, Abstract!Next
  <1>4. CASE left # {}
    <2>1. UNCHANGED <<sendSize, local, remote>>
      BY <1>2, <1>4 DEF Orphaned, IInv, TypeOK
    <2> QED
      BY <1>2, <2>1, ServedStays
  <1> QED
    BY <1>3, <1>4

\* A subscriber has asked for the label, in the size of the route.
LEMMA AddSubscriberAbstract ==
    ASSUME IInv, NEW n \in Nodes, AddSubscriber(n)
    PROVE  AbstractStep
  <1> USE DEF IInv
  <1>1. PICK l \in Labels : l = current[n]
    BY DEF AddSubscriber, PlaceInv
  <1>2. PICK m : m = msg[n].id
    OBVIOUS
  <1>3. /\ local' = [local EXCEPT ![n][l] = LocalWith(n, l, m)]
        /\ remote' = [remote EXCEPT ![n][l] = RemoteWith(n, l, m)]
        /\ UNCHANGED <<sendSize, asked>>
    BY <1>1, <1>2 DEF AddSubscriber
  <1>4. CASE Accepts(n, l, m)
    <2>1. sendSize[n][l] # NoSize /\ msg[n].labels[l] = sendSize[n][l] /\ m \in transport[n]
      BY <1>4 DEF Accepts, HasSendRoute, SameSize, Reachable
    <2>2. <<m, l, sendSize[n][l]>> \in asked /\ m \in Nodes
      BY <1>2, <2>1 DEF AskedInv, Heard, TypeOK
    <2>3. LocalWith(n, l, m) \union RemoteWith(n, l, m) = local[n][l] \union remote[n][l] \union {m}
      BY <1>4 DEF LocalWith, RemoteWith
    <2>4. /\ local'[n][l] \union remote'[n][l] = local[n][l] \union remote[n][l] \union {m}
          /\ \A k \in Nodes, j \in Labels : k # n \/ j # l =>
               local'[k][j] = local[k][j] /\ remote'[k][j] = remote[k][j]
      BY <1>3, <2>3 DEF TypeOK
    <2>5. Served' = [Served EXCEPT ![n][l] = @ \union {m}]
      <3>1. Served[n][l] = local[n][l] \union remote[n][l]
        BY DEF Served
      <3> QED
        BY <2>4, <3>1, ServedChanges
    <2>6. Abstract!Serve(n, l, m)
      BY <1>3, <2>1, <2>2, <2>5 DEF Abstract!Serve, Served, NoSize
    <2> QED
      BY <2>2, <2>6 DEF AbstractStep, Abstract!Next
  <1>5. CASE ~Accepts(n, l, m)
    <2>1. LocalWith(n, l, m) = local[n][l] /\ RemoteWith(n, l, m) = remote[n][l]
      BY <1>5 DEF LocalWith, RemoteWith
    <2>2. UNCHANGED <<local, remote>>
      BY <1>3, <2>1 DEF TypeOK
    <2> QED
      BY <1>3, <2>2, ServedStays
  <1> QED
    BY <1>4, <1>5

\* The sender of the message, and nobody else, is dropped: it is in the set
\* that its route kind selects, or in none.
LEMMA RemoveSubscriberAbstract ==
    ASSUME IInv, NEW n \in Nodes, RemoveSubscriber(n)
    PROVE  AbstractStep
  <1> USE DEF IInv
  <1>1. PICK l \in Labels : l = current[n]
    BY DEF RemoveSubscriber, PlaceInv
  <1>2. PICK m : m = msg[n].id
    OBVIOUS
  <1>3. /\ local' = [local EXCEPT ![n][l] = LocalWithout(n, l, m)]
        /\ remote' = [remote EXCEPT ![n][l] = RemoteWithout(n, l, m)]
        /\ UNCHANGED <<sendSize, asked>>
    BY <1>1, <1>2 DEF RemoveSubscriber
  <1>4. LocalWithout(n, l, m) = local[n][l] \ {m} /\ RemoteWithout(n, l, m) = remote[n][l] \ {m}
    BY DEF LocalWithout, RemoteWithout, SubscribersReachable
  <1>5. /\ local'[n][l] \union remote'[n][l] = (local[n][l] \union remote[n][l]) \ {m}
        /\ \A k \in Nodes, j \in Labels : k # n \/ j # l =>
             local'[k][j] = local[k][j] /\ remote'[k][j] = remote[k][j]
    BY <1>3, <1>4 DEF TypeOK
  <1>6. CASE m \in Nodes
    <2>1. Served' = [Served EXCEPT ![n][l] = @ \ {m}]
      <3>1. Served[n][l] = local[n][l] \union remote[n][l]
        BY DEF Served
      <3> QED
        BY <1>5, <3>1, ServedChanges
    <2>2. Abstract!Drop(n, l, m)
      BY <1>3, <2>1 DEF Abstract!Drop, Served
    <2> QED
      BY <1>6, <2>2 DEF AbstractStep, Abstract!Next
  <1>7. CASE m \notin Nodes
    <2>1. local[n][l] \ {m} = local[n][l] /\ remote[n][l] \ {m} = remote[n][l]
      BY <1>7 DEF TypeOK
    <2>2. UNCHANGED <<local, remote>>
      BY <1>3, <1>4, <2>1 DEF TypeOK
    <2> QED
      BY <1>3, <2>2, ServedStays
  <1> QED
    BY <1>6, <1>7

\* A process that dies takes all its routes with it.
LEMMA RestartAbstract ==
    ASSUME IInv, NEW n \in Nodes, Restart(n)
    PROVE  AbstractStep
  <1>1. /\ sendSize' = [sendSize EXCEPT ![n] = [l \in Labels |-> NoSize]]
        /\ local' = [local EXCEPT ![n] = [l \in Labels |-> {}]]
        /\ remote' = [remote EXCEPT ![n] = [l \in Labels |-> {}]]
        /\ UNCHANGED asked
    BY DEF Restart
  <1> DEFINE none == [l \in Labels |-> {}]
  <1>2. Served'[n] = none
    BY <1>1 DEF Served, IInv, TypeOK
  <1>3. \A k \in Nodes : k # n => Served'[k] = Served[k]
    BY <1>1 DEF Served, IInv, TypeOK
  <1> HIDE DEF none
  <1>4. DOMAIN Served = Nodes /\ Served' = [k \in Nodes |-> Served'[k]]
    BY DEF Served
  <1>5. [Served EXCEPT ![n] = none] = [k \in Nodes |-> IF k = n THEN none ELSE Served[k]]
    BY <1>4
  <1>6. Served' = [Served EXCEPT ![n] = none]
    BY <1>2, <1>3, <1>4, <1>5
  <1>7. Abstract!Leave(n)
    BY <1>1, <1>6 DEF Abstract!Leave, Served, NoSize, none
  <1> QED
    BY <1>7 DEF AbstractStep, Abstract!Next

LEMMA NextAbstract == IInv /\ [Next]_vars => AbstractStep
  <1> SUFFICES ASSUME IInv, [Next]_vars PROVE AbstractStep
    OBVIOUS
  <1>1. ASSUME NEW n \in Nodes, Application(n) PROVE AbstractStep
    <2>1. ASSUME NEW l \in Labels, NEW s \in Sizes, OpenSendRefused(n, l, s) \/ OpenRecvRefused(n, l, s)
          PROVE  AbstractStep
      BY <2>1, ServedStays DEF OpenSendRefused, OpenRecvRefused, routes
    <2>2. ASSUME NEW h \in recvHandles[n], CloseRecv(n, h) PROVE AbstractStep
      BY <2>2, ServedStays DEF CloseRecv, sendRoute
    <2> QED
      BY <1>1, <2>1, <2>2, OpenSendAbstract, OpenRecvAbstract, CloseSendAbstract DEF Application
  <1>2. ASSUME NEW n \in Nodes, Apply(n) PROVE AbstractStep
    <2>1. ASSUME NEW l \in Labels, AddCheck(n, l) \/ RemoveCheck(n, l) PROVE AbstractStep
      BY <2>1, ServedStays DEF AddCheck, RemoveCheck, LookAt, routes
    <2>2. ASSUME AddDone(n) \/ RemoveDone(n) PROVE AbstractStep
      BY <2>2, ServedStays DEF AddDone, RemoveDone, routes
    <2> QED
      BY <1>2, <2>1, <2>2, AddSubscriberAbstract, RemoveSubscriberAbstract DEF Apply
  <1>3. ASSUME NEW n \in Nodes, SendBroadcast(n) PROVE AbstractStep
    BY <1>3, ServedStays DEF SendBroadcast, routes
  <1>4. ASSUME NEW n \in Nodes, (\E m \in net[n] : Receive(n, m) \/ ReceiveTwice(n, m)) \/ ReceiveFails(n)
        PROVE  AbstractStep
    BY <1>4, ServedStays DEF Receive, ReceiveTwice, ReceiveFails, Take, routes
  <1>5. ASSUME NEW n \in Nodes, NEW m \in Nodes, Establish(n, m) PROVE AbstractStep
    BY <1>5, ServedStays DEF Establish, routes
  <1>6. ASSUME NEW n \in Nodes, Restart(n) PROVE AbstractStep
    BY <1>6, RestartAbstract
  <1>7. ASSUME UNCHANGED vars PROVE AbstractStep
    BY <1>7, ServedStays DEF vars, routes
  <1> QED
    BY <1>1, <1>2, <1>3, <1>4, <1>5, <1>6, <1>7 DEF Next

-----------------------------------------------------------------------------
(* The theorems. *)

\* The inductive invariant holds in every reachable state.
THEOREM DiscoveryInvariant == Spec => []IInv
  <1>1. Init => IInv
    BY InitInv
  <1>2. IInv /\ [Next]_vars => IInv'
    BY NextInv
  <1> QED
    BY <1>1, <1>2, PTL DEF Spec

\* Every variable keeps its type: recv_broadcast never files a subscriber that
\* is no node, although it goes on with whatever msg holds after an error.
THEOREM DiscoveryTypes == Spec => []TypeOK
  <1>1. IInv => TypeOK
    BY DEF IInv
  <1> QED
    BY <1>1, DiscoveryInvariant, PTL

\* The handle table and the route table agree, although open and close change
\* them one after the other and undo the first change if the second is refused.
THEOREM TablesAgree == Spec => []RoutesMatchHandles
  <1>1. IInv => RoutesMatchHandles
    BY DEF IInv, TablesInv, TableOK, RoutesMatchHandles
  <1> QED
    BY <1>1, DiscoveryInvariant, PTL

\* Every subscriber of a route can be reached by the transport of the set it
\* is in, and a route that was erased left no subscriber behind.
THEOREM Reached == Spec => []SubscribersReachable
  <1>1. IInv => SubscribersReachable
    BY DEF IInv
  <1> QED
    BY <1>1, DiscoveryInvariant, PTL

\* Discovery implements Subscriptions: every step of handles, broadcasts and
\* recv_broadcast threads is a step of the abstract specification or none.
THEOREM Implements == Spec => ImplementsSubscriptions
  <1>1. Init => Abstract!Init
    BY DEF Init, Abstract!Init, ForEachLabel, NoSize
  <1>2. IInv /\ [Next]_vars => [Abstract!Next]_(Abstract!vars)
    BY NextAbstract DEF AbstractStep
  <1> QED
    BY <1>1, <1>2, DiscoveryInvariant, PTL DEF Spec, ImplementsSubscriptions, Abstract!Spec
=============================================================================
