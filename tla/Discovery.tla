----------------------------- MODULE Discovery -----------------------------
(***************************************************************************)
(* Who receives which label: handles and routes of every node, the UDP     *)
(* multicast by which a node announces the labels it receives, and the     *)
(* thread of every other node that turns announcements into subscribers    *)
(* of its send routes (Router, RouteTable, Manager::send_broadcast and     *)
(* recv_broadcast).                                                        *)
(*                                                                         *)
(* Broadcasts are lost (never taken from net), delayed, reordered and, as  *)
(* far as MaxFaults allows, delivered twice; a receive that fails leaves   *)
(* the previous message in the buffer, which is then applied again.  A     *)
(* node's process may die and be started again.                            *)
(***************************************************************************)
EXTENDS Integers, FiniteSets

CONSTANTS
    Nodes,     \* node numbers
    Labels,    \* labels
    Sizes,     \* label sizes the applications use
    FarNodes,  \* the nodes on a second machine
    Senders,   \* nodes whose application opens send labels
    Receivers, \* nodes whose application opens receive labels
    MAX_LABELS,\* labels that fit into a broadcast
    MaxOpens,  \* bound: handles opened per node
    MaxInFlight,\* bound: different broadcasts on their way to a node
    MaxFaults  \* bound: duplicated broadcasts, failed receives and restarts

ASSUME NodesAssumption ==
    /\ Nodes \subseteq Nat \ {0} /\ IsFiniteSet(Nodes)
    /\ Labels \subseteq Nat /\ IsFiniteSet(Labels)
    /\ Sizes \subseteq Nat \ {0}
    /\ FarNodes \subseteq Nodes /\ Senders \subseteq Nodes /\ Receivers \subseteq Nodes
    /\ MAX_LABELS \in Nat /\ MaxOpens \in Nat
    /\ MaxInFlight \in Nat /\ MaxFaults \in Nat

Uids == 1 .. MaxOpens
Handle == [uid : Uids, label : Labels, size : Sizes]
NoSize == 0
INVALID_LABEL == -1
\* A broadcast: the sender and the size of each label it receives.  (Its send
\* labels and the two generations are read by nobody.)
Broadcasts == [id : Nodes, labels : [Labels -> Sizes \union {NoSize}]]
\* io::BroadcastMessage{}: node -1, no labels.
Blank == [id |-> 0, labels |-> [l \in Labels |-> NoSize]]

VARIABLES
    uid,        \* handles opened so far by each node
    sendHandles,\* m_send_handles
    recvHandles,\* m_recv_handles
    sendSize,   \* label_size of each send route, NoSize if there is none
    publishers, \* its publishers
    local,      \* its local_subscribers
    remote,     \* its remote_subscribers
    recvSize,   \* label_size of each receive route, NoSize if there is none
    subscribers,\* its subscribers
    transport,  \* peers that has_send_shm or has_socket holds for
    net,        \* broadcasts on their way to each node
    msg,        \* recv_broadcast's msg of each node
    bpc,        \* where that thread is
    todo,       \* labels it has not looked at yet in this loop
    current,    \* the label it is about to change
    faults,     \* faults so far
    \* History, read by no step of the code:
    asked       \* <<node, label, size>>: receive labels ever opened

handles   == <<uid, sendHandles, recvHandles>>
routes    == <<sendSize, publishers, local, remote, recvSize, subscribers>>
sendRoute == <<sendSize, publishers, local, remote>>
recvRoute == <<recvSize, subscribers>>
thread    == <<msg, bpc, todo, current>>
vars == <<handles, routes, transport, net, thread, faults, asked>>

-----------------------------------------------------------------------------
(* Addresses and transports *)

Address == INSTANCE AddressBook WITH
    Ids <- Nodes, Ips <- {0, 1}, Ports <- {}, PortBits <- 16, MaxRows <- 0,
    file <- <<>>, mode <- "Normal", pos <- 0, book <- <<>>

Machine == [n \in Nodes |-> IF n \in FarNodes THEN 1 ELSE 0]
IsLocal(n, m) == Address!RouteKind("Normal", Machine, n, m) \in {"Self", "Shm"}

\* open_send_shm of a peer's block, or upsert_socket of a connection to it.
\* Entries are replaced but never removed.  Only those that subscribers need
\* are followed here.
Establish(n, m) ==
    /\ n \in Senders /\ m \in Receivers \ transport[n]
    /\ transport' = [transport EXCEPT ![n] = @ \union {m}]
    /\ UNCHANGED <<handles, routes, net, thread, faults, asked>>

-----------------------------------------------------------------------------
(* The application opens and closes handles *)

\* RouteTable::add_send_publisher, add_recv_subscriber: the first handle
\* creates the route, further ones must have its size.
Fits(size, s) == size \in {NoSize, s}

\* Manager::open_send.
OpenSend(n, l, s) ==
    /\ n \in Senders /\ uid[n] < MaxOpens
    /\ Fits(sendSize[n][l], s)
    /\ uid' = [uid EXCEPT ![n] = @ + 1]
    /\ sendHandles' = [sendHandles EXCEPT
                         ![n] = @ \union {[uid |-> uid[n] + 1, label |-> l, size |-> s]}]
    /\ sendSize' = [sendSize EXCEPT ![n][l] = s]
    /\ publishers' = [publishers EXCEPT ![n][l] = @ \union {uid[n] + 1}]
    /\ UNCHANGED <<recvHandles, local, remote, recvRoute, transport, net, thread, faults, asked>>

\* Mutant: a refused handle stays in the table.
AfterRefusal_Kept(hs, h) == hs \union {h}
\* The handle is stored, the route refuses it, and it is erased again.
AfterRefusal(hs, h) == (hs \union {h}) \ {h}

OpenSendRefused(n, l, s) ==
    /\ n \in Senders /\ uid[n] < MaxOpens
    /\ ~Fits(sendSize[n][l], s)
    /\ uid' = [uid EXCEPT ![n] = @ + 1]
    /\ sendHandles' = [sendHandles EXCEPT
                         ![n] = AfterRefusal(@, [uid |-> uid[n] + 1, label |-> l, size |-> s])]
    /\ UNCHANGED <<recvHandles, routes, transport, net, thread, faults, asked>>

\* A route is erased with its last publisher, and its subscribers with it.
Orphaned(pubs, subs) == IF pubs = {} THEN {} ELSE subs

\* remove_send_publisher, remove_recv_subscriber: a route ends with its last
\* user.
SizeAfterClose(left, size) == IF left = {} THEN NoSize ELSE size

\* Manager::close_send of a handle that is registered.
CloseSend(n, h) ==
    LET left == publishers[n][h.label] \ {h.uid}
    IN  /\ h \in sendHandles[n]
        /\ sendHandles' = [sendHandles EXCEPT ![n] = @ \ {h}]
        /\ publishers' = [publishers EXCEPT ![n][h.label] = left]
        /\ sendSize' = [sendSize EXCEPT ![n][h.label] = SizeAfterClose(left, @)]
        /\ local' = [local EXCEPT ![n][h.label] = Orphaned(left, @)]
        /\ remote' = [remote EXCEPT ![n][h.label] = Orphaned(left, @)]
        /\ UNCHANGED <<uid, recvHandles, recvRoute, transport, net, thread, faults, asked>>

\* Manager::open_recv.
OpenRecv(n, l, s) ==
    /\ n \in Receivers /\ uid[n] < MaxOpens
    /\ Fits(recvSize[n][l], s)
    /\ uid' = [uid EXCEPT ![n] = @ + 1]
    /\ recvHandles' = [recvHandles EXCEPT
                         ![n] = @ \union {[uid |-> uid[n] + 1, label |-> l, size |-> s]}]
    /\ recvSize' = [recvSize EXCEPT ![n][l] = s]
    /\ subscribers' = [subscribers EXCEPT ![n][l] = @ \union {uid[n] + 1}]
    /\ asked' = asked \union {<<n, l, s>>}
    /\ UNCHANGED <<sendHandles, sendRoute, transport, net, thread, faults>>

OpenRecvRefused(n, l, s) ==
    /\ n \in Receivers /\ uid[n] < MaxOpens
    /\ ~Fits(recvSize[n][l], s)
    /\ uid' = [uid EXCEPT ![n] = @ + 1]
    /\ recvHandles' = [recvHandles EXCEPT
                         ![n] = AfterRefusal(@, [uid |-> uid[n] + 1, label |-> l, size |-> s])]
    /\ UNCHANGED <<sendHandles, routes, transport, net, thread, faults, asked>>

\* Manager::close_recv of a handle that is registered.
CloseRecv(n, h) ==
    LET left == subscribers[n][h.label] \ {h.uid}
    IN  /\ h \in recvHandles[n]
        /\ recvHandles' = [recvHandles EXCEPT ![n] = @ \ {h}]
        /\ subscribers' = [subscribers EXCEPT ![n][h.label] = left]
        /\ recvSize' = [recvSize EXCEPT ![n][h.label] = SizeAfterClose(left, @)]
        /\ UNCHANGED <<uid, sendHandles, sendRoute, transport, net, thread, faults, asked>>

-----------------------------------------------------------------------------
(* Broadcasts *)

\* Mutant: the unused entries of the array of labels are taken for labels.
Routed_Unused(size) == {l \in Labels : size[l] # NoSize} \union {INVALID_LABEL}
Routed(size) == {l \in Labels : size[l] # NoSize}

\* get_send_labels, get_recv_labels: the first MAX_LABELS of the routes, in
\* the order of an unordered_map, which does not change while the map does not.
Announced(size) ==
    IF Cardinality(Routed(size)) <= MAX_LABELS THEN Routed(size)
    ELSE CHOOSE S \in SUBSET Routed(size) : Cardinality(S) = MAX_LABELS

\* get_recv_labels_snapshot, under the router's shared lock.
Snapshot(n) ==
    [id |-> n,
     labels |-> [l \in Labels |-> IF l \in Announced(recvSize[n]) THEN recvSize[n][l] ELSE NoSize]]

\* Who could act on a broadcast: other nodes have no send routes, and their
\* recv_broadcast changes nothing.
Listeners == Senders

\* UDPMulticastSocket::send_broadcast.
Multicast(m) == net' = [r \in Nodes |-> IF r \in Listeners THEN net[r] \union {m} ELSE net[r]]

\* send_broadcast, every three seconds.  Sending again what is still on its
\* way changes nothing.
SendBroadcast(n) ==
    /\ n \in Receivers
    /\ Multicast(Snapshot(n))
    /\ net' # net /\ \A r \in Listeners : Cardinality(net[r]) < MaxInFlight
    /\ UNCHANGED <<handles, routes, transport, thread, faults, asked>>

Goto(n, pc) == bpc' = [bpc EXCEPT ![n] = pc]

\* recv_broadcast fills msg and turns to add_subscriber.
Take(n, m) ==
    /\ bpc[n] = "recv"
    /\ msg' = [msg EXCEPT ![n] = m]
    /\ todo' = [todo EXCEPT ![n] = Routed(m.labels)]
    /\ Goto(n, "add")
    /\ UNCHANGED <<handles, routes, transport, current, asked>>

Receive(n, m) ==
    /\ m \in net[n]
    /\ net' = [net EXCEPT ![n] = @ \ {m}]
    /\ Take(n, m)
    /\ UNCHANGED faults

ReceiveTwice(n, m) ==
    /\ m \in net[n] /\ faults < MaxFaults
    /\ faults' = faults + 1
    /\ Take(n, m)
    /\ UNCHANGED net

\* recvfrom fails; the result is not looked at, msg is what it was.
ReceiveFails(n) ==
    /\ n \in Listeners /\ faults < MaxFaults
    /\ faults' = faults + 1
    /\ Take(n, msg[n])
    /\ UNCHANGED net

-----------------------------------------------------------------------------
(* add_subscriber and remove_subscriber *)

HasSendRoute(n, l) == sendSize[n][l] # NoSize
IsSendSubscriber(n, l, m) == m \in local[n][l] \union remote[n][l]

\* A label of the message: is it sent here, and to the node already?  The
\* answers are read under the router's lock, which is then released.
LookAt(n, l, change, next) ==
    /\ l \in todo[n]
    /\ todo' = [todo EXCEPT ![n] = @ \ {l}]
    /\ current' = [current EXCEPT ![n] = l]
    /\ Goto(n, IF change THEN next ELSE bpc[n])
    /\ UNCHANGED <<handles, routes, transport, net, msg, faults, asked>>

AddCheck(n, l) ==
    /\ bpc[n] = "add"
    /\ LookAt(n, l, HasSendRoute(n, l) /\ ~IsSendSubscriber(n, l, msg[n].id), "adding")

\* Mutant: the announced size is not compared.
SameSize_Any(n, l) == TRUE
SameSize(n, l) == sendSize[n][l] = msg[n].labels[l]

\* Mutant: a subscriber is added before there is a way to reach it.
Reachable_Any(n, m) == TRUE
Reachable(n, m) == m \in transport[n]

\* Everything is checked again, under the lock that guards the change.
Accepts(n, l, m) == HasSendRoute(n, l) /\ SameSize(n, l) /\ Reachable(n, m)

\* add_local_send_subscriber, add_remote_send_subscriber
LocalWith(n, l, m)  == local[n][l] \union {x \in {m} : Accepts(n, l, m) /\ IsLocal(n, m)}
RemoteWith(n, l, m) == remote[n][l] \union {x \in {m} : Accepts(n, l, m) /\ ~IsLocal(n, m)}

AddSubscriber(n) ==
    LET l == current[n]
        m == msg[n].id
    IN  /\ bpc[n] = "adding"
        /\ local' = [local EXCEPT ![n][l] = LocalWith(n, l, m)]
        /\ remote' = [remote EXCEPT ![n][l] = RemoteWith(n, l, m)]
        /\ Goto(n, "add")
        /\ UNCHANGED <<handles, sendSize, publishers, recvRoute, transport, net,
                       msg, todo, current, faults, asked>>

\* remove_subscriber begins with its own copy of the send labels.
AddDone(n) ==
    /\ bpc[n] = "add" /\ todo[n] = {}
    /\ todo' = [todo EXCEPT ![n] = Announced(sendSize[n])]
    /\ Goto(n, "remove")
    /\ UNCHANGED <<handles, routes, transport, net, msg, current, faults, asked>>

\* Mutant: a label that is still wanted counts as given up.
StillWanted_Never(n, l) == FALSE
StillWanted(n, l) == msg[n].labels[l] # NoSize

RemoveCheck(n, l) ==
    /\ bpc[n] = "remove"
    /\ LookAt(n, l, IsSendSubscriber(n, l, msg[n].id) /\ ~StillWanted(n, l), "removing")

\* remove_local_send_subscriber, remove_remote_send_subscriber
LocalWithout(n, l, m)  == {x \in local[n][l] : ~(x = m /\ IsLocal(n, m))}
RemoteWithout(n, l, m) == {x \in remote[n][l] : x = m => IsLocal(n, m)}

RemoveSubscriber(n) ==
    LET l == current[n]
        m == msg[n].id
    IN  /\ bpc[n] = "removing"
        /\ local' = [local EXCEPT ![n][l] = LocalWithout(n, l, m)]
        /\ remote' = [remote EXCEPT ![n][l] = RemoteWithout(n, l, m)]
        /\ Goto(n, "remove")
        /\ UNCHANGED <<handles, sendSize, publishers, recvRoute, transport, net,
                       msg, todo, current, faults, asked>>

RemoveDone(n) ==
    /\ bpc[n] = "remove" /\ todo[n] = {}
    /\ Goto(n, "recv")
    /\ UNCHANGED <<handles, routes, transport, net, msg, todo, current, faults, asked>>

-----------------------------------------------------------------------------
(* The process ends *)

\* A node's process dies at any point and is started again, with the tables of
\* a new Manager: no handles, routes or transports.  What the others know of the
\* node stays, and so do the broadcasts of the old process and those it has not
\* read.
Restart(n) ==
    /\ faults < MaxFaults
    /\ faults' = faults + 1
    /\ uid' = [uid EXCEPT ![n] = 0]
    /\ sendHandles' = [sendHandles EXCEPT ![n] = {}]
    /\ recvHandles' = [recvHandles EXCEPT ![n] = {}]
    /\ sendSize' = [sendSize EXCEPT ![n] = [l \in Labels |-> NoSize]]
    /\ recvSize' = [recvSize EXCEPT ![n] = [l \in Labels |-> NoSize]]
    /\ publishers' = [publishers EXCEPT ![n] = [l \in Labels |-> {}]]
    /\ subscribers' = [subscribers EXCEPT ![n] = [l \in Labels |-> {}]]
    /\ local' = [local EXCEPT ![n] = [l \in Labels |-> {}]]
    /\ remote' = [remote EXCEPT ![n] = [l \in Labels |-> {}]]
    /\ transport' = [transport EXCEPT ![n] = {}]
    /\ msg' = [msg EXCEPT ![n] = Blank]
    /\ Goto(n, "recv")
    /\ todo' = [todo EXCEPT ![n] = {}]
    /\ current' = [current EXCEPT ![n] = INVALID_LABEL]
    /\ UNCHANGED <<net, asked>>

-----------------------------------------------------------------------------
ForEachLabel(x) == [n \in Nodes |-> [l \in Labels |-> x]]

Init ==
    /\ uid = [n \in Nodes |-> 0]
    /\ sendHandles = [n \in Nodes |-> {}] /\ recvHandles = [n \in Nodes |-> {}]
    /\ sendSize = ForEachLabel(NoSize) /\ recvSize = ForEachLabel(NoSize)
    /\ publishers = ForEachLabel({}) /\ subscribers = ForEachLabel({})
    /\ local = ForEachLabel({}) /\ remote = ForEachLabel({})
    /\ transport = [n \in Nodes |-> {}]
    /\ net = [n \in Nodes |-> {}]
    /\ msg = [n \in Nodes |-> Blank]
    /\ bpc = [n \in Nodes |-> "recv"]
    /\ todo = [n \in Nodes |-> {}]
    /\ current = [n \in Nodes |-> INVALID_LABEL]
    /\ faults = 0 /\ asked = {}

Application(n) ==
    \/ \E l \in Labels, s \in Sizes :
          \/ OpenSend(n, l, s) \/ OpenSendRefused(n, l, s)
          \/ OpenRecv(n, l, s) \/ OpenRecvRefused(n, l, s)
    \/ \E h \in sendHandles[n] : CloseSend(n, h)
    \/ \E h \in recvHandles[n] : CloseRecv(n, h)

\* The steps recv_broadcast takes by itself.
Apply(n) ==
    \/ \E l \in Labels : AddCheck(n, l) \/ RemoveCheck(n, l)
    \/ AddSubscriber(n) \/ AddDone(n) \/ RemoveSubscriber(n) \/ RemoveDone(n)

Next ==
    \E n \in Nodes :
        \/ Application(n)
        \/ SendBroadcast(n)
        \/ \E m \in net[n] : Receive(n, m) \/ ReceiveTwice(n, m)
        \/ ReceiveFails(n)
        \/ Apply(n)
        \/ \E m \in Nodes : Establish(n, m)
        \/ Restart(n)

Spec == Init /\ [][Next]_vars

\* Threads run; a broadcast that is repeated for ever gets through at last; a
\* peer that exists can be reached in the end.
ReceiveFrom(n, s) == \E m \in net[n] : m.id = s /\ Receive(n, m)
Fairness ==
    /\ \A n \in Senders : WF_vars(Apply(n))
    /\ \A m \in Receivers : WF_vars(SendBroadcast(m))
    /\ \A n \in Senders, m \in Receivers : SF_vars(ReceiveFrom(n, m)) /\ WF_vars(Establish(n, m))
LiveSpec == Spec /\ Fairness

-----------------------------------------------------------------------------
(* Properties *)

\* Every variable has its type.
TypeOK ==
    /\ uid \in [Nodes -> 0 .. MaxOpens]
    /\ sendHandles \in [Nodes -> SUBSET Handle] /\ recvHandles \in [Nodes -> SUBSET Handle]
    /\ sendSize \in [Nodes -> [Labels -> Sizes \union {NoSize}]]
    /\ recvSize \in [Nodes -> [Labels -> Sizes \union {NoSize}]]
    /\ publishers \in [Nodes -> [Labels -> SUBSET Uids]]
    /\ subscribers \in [Nodes -> [Labels -> SUBSET Uids]]
    /\ local \in [Nodes -> [Labels -> SUBSET Nodes]]
    /\ remote \in [Nodes -> [Labels -> SUBSET Nodes]]
    /\ transport \in [Nodes -> SUBSET Nodes]
    /\ net \in [Nodes -> SUBSET Broadcasts]
    /\ msg \in [Nodes -> Broadcasts \union {Blank}]
    /\ bpc \in [Nodes -> {"recv", "add", "adding", "remove", "removing"}]
    /\ todo \in [Nodes -> SUBSET Labels]
    /\ current \in [Nodes -> Labels \union {INVALID_LABEL}]
    /\ faults \in 0 .. MaxFaults
    /\ asked \subseteq Nodes \X Labels \X Sizes

Owners(hs, l) == {h.uid : h \in {g \in hs : g.label = l}}

\* The handle table and the route table, which are changed one after the
\* other and undone on refusal, say the same: a route exists exactly as long
\* as a handle uses it, lists those handles, and has their size.
RoutesMatchHandles ==
    \A n \in Nodes :
        /\ \A l \in Labels :
              /\ publishers[n][l] = Owners(sendHandles[n], l)
              /\ subscribers[n][l] = Owners(recvHandles[n], l)
              /\ sendSize[n][l] = NoSize <=> publishers[n][l] = {}
              /\ recvSize[n][l] = NoSize <=> subscribers[n][l] = {}
        /\ \A h \in sendHandles[n] : sendSize[n][h.label] = h.size
        /\ \A h \in recvHandles[n] : recvSize[n][h.label] = h.size

\* build_send_job finds a transport for every subscriber of a route: local
\* subscribers are on this machine, remote ones on another, all were reached
\* before they were added, and a route that is gone has none.
SubscribersReachable ==
    \A n \in Nodes, l \in Labels :
        /\ local[n][l] \union remote[n][l] \subseteq transport[n]
        /\ \A m \in local[n][l] : IsLocal(n, m)
        /\ \A m \in remote[n][l] : ~IsLocal(n, m)
        /\ sendSize[n][l] = NoSize => local[n][l] \union remote[n][l] = {}

\* Discovery implements the abstract specification: subscribers are added one
\* by one, only in a size they have asked for, and vanish with the route.
Abstract == INSTANCE Subscriptions WITH
    offer <- sendSize,
    served <- [n \in Nodes |-> [l \in Labels |-> local[n][l] \union remote[n][l]]]
ImplementsSubscriptions == Abstract!Spec

\* What the subscribers of n's label l should be, as far as broadcasts with
\* MAX_LABELS labels can tell.
Converged ==
    \A n \in Senders, m \in Receivers, l \in Labels :
        /\ sendSize[n][l] # NoSize /\ l \in Announced(recvSize[m]) /\ recvSize[m][l] = sendSize[n][l]
             => IsSendSubscriber(n, l, m)
        /\ IsSendSubscriber(n, l, m) /\ l \in Announced(sendSize[n])
             => l \in Announced(recvSize[m])

\* Once the applications leave their handles alone, the subscribers settle on
\* the nodes that announce the label, although old broadcasts arrive late, in
\* the wrong order, twice, or are applied again after an error.
SubscribersConverge == <>[]Converged
=============================================================================
