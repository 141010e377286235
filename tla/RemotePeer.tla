---------------------------- MODULE RemotePeer ----------------------------
(***************************************************************************)
(* Two nodes that talk by TCP: ConnectionManager's accept thread and       *)
(* monitor thread on each, the SocketRecvWorker that reads the peer's      *)
(* labels, the registry's socket, and the sends of the remote send worker. *)
(* The node with the larger number connects and the other accepts.         *)
(*                                                                         *)
(* Connections are reset, processes crash and restart, machines vanish     *)
(* without closing their connections, and a send may write only a part.    *)
(***************************************************************************)
EXTENDS Integers, Sequences, FiniteSets

CONSTANTS
    Lo, Hi,     \* node numbers
    Talkers,    \* nodes whose application sends labels
    MaxMsgs,    \* bound: labels sent by each
    MaxConns,   \* bound: connections ever made
    FaultKinds, \* of "reset", "crash", "vanish" and "partial", those that occur
    MaxFaults,  \* bound: how often
    Buf         \* what a connection holds in each direction, in units

ASSUME PeerAssumption ==
    /\ Lo \in Nat /\ Hi \in Nat /\ Lo < Hi /\ Talkers \subseteq {Lo, Hi}
    /\ MaxMsgs \in Nat /\ MaxConns \in Nat /\ MaxFaults \in Nat
    /\ FaultKinds \subseteq {"reset", "crash", "vanish", "partial"}
    /\ Buf \in Nat /\ Buf >= 2

Nodes == {Lo, Hi}
Other(n) == IF n = Lo THEN Hi ELSE Lo
Conns == 1 .. MaxConns
None == 0
\* What is sent: the header that identifies a client, pings, and labels,
\* which are a header followed by a payload.
Unit == {<<"id", 0>>, <<"ping", 0>>} \union ({"head", "body"} \X (1 .. MaxMsgs))
Label(k) == <<<<"head", k>>, <<"body", k>>>>

VARIABLES
    up,       \* whether the process runs
    registry, \* TransportRegistry::m_sockets of the peer, None if empty
    entry,    \* m_sock_recvrs of the peer: the connection its worker reads
    worker,   \* SocketRecvWorker threads, by node and connection
    mon,      \* remote_connection_monitor
    acc,      \* run_tcp_server
    backlog,  \* connections not accepted yet
    sock,     \* TCPSocket of each end: "open" is is_connected, "shut" has
              \* m_connected false and a valid handle; a "gone" end belonged
              \* to a machine that vanished
    wire,     \* units that have not been received, by receiver and connection
    rst,      \* whether the connection is reset
    used,     \* connections so far
    sent,     \* labels sent so far
    faults,   \* faults so far
    \* History, read by no step of the code:
    torn,     \* connections on which a send wrote only a part
    got       \* the last label a node distributed, and whether all were intact

net  == <<up, sock, wire, rst, used, faults, torn>>
vars == <<net, registry, entry, worker, mon, acc, backlog, sent, got>>

NoWorker == [pc |-> "none", stop |-> FALSE, label |-> 0, intact |-> TRUE]
Idle(pc) == [pc |-> pc, conn |-> None]

-----------------------------------------------------------------------------
(* Sockets *)

Open(n, c) == sock[n][c] = "open"
HandleValid(n, c) == sock[n][c] \in {"open", "shut"}

\* TCPSocket::disconnect of n's end of c, if there is one.
Disconnect(n, c) ==
    /\ sock' = [sock EXCEPT ![n] = [d \in Conns |-> IF d = c THEN "closed" ELSE @[d]]]
    /\ wire' = [wire EXCEPT ![n] = [d \in Conns |-> IF d = c THEN <<>> ELSE @[d]]]

\* Mutant: a send does not wait for room.
Fits_Always(n, c, units) == TRUE
Fits(n, c, units) == Len(wire[n][c]) + Len(units) <= Buf

\* ::send of units, which blocks until all fit; m_send_mtx keeps them together.  To a peer
\* that is not there any more it succeeds and provokes a reset.
Send(n, c, units) ==
    LET o == Other(n)
    IN  /\ Open(n, c) /\ ~rst[c]
        /\ \/ /\ sock[o][c] \in {"open", "shut"}
              /\ Fits(o, c, units)
              /\ wire' = [wire EXCEPT ![o][c] = @ \o units]
              /\ rst' = rst
           \/ /\ sock[o][c] \in {"closed", "gone"}
              /\ rst' = [rst EXCEPT ![c] = TRUE]
              /\ wire' = wire

\* recv_all: what was asked for has arrived.
RecvAll(n, c) == HandleValid(n, c) /\ wire[n][c] # <<>>

\* Mutant: a recv that returns 0 is retried.
AtEof_Retried(n, c) == FALSE
\* recv returns 0, or fails: reset by the peer, or closed by another thread.
AtEof(n, c) == HandleValid(n, c) /\ wire[n][c] = <<>> /\ sock[Other(n)][c] = "closed"
RecvError(n, c) == rst[c] \/ sock[n][c] = "closed"

-----------------------------------------------------------------------------
(* Registry and receive workers *)

\* TransportRegistry::upsert_socket: the previous socket is disconnected.
UpsertSocket(n, c) ==
    /\ registry' = [registry EXCEPT ![n] = c]
    /\ Disconnect(n, registry[n])

\* Mutant: an entry that exists is replaced.
EntryBlocks_Never(n) == FALSE
EntryBlocks(n) == entry[n] # None

\* start_remote_recv_worker: nothing if there is an entry already; otherwise
\* the worker takes the socket that is registered now.
StartWorker(n) ==
    IF EntryBlocks(n) THEN UNCHANGED <<entry, worker>>
    ELSE /\ entry' = [entry EXCEPT ![n] = registry[n]]
         /\ worker' = [worker EXCEPT ![n][registry[n]] = [NoWorker EXCEPT !.pc = "loop"]]

\* Mutant: the entry is erased while the thread still runs.
Joined_Early(n) == TRUE
\* m_thread.join in SocketRecvWorker::stop
Joined(n) == worker[n][entry[n]].pc = "exit"

-----------------------------------------------------------------------------
(* remote_connection_monitor *)

Address == INSTANCE AddressBook WITH
    Ids <- Nodes, Ips <- {}, Ports <- {}, PortBits <- 16, MaxRows <- 0,
    file <- <<>>, mode <- "Normal", pos <- 0, book <- <<>>

\* Mutant: both nodes connect.
MayConnect_Both(n) == TRUE
MayConnect(n) == Address!ConnectsTo(n, Other(n))

MonAt(n, pc) == up[n] /\ mon[n].pc = pc
MonGoto(n, pc, c) == mon' = [mon EXCEPT ![n] = [pc |-> pc, conn |-> c]]

\* Every five seconds.  initial_remote_connection does the same as long as
\* no socket is registered.
MonTick(n) ==
    /\ MonAt(n, "sleep")
    /\ IF registry[n] = None THEN MayConnect(n) /\ MonGoto(n, "connect", None)
       ELSE MonGoto(n, "ping", registry[n])
    /\ UNCHANGED <<net, registry, entry, worker, acc, backlog, sent, got>>

\* ping_remote_peer of a socket that is alive.
MonPing(n) ==
    /\ MonAt(n, "ping")
    /\ Send(n, mon[n].conn, <<<<"ping", 0>>>>)
    /\ MonGoto(n, "sleep", None)
    /\ UNCHANGED <<up, sock, used, faults, torn, registry, entry, worker, acc, backlog, sent, got>>

\* Mutant: a socket counts as dead when the connection is reset, not when the
\* worker has found it closed.
PingFails_ResetOnly(n, c) == rst[c]
\* Not connected, or the send fails.
PingFails(n, c) == ~Open(n, c) \/ rst[c]

MonDisconnect(n) ==
    /\ MonAt(n, "ping") /\ PingFails(n, mon[n].conn)
    /\ Disconnect(n, mon[n].conn)
    /\ MonGoto(n, "stop", None)
    /\ UNCHANGED <<up, rst, used, faults, torn, registry, entry, worker, acc, backlog, sent, got>>

\* stop_remote_recv_worker: of whatever worker is entered now.
MonStop(n) ==
    /\ MonAt(n, "stop")
    /\ IF entry[n] = None THEN MonGoto(n, "connect", None) /\ worker' = worker
       ELSE /\ worker' = [worker EXCEPT ![n][entry[n]].stop = TRUE]
            /\ MonGoto(n, "join", None)
    /\ UNCHANGED <<net, registry, entry, acc, backlog, sent, got>>

MonJoin(n) ==
    /\ MonAt(n, "join") /\ Joined(n)
    /\ entry' = [entry EXCEPT ![n] = None]
    /\ MonGoto(n, "connect", None)
    /\ UNCHANGED <<net, registry, worker, acc, backlog, sent, got>>

\* connect_to_remote_peer: the kernel of the peer completes the connection.
MonConnect(n) ==
    LET c == used + 1
    IN  /\ MonAt(n, "connect") /\ MayConnect(n) /\ up[Other(n)]
        /\ used < MaxConns
        /\ used' = c
        /\ sock' = [m \in Nodes |-> [sock[m] EXCEPT ![c] = "open"]]
        /\ backlog' = [backlog EXCEPT ![Other(n)] = Append(@, c)]
        /\ MonGoto(n, "ident", c)
        /\ UNCHANGED <<up, wire, rst, faults, torn, registry, entry, worker, acc, sent, got>>

MonConnectFails(n) ==
    /\ MonAt(n, "connect") /\ (~MayConnect(n) \/ ~up[Other(n)])
    /\ MonGoto(n, "sleep", None)
    /\ UNCHANGED <<net, registry, entry, worker, acc, backlog, sent, got>>

\* send_id
MonIdent(n) ==
    /\ MonAt(n, "ident")
    /\ Send(n, mon[n].conn, <<<<"id", 0>>>>)
    /\ MonGoto(n, "register", mon[n].conn)
    /\ UNCHANGED <<up, sock, used, faults, torn, registry, entry, worker, acc, backlog, sent, got>>

\* The client is destroyed, which disconnects it.
MonIdentFails(n) ==
    /\ MonAt(n, "ident") /\ rst[mon[n].conn]
    /\ Disconnect(n, mon[n].conn)
    /\ MonGoto(n, "sleep", None)
    /\ UNCHANGED <<up, rst, used, faults, torn, registry, entry, worker, acc, backlog, sent, got>>

MonRegister(n) ==
    /\ MonAt(n, "register")
    /\ UpsertSocket(n, mon[n].conn)
    /\ MonGoto(n, "start", None)
    /\ UNCHANGED <<up, rst, used, faults, torn, entry, worker, acc, backlog, sent, got>>

MonStart(n) ==
    /\ MonAt(n, "start")
    /\ StartWorker(n)
    /\ MonGoto(n, "sleep", None)
    /\ UNCHANGED <<net, registry, acc, backlog, sent, got>>

Monitor(n) ==
    \/ MonTick(n) \/ MonPing(n) \/ MonDisconnect(n) \/ MonStop(n) \/ MonJoin(n)
    \/ MonConnect(n) \/ MonConnectFails(n) \/ MonIdent(n) \/ MonIdentFails(n)
    \/ MonRegister(n) \/ MonStart(n)

-----------------------------------------------------------------------------
(* run_tcp_server *)

AccAt(n, pc) == up[n] /\ acc[n].pc = pc
AccGoto(n, pc, c) == acc' = [acc EXCEPT ![n] = [pc |-> pc, conn |-> c]]

Accept(n) ==
    /\ AccAt(n, "accept") /\ backlog[n] # <<>>
    /\ backlog' = [backlog EXCEPT ![n] = Tail(@)]
    /\ AccGoto(n, "ident", Head(backlog[n]))
    /\ UNCHANGED <<net, registry, entry, worker, mon, sent, got>>

\* The client's first header, in a blocking recv_all.
AccIdent(n) ==
    LET c == acc[n].conn
    IN  /\ AccAt(n, "ident") /\ RecvAll(n, c)
        /\ IF Head(wire[n][c]) = <<"id", 0>>
           THEN /\ wire' = [wire EXCEPT ![n][c] = Tail(@)] /\ sock' = sock
                /\ AccGoto(n, "register", c)
           ELSE Disconnect(n, c) /\ AccGoto(n, "accept", None)
        /\ UNCHANGED <<up, rst, used, faults, torn, registry, entry, worker, mon, backlog, sent, got>>

AccIdentFails(n) ==
    LET c == acc[n].conn
    IN  /\ AccAt(n, "ident") /\ (AtEof(n, c) \/ RecvError(n, c))
        /\ Disconnect(n, c)
        /\ AccGoto(n, "accept", None)
        /\ UNCHANGED <<up, rst, used, faults, torn, registry, entry, worker, mon, backlog, sent, got>>

AccRegister(n) ==
    /\ AccAt(n, "register")
    /\ UpsertSocket(n, acc[n].conn)
    /\ AccGoto(n, "start", None)
    /\ UNCHANGED <<up, rst, used, faults, torn, entry, worker, mon, backlog, sent, got>>

AccStart(n) ==
    /\ AccAt(n, "start")
    /\ StartWorker(n)
    /\ AccGoto(n, "accept", None)
    /\ UNCHANGED <<net, registry, mon, backlog, sent, got>>

Acceptor(n) ==
    Accept(n) \/ AccIdent(n) \/ AccIdentFails(n) \/ AccRegister(n) \/ AccStart(n)

-----------------------------------------------------------------------------
(* SocketRecvWorker::run *)

WorkAt(n, c, pc) == up[n] /\ worker[n][c].pc = pc
WorkGoto(n, c, pc) == worker' = [worker EXCEPT ![n][c].pc = pc]

WorkLoop(n, c) ==
    /\ WorkAt(n, c, "loop")
    /\ WorkGoto(n, c, IF worker[n][c].stop \/ ~Open(n, c) THEN "exit" ELSE "head")
    /\ UNCHANGED <<net, registry, entry, mon, acc, backlog, sent, got>>

\* Wrong magic number, or neither data nor a ping.
Incoherent(u) == u[1] \in {"id", "body"}

\* A header arrives.  After a stop it is thrown away; on an incoherent one
\* the worker disconnects and stops itself.
WorkHead(n, c) ==
    LET u == Head(wire[n][c])
        w == worker[n][c]
    IN  /\ WorkAt(n, c, "head") /\ RecvAll(n, c)
        /\ IF Incoherent(u) /\ ~w.stop
           THEN /\ Disconnect(n, c)
                /\ worker' = [worker EXCEPT ![n][c].pc = "exit", ![n][c].stop = TRUE]
           ELSE /\ wire' = [wire EXCEPT ![n][c] = Tail(@)] /\ sock' = sock
                /\ worker' = [worker EXCEPT ![n][c].label = u[2], ![n][c].pc =
                                IF w.stop THEN "exit" ELSE IF u[1] = "head" THEN "body" ELSE "loop"]
        /\ UNCHANGED <<up, rst, used, faults, torn, registry, entry, mon, acc, backlog, sent, got>>

\* As many bytes as the header announced, whatever they are.
WorkBody(n, c) ==
    /\ WorkAt(n, c, "body") /\ RecvAll(n, c)
    /\ wire' = [wire EXCEPT ![n][c] = Tail(@)]
    /\ worker' = [worker EXCEPT
         ![n][c].pc = IF worker[n][c].stop THEN "exit" ELSE "distribute",
         ![n][c].intact = Head(wire[n][c]) = <<"body", worker[n][c].label>>]
    /\ UNCHANGED <<up, sock, rst, used, faults, torn, registry, entry, mon, acc, backlog, sent, got>>

\* recv_all fails: end of file clears m_connected, an error does not.
WorkRecvFails(n, c) ==
    /\ WorkAt(n, c, "head") \/ WorkAt(n, c, "body")
    /\ \/ AtEof(n, c) /\ sock' = [sock EXCEPT ![n][c] = "shut"]
       \/ RecvError(n, c) /\ sock' = sock
    /\ WorkGoto(n, c, "exit")
    /\ UNCHANGED <<up, wire, rst, used, faults, torn, registry, entry, mon, acc, backlog, sent, got>>

\* distribute_recvd_label
WorkDistribute(n, c) ==
    /\ WorkAt(n, c, "distribute")
    /\ got' = [got EXCEPT ![n] = [label |-> worker[n][c].label,
                                  intact |-> @.intact /\ worker[n][c].intact]]
    /\ WorkGoto(n, c, "loop")
    /\ UNCHANGED <<net, registry, entry, mon, acc, backlog, sent>>

Work(n, c) ==
    \/ WorkLoop(n, c) \/ WorkHead(n, c) \/ WorkBody(n, c)
    \/ WorkRecvFails(n, c) \/ WorkDistribute(n, c)

-----------------------------------------------------------------------------
(* The remote send worker: TcpSendPlan::send_one *)

NextLabel(n) ==
    /\ up[n] /\ n \in Talkers /\ sent[n] < MaxMsgs /\ registry[n] # None
    /\ sent' = [sent EXCEPT ![n] = @ + 1]
    /\ UNCHANGED <<up, used, registry, entry, worker, mon, acc, backlog, got>>

SendLabel(n) ==
    /\ NextLabel(n)
    /\ Send(n, registry[n], Label(sent[n] + 1))
    /\ UNCHANGED <<sock, faults, torn>>

\* TCPClient::send writes less than it was given, and nobody asks how much.
SendPart(n) ==
    /\ NextLabel(n) /\ "partial" \in FaultKinds /\ faults < MaxFaults
    /\ Send(n, registry[n], <<Head(Label(sent[n] + 1))>>)
    /\ faults' = faults + 1
    /\ torn' = torn \union {registry[n]}
    /\ UNCHANGED sock

\* The job holds a socket that is closed since, or the send fails; some
\* errors clear m_connected.
SendFails(n) ==
    /\ NextLabel(n)
    /\ \/ \E c \in Conns : ~Open(n, c) /\ sock[n][c] # "none" /\ sock' = sock
       \/ /\ Open(n, registry[n]) /\ rst[registry[n]]
          /\ \/ sock' = [sock EXCEPT ![n][registry[n]] = "shut"]
             \/ sock' = sock
    /\ UNCHANGED <<wire, rst, faults, torn>>

-----------------------------------------------------------------------------
(* Faults *)

\* A reset by the network, or because an end is closed.
Reset(c) ==
    /\ c <= used /\ ~rst[c]
    /\ rst' = [rst EXCEPT ![c] = TRUE]
    /\ \/ /\ \E n \in Nodes : sock[n][c] \in {"closed", "gone"}
          /\ faults' = faults
       \/ /\ \A n \in Nodes : sock[n][c] \notin {"closed", "gone"}
          /\ "reset" \in FaultKinds /\ faults < MaxFaults
          /\ faults' = faults + 1
    /\ UNCHANGED <<up, sock, wire, used, torn, registry, entry, worker, mon, acc, backlog, sent, got>>

\* A process ends, which closes its sockets, or its machine does, which tells
\* nobody.
Crash(n, kind, end) ==
    /\ up[n] /\ kind \in FaultKinds /\ faults < MaxFaults
    /\ faults' = faults + 1
    /\ up' = [up EXCEPT ![n] = FALSE]
    /\ sock' = [sock EXCEPT ![n] = [c \in Conns |-> IF HandleValid(n, c) THEN end ELSE @[c]]]
    /\ wire' = [wire EXCEPT ![n] = [c \in Conns |-> <<>>]]
    /\ registry' = [registry EXCEPT ![n] = None]
    /\ entry' = [entry EXCEPT ![n] = None]
    /\ worker' = [worker EXCEPT ![n] = [c \in Conns |-> NoWorker]]
    /\ mon' = [mon EXCEPT ![n] = Idle("sleep")]
    /\ acc' = [acc EXCEPT ![n] = Idle("accept")]
    /\ backlog' = [backlog EXCEPT ![n] = <<>>]
    /\ UNCHANGED <<rst, used, torn, sent, got>>

Restart(n) ==
    /\ ~up[n]
    /\ up' = [up EXCEPT ![n] = TRUE]
    /\ UNCHANGED <<sock, wire, rst, used, faults, torn, registry, entry, worker, mon, acc, backlog, sent, got>>

-----------------------------------------------------------------------------
Init ==
    /\ up = [n \in Nodes |-> TRUE]
    /\ registry = [n \in Nodes |-> None] /\ entry = [n \in Nodes |-> None]
    /\ worker = [n \in Nodes |-> [c \in Conns |-> NoWorker]]
    /\ mon = [n \in Nodes |-> Idle("sleep")] /\ acc = [n \in Nodes |-> Idle("accept")]
    /\ backlog = [n \in Nodes |-> <<>>]
    /\ sock = [n \in Nodes |-> [c \in Conns |-> "none"]]
    /\ wire = [n \in Nodes |-> [c \in Conns |-> <<>>]]
    /\ rst = [c \in Conns |-> FALSE]
    /\ used = 0 /\ faults = 0 /\ torn = {}
    /\ sent = [n \in Nodes |-> 0]
    /\ got = [n \in Nodes |-> [label |-> 0, intact |-> TRUE]]

Next ==
    \/ \E n \in Nodes :
          \/ Monitor(n) \/ Acceptor(n) \/ SendLabel(n) \/ SendPart(n) \/ SendFails(n)
          \/ Crash(n, "crash", "closed") \/ Crash(n, "vanish", "gone") \/ Restart(n)
          \/ \E c \in Conns : Work(n, c)
    \/ \E c \in Conns : Reset(c)

Spec == Init /\ [][Next]_vars

\* Threads run and processes are restarted; nothing is said about faults or
\* about what the applications send.
Fairness ==
    \A n \in Nodes :
        /\ WF_vars(Monitor(n)) /\ WF_vars(Acceptor(n)) /\ WF_vars(Restart(n))
        /\ \A c \in Conns : WF_vars(Work(n, c))
LiveSpec == Spec /\ Fairness

-----------------------------------------------------------------------------
(* Properties *)

\* Every variable has its type.
TypeOK ==
    /\ up \in [Nodes -> BOOLEAN]
    /\ registry \in [Nodes -> Conns \union {None}] /\ entry \in [Nodes -> Conns \union {None}]
    /\ worker \in [Nodes -> [Conns ->
         [pc : {"none", "loop", "head", "body", "distribute", "exit"},
          stop : BOOLEAN, label : 0 .. MaxMsgs, intact : BOOLEAN]]]
    /\ mon \in [Nodes ->
         [pc : {"sleep", "ping", "stop", "join", "connect", "ident", "register", "start"},
          conn : Conns \union {None}]]
    /\ acc \in [Nodes -> [pc : {"accept", "ident", "register", "start"}, conn : Conns \union {None}]]
    /\ backlog \in [Nodes -> Seq(Conns)]
    /\ sock \in [Nodes -> [Conns -> {"none", "open", "shut", "closed", "gone"}]]
    /\ wire \in [Nodes -> [Conns -> Seq(Unit)]]
    /\ \A n \in Nodes, c \in Conns : Len(wire[n][c]) <= Buf
    /\ rst \in [Conns -> BOOLEAN]
    /\ used \in 0 .. MaxConns /\ faults \in 0 .. MaxFaults /\ torn \subseteq Conns
    /\ sent \in [Nodes -> 0 .. MaxMsgs]
    /\ got \in [Nodes -> [label : 0 .. MaxMsgs, intact : BOOLEAN]]

Reading(n) == {c \in Conns : worker[n][c].pc \in {"loop", "head", "body", "distribute"}}

\* "only 1 thread listens to each sockets incoming messages" (tcp_socket.h):
\* whatever the accept thread and the monitor do to each other, a node never
\* runs two workers for a peer, the running one is the one entered in the map,
\* so that stop reaches it, and the accept thread reads no socket a worker reads.
OneReader ==
    \A n \in Nodes :
        /\ Reading(n) \subseteq {entry[n]}
        /\ acc[n].pc = "ident" => acc[n].conn \notin Reading(n)

\* Labels of a peer are handed on in the order in which the peer sent them, none
\* twice, over all reconnections, restarts included; and unchanged, as long as no
\* send has written only a part of a label.
InOrder ==
    [][\A n \in Nodes, c \in Conns : WorkDistribute(n, c) =>
          got'[n].label > got[n].label /\ (got'[n].intact \/ torn # {})]_vars

Healthy(c) ==
    /\ ~rst[c] /\ c \notin torn
    /\ \A n \in Nodes : sock[n][c] = "open"

\* Nobody disconnects a connection that works: not the monitor that looks at a
\* socket which is being replaced, not upsert_socket, not a worker.
HealthySurvives ==
    [][\A c \in Conns : Healthy(c) /\ faults' = faults =>
          \A n \in Nodes : sock'[n][c] = "open"]_vars

Connected(n) == registry[n] # None /\ Open(n, registry[n])

\* A machine went away without a FIN or a reset.  The code sets neither a
\* receive timeout nor keep-alive, so whoever reads from it may wait for ever.
Vanished == \E n \in Nodes, c \in Conns : sock[n][c] = "gone"

Served(n) == Connected(n) /\ registry[n] \in Reading(n)

\* Once the faults stop, the two nodes end up registered with the two ends of
\* one open connection, and the node that connects has a worker that reads it.
Reconnects == <>[]((registry[Lo] = registry[Hi] /\ Connected(Lo) /\ Served(Hi)) \/ Vanished)

\* The comment in SocketRecvWorker::stop, "upon reconnection the socket recv
\* worker thread will be re-launched", for the node that accepts.
AcceptorServed == <>[]Served(Lo)

\* Neither the monitor's join nor the accept thread's wait for the first
\* header of a client lasts for ever, while the peer's process is restarted.
NobodyStuck ==
    \A n \in Nodes :
        /\ []<>(mon[n].pc # "join" \/ Vanished)
        /\ []<>(acc[n].pc # "ident" \/ Vanished)
=============================================================================
