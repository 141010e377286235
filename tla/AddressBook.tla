---------------------------- MODULE AddressBook ----------------------------
(***************************************************************************)
(* How the nodes find each other: init_address_book reads etc/peer_ips.cfg *)
(* row by row, every node gives each peer a route kind, and the peers of a *)
(* node are split into those it reaches by shared memory, those it reaches *)
(* by TCP, and those of the latter that it is the one to connect to.       *)
(*                                                                         *)
(* All nodes read the same file and run in the same mode, but each         *)
(* computes its kinds alone; the two ends of a link have to agree.         *)
(***************************************************************************)
EXTENDS Integers, Sequences, FiniteSets

CONSTANTS
    Ids,      \* valid node numbers that occur in the file
    Ips,      \* addresses that occur in the file
    Ports,    \* ports that occur in the file
    PortBits, \* 16, the width of a port, scaled down
    MaxRows   \* bound: rows of the file

ASSUME AddressAssumption ==
    Ids \subseteq Nat /\ Ports \subseteq Int /\ PortBits \in Nat \ {0} /\ MaxRows \in Nat

INVALID_NODE == -1
Modes == {"Normal", "ShmOnly", "SocketOnly", "SimNetwork"}
Rows == [id : Ids \union {INVALID_NODE}, ip : Ips, port : Ports]

VARIABLES
    file,  \* the rows that are not comments
    mode,  \* ManagerMode
    pos,   \* rows read so far
    book   \* the address book: rows by node number

vars == <<file, mode, pos, book>>

-----------------------------------------------------------------------------
(* Reading the file *)

\* static_cast<int16_t>(std::stoi(row[2]))
ToSigned(p) == LET m == p % 2^PortBits
               IN  IF m < 2^(PortBits - 1) THEN m ELSE m - 2^PortBits

\* Mutant: a later row replaces an earlier one.
Skipped_Replace(b, row) == row.id <= INVALID_NODE \/ ToSigned(row.port) < 0
\* Invalid node, invalid port or a number that is already in the book.
Skipped(b, row) ==
    row.id <= INVALID_NODE \/ ToSigned(row.port) < 0 \/ row.id \in DOMAIN b

\* One pass of the loop over the rows.
ReadRow ==
    /\ pos < Len(file)
    /\ pos' = pos + 1
    /\ LET row == file[pos + 1]
       IN  book' = IF Skipped(book, row) THEN book
                   ELSE [i \in DOMAIN book \union {row.id} |->
                           IF i = row.id THEN [ip |-> row.ip, port |-> ToSigned(row.port)]
                           ELSE book[i]]
    /\ UNCHANGED <<file, mode>>

Loaded == pos = Len(file)

-----------------------------------------------------------------------------
(* What node me makes of the book *)

\* init_address_book, "set up route kinds".
NormalKind(ip, me, id) ==
    IF id = me THEN "Self" ELSE IF ip[id] = ip[me] THEN "Shm" ELSE "Socket"

\* all_shm_address_book, all_socket_address_book
AllShm(me, id)    == IF id = me THEN "Self" ELSE "Shm"
AllSocket(me, id) == IF id = me THEN "Self" ELSE "Socket"

\* Mutant: only the parity of the peer is looked at.
SimKind_PeerOnly(me, id) ==
    IF id = me THEN "Self" ELSE IF id % 2 = 0 THEN "Shm" ELSE "Socket"
\* test_network_address_book
SimKind(me, id) ==
    IF id = me THEN "Self"
    ELSE IF me % 2 = 0 THEN (IF id % 2 = 0 THEN "Shm" ELSE "Socket")
    ELSE (IF id % 2 = 0 THEN "Socket" ELSE "Shm")

\* The switch of init_manager over the modes.
RouteKind(md, ip, me, id) ==
    CASE md = "Normal"     -> NormalKind(ip, me, id)
      [] md = "ShmOnly"    -> AllShm(me, id)
      [] md = "SocketOnly" -> AllSocket(me, id)
      [] md = "SimNetwork" -> SimKind(me, id)

\* get_peer_set and connect_to_remote_peer: connect to smaller numbers only.
ConnectsTo(me, id) == id < me

Ip == [i \in DOMAIN book |-> book[i].ip]
Local(me)   == {i \in DOMAIN book : RouteKind(mode, Ip, me, i) \in {"Self", "Shm"}}
Remote(me)  == {i \in DOMAIN book : RouteKind(mode, Ip, me, i) = "Socket"}
RemoteConnectTo(me) == {i \in Remote(me) : ConnectsTo(me, i)}

-----------------------------------------------------------------------------
Files == UNION {[1 .. n -> Rows] : n \in 0 .. MaxRows}

Init ==
    /\ file \in Files /\ mode \in Modes
    /\ pos = 0
    /\ book = [i \in {} |-> 0]

Next == ReadRow

Spec == Init /\ [][Next]_vars

-----------------------------------------------------------------------------
(* Properties *)

\* The two ends of a link choose the same transport, whatever the mode, and of
\* two nodes that talk by TCP exactly one connects: with none there would be
\* no connection, with both the later one would displace the earlier.
Reciprocal ==
    Loaded => \A a, b \in DOMAIN book :
        /\ a \in Local(b) <=> b \in Local(a)
        /\ a \in Remote(b) => (a \in RemoteConnectTo(b) <=> b \notin RemoteConnectTo(a))

\* The book gives a node the address of its first usable row, and a port that
\* was valid is not altered by the narrowing to 16 bits.
FirstRowWins ==
    \A i \in DOMAIN book : \E k \in 1 .. pos :
        /\ file[k].id = i /\ file[k].ip = book[i].ip
        /\ file[k].port \in 0 .. 2^PortBits - 1 => file[k].port = book[i].port
        /\ \A j \in 1 .. k - 1 : file[j].id = i => ToSigned(file[j].port) < 0
=============================================================================
