------------------------- MODULE AddressBookProofs -------------------------
(***************************************************************************)
(* The two ends of a link agree, and the book holds the first usable row   *)
(* of each node, for every file, mode and set of nodes.                    *)
(***************************************************************************)
EXTENDS AddressBook, TLAPS

\* The parity rule of test_network_address_book does not depend on which end
\* applies it.
LEMMA SimSymmetric ==
    ASSUME NEW a \in Nat, NEW b \in Nat
    PROVE  SimKind(a, b) = SimKind(b, a)
BY DEF SimKind

\* Nor does the kind of a route in any mode.
LEMMA KindSymmetric ==
    ASSUME NEW a \in Nat, NEW b \in Nat, NEW md \in Modes, NEW ip
    PROVE  RouteKind(md, ip, a, b) = RouteKind(md, ip, b, a)
BY SimSymmetric DEF RouteKind, NormalKind, AllShm, AllSocket, Modes

\* A node is never its own remote peer.
LEMMA SelfIsLocal ==
    ASSUME NEW a \in Nat, NEW md \in Modes, NEW ip
    PROVE  RouteKind(md, ip, a, a) = "Self"
BY DEF RouteKind, NormalKind, AllShm, AllSocket, SimKind, Modes

\* What the book and the mode always satisfy: only numbers of the file's
\* valid nodes get into the book.
BookOK == mode \in Modes /\ file \in Files /\ pos \in 0 .. Len(file) /\ DOMAIN book \subseteq Ids

\* Init and every row that is read keep BookOK.
LEMMA BookInvariant == Spec => []BookOK
<1>1. Init => BookOK
  BY DEF Init, BookOK, Files
<1>2. BookOK /\ [Next]_vars => BookOK'
  <2>1. SUFFICES ASSUME BookOK, ReadRow PROVE BookOK'
    BY DEF Next, vars, BookOK
  <2>2. /\ mode' = mode /\ file' = file
        /\ pos' \in 0 .. Len(file)
    <3>1. Len(file) \in Nat
      BY <2>1 DEF BookOK, Files
    <3>2. QED
      BY <2>1, <3>1 DEF BookOK, ReadRow
  <2>3. file[pos + 1] \in Rows
    <3>1. PICK k \in 0 .. MaxRows : file \in [1 .. k -> Rows]
      BY <2>1 DEF BookOK, Files
    <3>2. k \in Nat /\ Len(file) = k
      BY <3>1, AddressAssumption
    <3>3. QED
      BY <2>1, <3>1, <3>2 DEF BookOK, ReadRow
  <2>4. DOMAIN book' \subseteq Ids
    <3>1. CASE Skipped(book, file[pos + 1])
      BY <2>1, <3>1 DEF BookOK, ReadRow
    <3>2. CASE ~Skipped(book, file[pos + 1])
      <4>1. file[pos + 1].id \in Ids
        BY <2>3, <3>2 DEF Rows, Skipped, INVALID_NODE
      <4>2. DOMAIN book' = DOMAIN book \union {file[pos + 1].id}
        BY <2>1, <3>2 DEF ReadRow
      <4>3. QED
        BY <2>1, <4>1, <4>2 DEF BookOK
    <3>3. QED
      BY <3>1, <3>2
  <2>5. QED
    BY <2>1, <2>2, <2>4 DEF BookOK
<1>3. QED
  BY <1>1, <1>2, PTL DEF Spec

\* Whatever the file, the mode and the node numbers, the two ends of a link
\* choose the same transport and exactly one of them connects.
THEOREM EndsAgree == Spec => []Reciprocal
<1>1. BookOK => Reciprocal
  <2>1. SUFFICES ASSUME BookOK, NEW a \in DOMAIN book, NEW b \in DOMAIN book
                 PROVE  /\ a \in Local(b) <=> b \in Local(a)
                        /\ a \in Remote(b) =>
                             (a \in RemoteConnectTo(b) <=> b \notin RemoteConnectTo(a))
    BY DEF Reciprocal
  <2>2. a \in Nat /\ b \in Nat /\ mode \in Modes
    BY <2>1, AddressAssumption DEF BookOK
  <2>3. RouteKind(mode, Ip, a, b) = RouteKind(mode, Ip, b, a)
    BY <2>2, KindSymmetric
  <2>4. a \in Local(b) <=> b \in Local(a)
    BY <2>3 DEF Local
  <2>5. ASSUME a \in Remote(b)
        PROVE  a \in RemoteConnectTo(b) <=> b \notin RemoteConnectTo(a)
    <3>1. b \in Remote(a)
      BY <2>3, <2>5 DEF Remote
    <3>2. a # b
      BY <2>2, <2>5, SelfIsLocal DEF Remote
    <3>3. ConnectsTo(b, a) <=> ~ConnectsTo(a, b)
      BY <2>2, <3>2 DEF ConnectsTo
    <3>4. QED
      BY <2>5, <3>1, <3>3 DEF RemoteConnectTo
  <2>6. QED
    BY <2>4, <2>5
<1>2. QED
  BY <1>1, BookInvariant, PTL

-----------------------------------------------------------------------------
(* The first usable row *)

\* A port of PortBits bits that the narrowing does not make negative is not
\* altered by it.
LEMMA NarrowingKeeps ==
    ASSUME NEW p \in 0 .. 2^PortBits - 1, ~(ToSigned(p) < 0)
    PROVE  ToSigned(p) = p
<1>1. 2^PortBits \in Int
  BY AddressAssumption
<1>2. p % 2^PortBits = p
  BY <1>1
<1>3. QED
  BY <1>1, <1>2 DEF ToSigned

\* Row k is the one the book has for node i: the first of the node's rows
\* whose narrowed port is not negative.
IsRowOf(k, i) ==
    /\ file[k].id = i /\ file[k].ip = book[i].ip
    /\ file[k].port \in 0 .. 2^PortBits - 1 => file[k].port = book[i].port
    /\ \A j \in 1 .. k - 1 : file[j].id = i => ToSigned(file[j].port) < 0

\* A node that is not in the book has had no usable row yet: without it a new
\* entry could not be said to come from the first one.
AbsentUnusable ==
    \A i \in Ids \ DOMAIN book : \A j \in 1 .. pos :
        file[j].id = i => ToSigned(file[j].port) < 0

\* What reading a row keeps.
FirstInv ==
    /\ BookOK
    /\ \A i \in DOMAIN book : \E k \in 1 .. pos : IsRowOf(k, i)
    /\ AbsentUnusable

\* A row of the file that is about to be read has the type of a row.
LEMMA RowType ==
    ASSUME BookOK, pos < Len(file)
    PROVE  file[pos + 1] \in Rows /\ pos \in Nat
<1>1. PICK k \in 0 .. MaxRows : file \in [1 .. k -> Rows]
  BY DEF BookOK, Files
<1>2. k \in Nat /\ Len(file) = k
  BY <1>1, AddressAssumption
<1>3. QED
  BY <1>1, <1>2 DEF BookOK

\* Reading a row keeps FirstInv: a skipped row leaves the book as it is, and
\* one that is taken is the first usable row of a node that was absent.
LEMMA ReadRowFirst ==
    ASSUME FirstInv, ReadRow, BookOK'
    PROVE  FirstInv'
<1>0. PICK row, this : row = file[pos + 1] /\ this = pos + 1
  OBVIOUS
<1>1. row \in Rows /\ pos \in Nat /\ pos' = pos + 1 /\ file' = file
  BY <1>0, RowType DEF FirstInv, ReadRow
<1>2. row.id \in Ids \union {INVALID_NODE} /\ row.port \in Int
  BY <1>1, AddressAssumption DEF Rows
<1>3. CASE Skipped(book, row)
  <2>1. book' = book
    BY <1>0, <1>3 DEF ReadRow
  <2>2. \A i \in DOMAIN book' : \E k \in 1 .. pos' : IsRowOf(k, i)'
    BY <1>1, <2>1 DEF FirstInv, IsRowOf
  <2>3. ASSUME NEW i \in Ids \ DOMAIN book, row.id = i
        PROVE  ToSigned(row.port) < 0
    <3>1. i > INVALID_NODE
      BY AddressAssumption DEF INVALID_NODE
    <3>2. QED
      BY <1>3, <2>3, <3>1, AddressAssumption DEF Skipped, INVALID_NODE
  <2>4. ASSUME NEW i \in Ids \ DOMAIN book, NEW j \in 1 .. pos + 1, file[j].id = i
        PROVE  ToSigned(file[j].port) < 0
    <3>1. CASE j = pos + 1
      BY <1>0, <2>3, <2>4, <3>1
    <3>2. CASE j \in 1 .. pos
      BY <2>4, <3>2 DEF FirstInv, AbsentUnusable
    <3>3. QED
      BY <1>1, <3>1, <3>2
  <2>5. AbsentUnusable'
    BY <1>1, <2>1, <2>4 DEF AbsentUnusable
  <2>6. QED
    BY <2>2, <2>5 DEF FirstInv
<1>4. CASE ~Skipped(book, row)
  <2>1. row.id \in Ids /\ ~(ToSigned(row.port) < 0) /\ row.id \notin DOMAIN book
    BY <1>2, <1>4 DEF Skipped, INVALID_NODE
  <2>2. /\ DOMAIN book' = DOMAIN book \union {row.id}
        /\ book'[row.id] = [ip |-> row.ip, port |-> ToSigned(row.port)]
        /\ \A i \in DOMAIN book : book'[i] = book[i]
    BY <1>0, <1>4, <2>1 DEF ReadRow
  <2>3. IsRowOf(this, row.id)'
    <3>1. row.port \in 0 .. 2^PortBits - 1 => row.port = book'[row.id].port
      BY <2>1, <2>2, NarrowingKeeps
    <3>2. \A j \in 1 .. pos : file[j].id = row.id => ToSigned(file[j].port) < 0
      BY <2>1 DEF FirstInv, AbsentUnusable
    <3>3. row.ip = book'[row.id].ip
      BY <2>2
    <3>4. this - 1 = pos
      BY <1>0, <1>1
    <3>5. QED
      BY <1>0, <1>1, <3>1, <3>2, <3>3, <3>4 DEF IsRowOf
  <2>4. ASSUME NEW i \in DOMAIN book PROVE \E k \in 1 .. pos' : IsRowOf(k, i)'
    <3>1. PICK k \in 1 .. pos : IsRowOf(k, i)
      BY DEF FirstInv
    <3>2. IsRowOf(k, i)'
      BY <1>1, <2>2, <3>1 DEF IsRowOf
    <3>3. QED
      BY <1>1, <3>1, <3>2
  <2>5. \A i \in DOMAIN book' : \E k \in 1 .. pos' : IsRowOf(k, i)'
    <3>1. this \in 1 .. pos'
      BY <1>0, <1>1
    <3>2. QED
      BY <2>2, <2>3, <2>4, <3>1
  <2>6. AbsentUnusable'
    <3>1. ASSUME NEW i \in Ids \ DOMAIN book', NEW j \in 1 .. pos + 1, file[j].id = i
          PROVE  ToSigned(file[j].port) < 0
      <4>1. i \in Ids \ DOMAIN book /\ i # row.id
        BY <2>2, <3>1
      <4>2. j \in 1 .. pos
        BY <1>0, <1>1, <3>1, <4>1
      <4>3. QED
        BY <3>1, <4>1, <4>2 DEF FirstInv, AbsentUnusable
    <3>2. QED
      BY <1>1, <3>1 DEF AbsentUnusable
  <2>7. QED
    BY <2>5, <2>6 DEF FirstInv
<1>5. QED
  BY <1>3, <1>4

\* Whatever the file, the book gives a node the address of the first of its
\* rows with a usable port, and the port as the file has it if that fits the
\* width of a port.
THEOREM FirstRowKept == Spec => []FirstRowWins
<1>1. Init => FirstInv
  <2>1. SUFFICES ASSUME Init PROVE FirstInv
    OBVIOUS
  <2>2. DOMAIN book = {} /\ pos = 0
    BY <2>1 DEF Init
  <2>3. BookOK
    BY <2>1 DEF Init, BookOK, Files
  <2>4. QED
    BY <2>2, <2>3 DEF FirstInv, AbsentUnusable
<1>2. FirstInv /\ [Next]_vars /\ BookOK' => FirstInv'
  <2>1. CASE Next
    BY <2>1, ReadRowFirst DEF Next
  <2>2. CASE UNCHANGED vars
    BY <2>2 DEF vars, FirstInv, AbsentUnusable, IsRowOf, BookOK
  <2>3. QED
    BY <2>1, <2>2
<1>3. FirstInv => FirstRowWins
  BY DEF FirstInv, FirstRowWins, IsRowOf
<1>4. QED
  BY <1>1, <1>2, <1>3, BookInvariant, PTL DEF Spec
=============================================================================
