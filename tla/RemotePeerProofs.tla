-------------------------- MODULE RemotePeerProofs --------------------------
(***************************************************************************)
(* Two nodes that talk by TCP, for any number of connections, labels and   *)
(* faults: one thread reads a connection, labels arrive in order, and no   *)
(* connection that works is closed.                                        *)
(***************************************************************************)
EXTENDS RemotePeer, SequenceTheorems, TLAPS

-----------------------------------------------------------------------------
(* What is on the wire of a connection. *)

HeadsOf(w) == {k \in 1 .. MaxMsgs : \E i \in 1 .. Len(w) : w[i] = <<"head", k>>}

\* Labels follow each other in the order in which they were sent.
Ordered(w) ==
    \A i, j \in 1 .. Len(w), k, l \in 1 .. MaxMsgs :
        i < j /\ w[i] = <<"head", k>> /\ w[j] = <<"head", l>> => k < l

\* Every header is followed by its payload, and nothing else is a payload.
Framed(w) ==
    /\ \A i \in 1 .. Len(w), k \in 1 .. MaxMsgs :
          w[i] = <<"head", k>> => i < Len(w) /\ w[i + 1] = <<"body", k>>
    /\ \A i \in 1 .. Len(w), k \in 1 .. MaxMsgs :
          w[i] = <<"body", k>> => i > 1 /\ w[i - 1] = <<"head", k>>

IdUnit == <<"id", 0>>
NoId(w) == \A i \in 1 .. Len(w) : w[i] # IdUnit

-----------------------------------------------------------------------------
(* The inductive invariant. *)

InBacklog(n) == {backlog[n][i] : i \in 1 .. Len(backlog[n])}
\* Connections of n that are made but not registered.
Pending(n) ==
    InBacklog(n) \union {c \in Conns :
        \/ acc[n].pc \in {"ident", "register"} /\ acc[n].conn = c
        \/ mon[n].pc \in {"ident", "register"} /\ mon[n].conn = c}
\* Those whose client has not been identified.
Waiting == InBacklog(Lo) \union {c \in Conns : acc[Lo].pc = "ident" /\ acc[Lo].conn = c}
Starting(n) == mon[n].pc = "start" \/ acc[n].pc = "start"

\* Only Hi connects and only Lo accepts.
RoleInv ==
    /\ mon[Lo].pc \notin {"ident", "register", "start"}
    /\ acc[Hi].pc = "accept" /\ backlog[Hi] = <<>>

\* A newer connection has a larger number.
PlaceInv ==
    /\ \A n \in Nodes : entry[n] <= registry[n] /\ registry[n] <= used
    /\ acc[Lo].pc \in {"ident", "register"} => registry[Lo] < acc[Lo].conn /\ acc[Lo].conn <= used
    /\ mon[Hi].pc \in {"ident", "register"} => registry[Hi] < mon[Hi].conn /\ mon[Hi].conn = used
    /\ mon[Hi].pc = "ping" => mon[Hi].conn = registry[Hi]
    /\ mon[Lo].pc = "ping" => mon[Lo].conn <= registry[Lo]
    /\ \A i \in 1 .. Len(backlog[Lo]) :
          /\ registry[Lo] < backlog[Lo][i] /\ backlog[Lo][i] <= used
          /\ acc[Lo].pc \in {"ident", "register"} => acc[Lo].conn < backlog[Lo][i]
    /\ \A i, j \in 1 .. Len(backlog[Lo]) : i < j => backlog[Lo][i] < backlog[Lo][j]

\* The workers: none is started twice on a connection.
WorkerInv ==
    /\ \A n \in Nodes : Reading(n) \subseteq {entry[n]}
    /\ \A n \in Nodes, c \in Conns : worker[n][c].pc # "none" =>
          c <= registry[n] /\ (Starting(n) => c < registry[n])

\* A node keeps one socket besides those it has not registered yet.
SockInv ==
    /\ \A n \in Nodes, c \in Conns : ~HandleValid(n, c) => wire[n][c] = <<>>
    /\ \A n \in Nodes, c \in Conns : HandleValid(n, c) => c = registry[n] \/ c \in Pending(n)
    /\ \A c \in Pending(Lo) : HandleValid(Lo, c)
    /\ \A c \in Conns : HandleValid(Hi, c) => c = used
    /\ mon[Hi].pc \in {"stop", "join", "connect"} => \A c \in Conns : ~HandleValid(Hi, c)

\* A client's header comes first, and once.
IdRow(c) ==
    /\ NoId(wire[Hi][c])
    /\ c \notin Waiting => NoId(wire[Lo][c])
    /\ c \in Waiting /\ wire[Lo][c] # <<>> => Head(wire[Lo][c]) = IdUnit /\ NoId(Tail(wire[Lo][c]))
    /\ mon[Hi].pc = "ident" /\ mon[Hi].conn = c =>
          wire[Lo][c] = <<>> /\ (HandleValid(Lo, c) => c \in Waiting)
    /\ c \in Waiting /\ (registry[Hi] = c \/ (mon[Hi].pc = "register" /\ mon[Hi].conn = c)) =>
          wire[Lo][c] # <<>>
IdInv == \A c \in Conns : IdRow(c)

\* Labels on the wires, in the workers and handed on.
OrderRow(n, c) ==
    /\ c \in Reading(n) => worker[n][c].label <= sent[Other(n)]
    /\ worker[n][c].pc \in {"body", "distribute"} => worker[n][c].label > got[n].label
    /\ Ordered(wire[n][c])
    /\ \A k \in HeadsOf(wire[n][c]) :
          /\ k <= sent[Other(n)] /\ k > got[n].label
          /\ \A d \in Reading(n) : k > worker[n][d].label
          /\ \A d \in Conns : c < d => \A l \in HeadsOf(wire[n][d]) : k < l
\* Nothing is sent on a connection that is not registered yet.
Silent(n, c) == \A d \in Conns : c <= d => HeadsOf(wire[Other(n)][d]) = {}
OrderInv ==
    \A n \in Nodes :
        /\ got[n].label <= sent[Other(n)]
        /\ \A c \in Conns : OrderRow(n, c)
        /\ registry[n] # None => Silent(n, registry[n] + 1)
        /\ \A c \in Pending(n) : Silent(n, c)

\* Where no send was partial, a worker that expects a payload gets its own.
FrameRow(n, c) ==
    /\ worker[n][c].pc \in {"none", "loop", "head", "distribute"} => Framed(wire[n][c])
    /\ worker[n][c].pc = "body" /\ HandleValid(n, c) =>
          /\ wire[n][c] # <<>> /\ Head(wire[n][c]) = <<"body", worker[n][c].label>>
          /\ Framed(Tail(wire[n][c]))
    /\ worker[n][c].pc = "distribute" => worker[n][c].intact
FrameInv ==
    \A n \in Nodes : /\ torn = {} => got[n].intact
                     /\ \A c \in Conns \ torn : FrameRow(n, c)

CInv == TypeOK /\ RoleInv /\ PlaceInv /\ WorkerInv /\ SockInv
IInv == CInv /\ IdInv /\ OrderInv /\ FrameInv

-----------------------------------------------------------------------------
(* Wires. *)

LEMMA NodeFact ==
    /\ Lo \in Nodes /\ Hi \in Nodes /\ Lo # Hi /\ Other(Lo) = Hi /\ Other(Hi) = Lo
    /\ \A n \in Nodes : (n = Lo \/ n = Hi) /\ Other(n) \in Nodes /\ Other(n) # n /\ Other(Other(n)) = n
    /\ \A n \in Nodes : MayConnect(n) <=> n = Hi
  <1>1. Lo \in Nodes /\ Hi \in Nodes /\ Lo # Hi /\ Other(Lo) = Hi /\ Other(Hi) = Lo
    BY PeerAssumption DEF Nodes, Other
  <1>2. \A n \in Nodes : (n = Lo \/ n = Hi) /\ Other(n) \in Nodes /\ Other(n) # n /\ Other(Other(n)) = n
    BY <1>1 DEF Nodes
  <1>3. \A n \in Nodes : MayConnect(n) <=> n = Hi
    BY <1>1, <1>2, PeerAssumption DEF MayConnect, Address!ConnectsTo
  <1> QED
    BY <1>1, <1>2, <1>3

LEMMA UnitFact ==
    ASSUME NEW u \in Unit
    PROVE  /\ u[2] \in 0 .. MaxMsgs
           /\ \/ u = IdUnit /\ u[1] = "id"
              \/ u = <<"ping", 0>> /\ u[1] = "ping"
              \/ u[1] = "head" /\ u[2] \in 1 .. MaxMsgs /\ u = <<"head", u[2]>>
              \/ u[1] = "body" /\ u[2] \in 1 .. MaxMsgs /\ u = <<"body", u[2]>>
  BY PeerAssumption DEF Unit, IdUnit

LEMMA UnitsDiffer ==
    \A k, l \in Nat : /\ <<"head", k>> # <<"body", l>> /\ <<"head", k>> # IdUnit /\ <<"body", k>> # IdUnit
                      /\ <<"head", k>> # <<"ping", 0>> /\ <<"body", k>> # <<"ping", 0>>
                      /\ <<"ping", 0>> # IdUnit
                      /\ <<"head", k>> = <<"head", l>> => k = l
  BY DEF IdUnit

LEMMA EmptyWire ==
    /\ <<>> \in Seq(Unit) /\ Len(<<>>) = 0 /\ HeadsOf(<<>>) = {} /\ Ordered(<<>>) /\ Framed(<<>>) /\ NoId(<<>>)
  <1>1. Len(<<>>) = 0 /\ 1 .. 0 = {} /\ <<>> \in Seq(Unit)
    BY EmptySeq
  <1> QED
    BY <1>1 DEF HeadsOf, Ordered, Framed, NoId

LEMMA TailWire ==
    ASSUME NEW w \in Seq(Unit), w # <<>>
    PROVE  /\ Tail(w) \in Seq(Unit) /\ Head(w) \in Unit /\ Len(Tail(w)) = Len(w) - 1 /\ Len(w) \in Nat \ {0}
           /\ HeadsOf(Tail(w)) \subseteq HeadsOf(w)
           /\ Ordered(w) => Ordered(Tail(w))
           /\ NoId(w) => NoId(Tail(w)) /\ Head(w) # IdUnit
           /\ \A k \in 1 .. MaxMsgs : Head(w) = <<"head", k>> =>
                 k \in HeadsOf(w) /\ (Ordered(w) => \A l \in HeadsOf(Tail(w)) : k < l)
           /\ Framed(w) => /\ Head(w)[1] # "body"
                           /\ Head(w)[1] # "head" => Framed(Tail(w))
                           /\ \A k \in 1 .. MaxMsgs : Head(w) = <<"head", k>> =>
                                 /\ Tail(w) # <<>> /\ Head(Tail(w)) = <<"body", k>>
                                 /\ Framed(Tail(Tail(w)))
  <1> DEFINE t == Tail(w)
  <1>1. /\ t \in Seq(Unit) /\ Len(t) = Len(w) - 1 /\ Len(w) \in Nat \ {0} /\ Head(w) = w[1] /\ w[1] \in Unit
        /\ \A i \in 1 .. Len(t) : t[i] = w[i + 1]
    OBVIOUS
  <1> HIDE DEF t
  <1>2. HeadsOf(t) \subseteq HeadsOf(w)
    BY <1>1 DEF HeadsOf
  <1>3. Ordered(w) => Ordered(t)
    <2> SUFFICES ASSUME Ordered(w), NEW i \in 1 .. Len(t), NEW j \in 1 .. Len(t),
                        NEW k \in 1 .. MaxMsgs, NEW l \in 1 .. MaxMsgs,
                        i < j, t[i] = <<"head", k>>, t[j] = <<"head", l>>
                 PROVE  k < l
      BY DEF Ordered
    <2>1. i + 1 \in 1 .. Len(w) /\ j + 1 \in 1 .. Len(w) /\ i + 1 < j + 1
          /\ w[i + 1] = <<"head", k>> /\ w[j + 1] = <<"head", l>>
      BY <1>1
    <2> QED
      BY <2>1 DEF Ordered
  <1>4. NoId(w) => NoId(t) /\ Head(w) # IdUnit
    BY <1>1 DEF NoId
  <1>5. ASSUME NEW k \in 1 .. MaxMsgs, Head(w) = <<"head", k>>
        PROVE  k \in HeadsOf(w) /\ (Ordered(w) => \A l \in HeadsOf(t) : k < l)
    <2>1. 1 \in 1 .. Len(w) /\ w[1] = <<"head", k>>
      BY <1>1, <1>5
    <2>2. ASSUME Ordered(w), NEW l \in HeadsOf(t) PROVE k < l
      <3>1. PICK i \in 1 .. Len(t) : t[i] = <<"head", l>>
        BY DEF HeadsOf
      <3>2. i + 1 \in 1 .. Len(w) /\ 1 < i + 1 /\ w[i + 1] = <<"head", l>> /\ l \in 1 .. MaxMsgs
        BY <1>1, <3>1 DEF HeadsOf
      <3> QED
        BY <2>1, <2>2, <3>2 DEF Ordered
    <2> QED
      BY <2>1, <2>2 DEF HeadsOf
  \* What follows position m + 1 keeps its frames.
  <1>6. ASSUME Framed(w), Head(w)[1] # "head" PROVE Framed(t)
    <2>1. ASSUME NEW i \in 1 .. Len(t), NEW k \in 1 .. MaxMsgs, t[i] = <<"head", k>>
          PROVE  i < Len(t) /\ t[i + 1] = <<"body", k>>
      <3>1. i + 1 \in 1 .. Len(w) /\ w[i + 1] = <<"head", k>>
        BY <1>1, <2>1, SMTT(60)
      <3>2. i + 1 < Len(w) /\ w[i + 1 + 1] = <<"body", k>>
        BY <1>6, <3>1 DEF Framed
      <3>3. i < Len(t) /\ i + 1 \in 1 .. Len(t)
        BY <1>1, <3>2
      <3> QED
        BY <1>1, <3>2, <3>3
    <2>2. ASSUME NEW i \in 1 .. Len(t), NEW k \in 1 .. MaxMsgs, t[i] = <<"body", k>>
          PROVE  i > 1 /\ t[i - 1] = <<"head", k>>
      <3>1. i + 1 \in 1 .. Len(w) /\ w[i + 1] = <<"body", k>>
        BY <1>1, <2>2
      <3>2. w[i] = <<"head", k>>
        <4>1. w[i + 1 - 1] = <<"head", k>>
          BY <1>6, <3>1 DEF Framed
        <4> QED
          BY <4>1
      <3>3. i # 1
        BY <1>1, <1>6, <3>2
      <3>4. i > 1 /\ i - 1 \in 1 .. Len(t) /\ i - 1 + 1 = i
        BY <1>1, <3>3
      <3> QED
        BY <1>1, <3>2, <3>4
    <2> QED
      BY <2>1, <2>2 DEF Framed
  <1>7. ASSUME Framed(w) PROVE Head(w)[1] # "body"
    <2> SUFFICES ASSUME Head(w)[1] = "body" PROVE FALSE
      OBVIOUS
    <2>1. w[1] = <<"body", w[1][2]>> /\ w[1][2] \in 1 .. MaxMsgs /\ 1 \in 1 .. Len(w)
      BY <1>1, UnitFact
    <2> QED
      BY <1>7, <2>1 DEF Framed
  <1>8. ASSUME Framed(w), NEW k \in 1 .. MaxMsgs, Head(w) = <<"head", k>>
        PROVE  t # <<>> /\ Head(t) = <<"body", k>> /\ Framed(Tail(t))
    <2>1. 1 < Len(w) /\ w[1 + 1] = <<"body", k>>
      BY <1>1, <1>8 DEF Framed
    <2>2. t # <<>> /\ Len(t) >= 1 /\ Head(t) = <<"body", k>> /\ t[1] = <<"body", k>>
      <3>1. Len(t) >= 1 /\ 1 \in 1 .. Len(t)
        BY <1>1, <2>1
      <3>2. t[1] = w[2]
        BY <1>1, <3>1
      <3>3. t # <<>>
        BY <3>1, EmptyWire
      <3> QED
        BY <1>1, <2>1, <3>1, <3>2, <3>3
    <2> DEFINE r == Tail(t)
    <2>3. r \in Seq(Unit) /\ Len(r) = Len(t) - 1 /\ \A i \in 1 .. Len(r) : r[i] = t[i + 1]
      BY <1>1, <2>2
    <2> HIDE DEF r
    <2>4. Len(r) = Len(w) - 2 /\ \A i \in 1 .. Len(r) : r[i] = w[i + 2]
      <3>1. Len(r) = Len(w) - 2
        BY <1>1, <2>3
      <3>2. ASSUME NEW i \in 1 .. Len(r) PROVE r[i] = w[i + 2]
        <4>1. i + 1 \in 1 .. Len(t) /\ i + 1 + 1 = i + 2
          BY <1>1, <2>3
        <4> QED
          BY <1>1, <2>3, <4>1
      <3> QED
        BY <3>1, <3>2
    <2>5. ASSUME NEW i \in 1 .. Len(r), NEW l \in 1 .. MaxMsgs, r[i] = <<"head", l>>
          PROVE  i < Len(r) /\ r[i + 1] = <<"body", l>>
      <3>1. i + 2 \in 1 .. Len(w) /\ w[i + 2] = <<"head", l>>
        BY <1>1, <2>4, <2>5
      <3>2. i + 2 < Len(w) /\ w[i + 2 + 1] = <<"body", l>>
        BY <1>8, <3>1 DEF Framed
      <3>3. i < Len(r) /\ i + 1 \in 1 .. Len(r) /\ i + 1 + 2 = i + 2 + 1
        BY <1>1, <2>4, <3>2
      <3> QED
        BY <2>4, <3>2, <3>3
    <2>6. ASSUME NEW i \in 1 .. Len(r), NEW l \in 1 .. MaxMsgs, r[i] = <<"body", l>>
          PROVE  i > 1 /\ r[i - 1] = <<"head", l>>
      <3>1. i + 2 \in 1 .. Len(w) /\ w[i + 2] = <<"body", l>> /\ i + 2 - 1 = i + 1
        BY <1>1, <2>4, <2>6
      <3>2. w[i + 1] = <<"head", l>>
        <4>1. w[i + 2 - 1] = <<"head", l>>
          BY <1>8, <3>1 DEF Framed
        <4> QED
          BY <3>1, <4>1
      <3>3. i # 1
        <4>1. <<"body", k>> # <<"head", l>>
          OBVIOUS
        <4> QED
          BY <2>1, <3>2, <4>1
      <3>4. i > 1 /\ i - 1 \in 1 .. Len(r) /\ i - 1 + 2 = i + 1
        BY <1>1, <2>4, <3>3
      <3> QED
        BY <2>4, <3>2, <3>4
    <2>7. Framed(r)
      BY <2>5, <2>6 DEF Framed
    <2> QED
      BY <2>2, <2>7 DEF r
  <1> QED
    BY <1>1, <1>2, <1>3, <1>4, <1>5, <1>6, <1>7, <1>8 DEF t

LEMMA AppendWire ==
    ASSUME NEW w \in Seq(Unit), NEW u \in Seq(Unit)
    PROVE  /\ w \o u \in Seq(Unit) /\ Len(w \o u) = Len(w) + Len(u) /\ Len(w) \in Nat /\ Len(u) \in Nat
           /\ HeadsOf(w \o u) = HeadsOf(w) \union HeadsOf(u)
           /\ Ordered(w) /\ Ordered(u) /\ (\A k \in HeadsOf(w), l \in HeadsOf(u) : k < l) => Ordered(w \o u)
           /\ NoId(w) /\ NoId(u) => NoId(w \o u)
           /\ Framed(w) /\ Framed(u) => Framed(w \o u)
           /\ w # <<>> => w \o u # <<>> /\ Head(w \o u) = Head(w) /\ Tail(w \o u) = Tail(w) \o u
  <1> DEFINE v == w \o u
             a == Len(w)
             b == Len(u)
  <1>1. /\ v \in Seq(Unit) /\ Len(v) = a + b /\ a \in Nat /\ b \in Nat
        /\ \A i \in 1 .. a : v[i] = w[i] /\ i \in 1 .. Len(v)
        /\ \A i \in 1 .. b : v[a + i] = u[i] /\ a + i \in 1 .. Len(v)
    OBVIOUS
  <1>2. \A i \in 1 .. Len(v) : i \in 1 .. a \/ (i > a /\ i - a \in 1 .. b /\ v[i] = u[i - a])
    <2> SUFFICES ASSUME NEW i \in 1 .. Len(v), i \notin 1 .. a
                 PROVE  i > a /\ i - a \in 1 .. b /\ v[i] = u[i - a]
      OBVIOUS
    <2>1. i > a /\ i - a \in 1 .. b /\ a + (i - a) = i
      BY <1>1
    <2> QED
      BY <1>1, <2>1
  <1>3. w # <<>> => v # <<>> /\ Head(v) = Head(w) /\ Tail(v) = Tail(w) \o u
    <2> SUFFICES ASSUME w # <<>> PROVE v # <<>> /\ Head(v) = Head(w) /\ Tail(v) = Tail(w) \o u
      OBVIOUS
    <2>1. Len(w) \in Nat \ {0}
      BY EmptySeq
    <2>2. v # <<>> /\ Head(v) = Head(w)
      BY <1>1, <2>1, EmptyWire
    <2>3. Tail(v) \in Seq(Unit) /\ Tail(w) \o u \in Seq(Unit)
      BY <1>1, <2>1, <2>2
    <2>4. Len(Tail(v)) = a + b - 1 /\ Len(Tail(w)) = a - 1 /\ Len(Tail(w) \o u) = a - 1 + b
      BY <1>1, <2>1, <2>2, TailWire, ConcatProperties
    <2>5. ASSUME NEW i \in 1 .. a + b - 1 PROVE Tail(v)[i] = (Tail(w) \o u)[i]
      <3>1. Tail(v)[i] = v[i + 1]
        BY <1>1, <2>2, <2>4
      <3>2. CASE i <= a - 1
        <4>1. (Tail(w) \o u)[i] = w[i + 1]
          BY <2>1, <2>4, <3>2
        <4> QED
          BY <1>1, <3>1, <3>2, <4>1
      <3>3. CASE i > a - 1
        <4>1. (Tail(w) \o u)[i] = u[i - (a - 1)]
          BY <2>1, <2>4, <3>3
        <4>2. i + 1 \in 1 .. Len(v) /\ i + 1 \notin 1 .. a /\ i + 1 - a = i - (a - 1)
          BY <1>1, <3>3
        <4> QED
          BY <1>2, <3>1, <4>1, <4>2
      <3> QED
        BY <1>1, <3>2, <3>3
    <2> QED
      BY <1>1, <2>2, <2>3, <2>4, <2>5, SeqEqual
  <1> HIDE DEF v, a, b
  <1>4. HeadsOf(v) = HeadsOf(w) \union HeadsOf(u)
    <2>1. ASSUME NEW k \in HeadsOf(v) PROVE k \in HeadsOf(w) \union HeadsOf(u)
      BY <1>1, <1>2 DEF HeadsOf, a, b
    <2>2. ASSUME NEW k \in HeadsOf(w) PROVE k \in HeadsOf(v)
      BY <1>1 DEF HeadsOf, a
    <2>3. ASSUME NEW k \in HeadsOf(u) PROVE k \in HeadsOf(v)
      <3>1. PICK i \in 1 .. b : u[i] = <<"head", k>>
        BY DEF HeadsOf, b
      <3> QED
        BY <1>1, <3>1 DEF HeadsOf
    <2> QED
      BY <2>1, <2>2, <2>3
  <1>5. ASSUME Ordered(w), Ordered(u), \A k \in HeadsOf(w), l \in HeadsOf(u) : k < l PROVE Ordered(v)
    <2> SUFFICES ASSUME NEW i \in 1 .. Len(v), NEW j \in 1 .. Len(v), NEW k \in 1 .. MaxMsgs, NEW l \in 1 .. MaxMsgs,
                        i < j, v[i] = <<"head", k>>, v[j] = <<"head", l>>
                 PROVE  k < l
      BY DEF Ordered
    <2>1. CASE i \in 1 .. a /\ j \in 1 .. a
      BY <1>1, <1>5, <2>1 DEF Ordered, a
    <2>2. CASE i \notin 1 .. a /\ j \notin 1 .. a
      <3>1. i - a \in 1 .. b /\ j - a \in 1 .. b /\ i - a < j - a
        BY <1>1, <1>2, <2>2
      <3>2. u[i - a] = <<"head", k>> /\ u[j - a] = <<"head", l>>
        BY <1>2, <2>2
      <3> QED
        BY <1>5, <3>1, <3>2 DEF Ordered, b
    <2>3. CASE i \in 1 .. a /\ j \notin 1 .. a
      <3>1. k \in HeadsOf(w)
        BY <1>1, <2>3 DEF HeadsOf, a
      <3>2. l \in HeadsOf(u)
        BY <1>2, <2>3 DEF HeadsOf, b
      <3> QED
        BY <1>5, <3>1, <3>2
    <2> QED
      BY <1>1, <1>2, <2>1, <2>2, <2>3
  <1>6. NoId(w) /\ NoId(u) => NoId(v)
    BY <1>1, <1>2 DEF NoId, a, b
  <1>7. ASSUME Framed(w), Framed(u) PROVE Framed(v)
    <2>1. ASSUME NEW i \in 1 .. Len(v), NEW k \in 1 .. MaxMsgs, v[i] = <<"head", k>>
          PROVE  i < Len(v) /\ v[i + 1] = <<"body", k>>
      <3>1. CASE i \in 1 .. a
        <4>0. w[i] = <<"head", k>> /\ i \in 1 .. Len(w)
          BY <1>1, <2>1, <3>1 DEF a
        <4>1. i < a /\ w[i + 1] = <<"body", k>>
          BY <1>7, <4>0 DEF Framed, a
        <4>2. i + 1 \in 1 .. a /\ i < Len(v)
          BY <1>1, <3>1, <4>1
        <4> QED
          BY <1>1, <4>1, <4>2
      <3>2. CASE i \notin 1 .. a
        <4>1. i - a \in 1 .. b /\ u[i - a] = <<"head", k>>
          BY <1>2, <2>1, <3>2
        <4>2. i - a < b /\ u[i - a + 1] = <<"body", k>>
          BY <1>7, <4>1 DEF Framed, b
        <4>3. i - a + 1 \in 1 .. b /\ a + (i - a + 1) = i + 1 /\ i < Len(v)
          BY <1>1, <4>1, <4>2
        <4> QED
          BY <1>1, <4>2, <4>3
      <3> QED
        BY <3>1, <3>2
    <2>2. ASSUME NEW i \in 1 .. Len(v), NEW k \in 1 .. MaxMsgs, v[i] = <<"body", k>>
          PROVE  i > 1 /\ v[i - 1] = <<"head", k>>
      <3>1. CASE i \in 1 .. a
        <4>1. i > 1 /\ w[i - 1] = <<"head", k>>
          BY <1>1, <1>7, <2>2, <3>1 DEF Framed, a
        <4>2. i - 1 \in 1 .. a
          BY <1>1, <3>1, <4>1
        <4> QED
          BY <1>1, <4>1, <4>2
      <3>2. CASE i \notin 1 .. a
        <4>1. i - a \in 1 .. b /\ u[i - a] = <<"body", k>>
          BY <1>2, <2>2, <3>2
        <4>2. i - a > 1 /\ u[i - a - 1] = <<"head", k>>
          BY <1>7, <4>1 DEF Framed, b
        <4>3. i - a - 1 \in 1 .. b /\ a + (i - a - 1) = i - 1 /\ i > 1
          BY <1>1, <4>1, <4>2
        <4> QED
          BY <1>1, <4>2, <4>3
      <3> QED
        BY <3>1, <3>2
    <2> QED
      BY <2>1, <2>2 DEF Framed
  <1> QED
    BY <1>1, <1>3, <1>4, <1>5, <1>6, <1>7 DEF v, a, b

\* What is sent.
LEMMA SentUnits ==
    /\ \A u \in {<<"ping", 0>>, IdUnit} :
          <<u>> \in Seq(Unit) /\ Len(<<u>>) = 1 /\ HeadsOf(<<u>>) = {} /\ Ordered(<<u>>) /\ Framed(<<u>>)
    /\ NoId(<<<<"ping", 0>>>>)
    /\ \A k \in 1 .. MaxMsgs :
          /\ Label(k) \in Seq(Unit) /\ Len(Label(k)) = 2 /\ HeadsOf(Label(k)) = {k} /\ Ordered(Label(k))
          /\ Framed(Label(k)) /\ NoId(Label(k))
          /\ Head(Label(k)) = <<"head", k>>
          /\ <<<<"head", k>>>> \in Seq(Unit) /\ Len(<<<<"head", k>>>>) = 1 /\ HeadsOf(<<<<"head", k>>>>) = {k}
          /\ Ordered(<<<<"head", k>>>>) /\ NoId(<<<<"head", k>>>>)
  <1>1. ASSUME NEW u \in {<<"ping", 0>>, IdUnit}
        PROVE  <<u>> \in Seq(Unit) /\ Len(<<u>>) = 1 /\ HeadsOf(<<u>>) = {} /\ Ordered(<<u>>) /\ Framed(<<u>>)
    <2>1. u \in Unit
      BY DEF Unit, IdUnit
    <2>2. <<u>> \in Seq(Unit) /\ Len(<<u>>) = 1 /\ <<u>>[1] = u
      BY <2>1
    <2>3. \A k \in 1 .. MaxMsgs : u # <<"head", k>> /\ u # <<"body", k>>
      BY PeerAssumption DEF IdUnit
    <2>4. \A i \in 1 .. 1 : i = 1
      OBVIOUS
    <2>5. HeadsOf(<<u>>) = {}
      BY <2>2, <2>3, <2>4 DEF HeadsOf
    <2>6. Ordered(<<u>>)
      BY <2>2, <2>3, <2>4 DEF Ordered
    <2>7. Framed(<<u>>)
      BY <2>2, <2>3, <2>4 DEF Framed
    <2> QED
      BY <2>2, <2>5, <2>6, <2>7
  <1>2. NoId(<<<<"ping", 0>>>>)
    <2>1. <<"ping", 0>> # IdUnit
      BY DEF IdUnit
    <2> QED
      BY <2>1 DEF NoId
  <1>3. ASSUME NEW k \in 1 .. MaxMsgs
        PROVE  /\ Label(k) \in Seq(Unit) /\ Len(Label(k)) = 2 /\ HeadsOf(Label(k)) = {k} /\ Ordered(Label(k))
               /\ Framed(Label(k)) /\ NoId(Label(k)) /\ Head(Label(k)) = <<"head", k>>
    <2>1. PICK h, b : h = <<"head", k>> /\ b = <<"body", k>>
      OBVIOUS
    <2>2. Label(k) = <<h, b>> /\ h \in Unit /\ b \in Unit
      BY <2>1 DEF Label, Unit
    <2>3. Label(k) \in Seq(Unit) /\ Len(Label(k)) = 2 /\ Label(k)[1] = h /\ Label(k)[2] = b /\ Head(Label(k)) = h
      BY <2>2
    <2>4. \A l \in 1 .. MaxMsgs : b # <<"head", l>> /\ h # <<"body", l>> /\ h # IdUnit /\ b # IdUnit
             /\ (h = <<"head", l>> <=> l = k) /\ (b = <<"body", l>> <=> l = k)
      BY <2>1 DEF IdUnit
    <2>5. \A i \in 1 .. 2 : i = 1 \/ i = 2
      OBVIOUS
    <2>6. HeadsOf(Label(k)) = {k} /\ Ordered(Label(k)) /\ NoId(Label(k))
      BY <2>3, <2>4, <2>5 DEF HeadsOf, Ordered, NoId
    <2>7. Framed(Label(k))
      BY <2>1, <2>3, <2>4, <2>5 DEF Framed
    <2> QED
      BY <2>1, <2>3, <2>6, <2>7
  <1>4. ASSUME NEW k \in 1 .. MaxMsgs
        PROVE  /\ <<<<"head", k>>>> \in Seq(Unit) /\ Len(<<<<"head", k>>>>) = 1 /\ HeadsOf(<<<<"head", k>>>>) = {k}
               /\ Ordered(<<<<"head", k>>>>) /\ NoId(<<<<"head", k>>>>)
    <2>1. PICK h : h = <<"head", k>>
      OBVIOUS
    <2>2. h \in Unit /\ h # IdUnit /\ \A l \in 1 .. MaxMsgs : h = <<"head", l>> <=> l = k
      BY <2>1 DEF Unit, IdUnit
    <2>3. <<h>> \in Seq(Unit) /\ Len(<<h>>) = 1 /\ <<h>>[1] = h
      BY <2>2
    <2>4. HeadsOf(<<h>>) = {k} /\ Ordered(<<h>>) /\ NoId(<<h>>)
      BY <2>2, <2>3 DEF HeadsOf, Ordered, NoId
    <2> QED
      BY <2>1, <2>3, <2>4
  <1> QED
    BY <1>1, <1>2, <1>3, <1>4

-----------------------------------------------------------------------------
(* The initial state, and steps that neither send, receive nor register. *)

MonPc == {"sleep", "ping", "stop", "join", "connect", "ident", "register", "start"}
AccPc == {"accept", "ident", "register", "start"}
WorkPc == {"none", "loop", "head", "body", "distribute", "exit"}
ConnOrNone == Conns \union {None}

LEMMA ConnFact ==
    /\ Conns \subseteq Nat \ {0} /\ None \notin Conns /\ None \in ConnOrNone /\ ConnOrNone \subseteq Nat
    /\ MaxMsgs \in Nat /\ MaxConns \in Nat /\ MaxFaults \in Nat
  BY PeerAssumption DEF Conns, None, ConnOrNone

LEMMA TypeFact ==
    ASSUME TypeOK, NEW n \in Nodes
    PROVE  /\ registry[n] \in ConnOrNone /\ entry[n] \in ConnOrNone
           /\ mon[n] \in [pc : MonPc, conn : ConnOrNone] /\ mon[n].pc \in MonPc /\ mon[n].conn \in ConnOrNone
           /\ acc[n] \in [pc : AccPc, conn : ConnOrNone] /\ acc[n].pc \in AccPc /\ acc[n].conn \in ConnOrNone
           /\ backlog[n] \in Seq(Conns) /\ sent[n] \in 0 .. MaxMsgs
           /\ got[n].label \in 0 .. MaxMsgs /\ got[n].intact \in BOOLEAN
           /\ used \in 0 .. MaxConns
  BY DEF TypeOK, MonPc, AccPc, ConnOrNone

LEMMA RowFact ==
    ASSUME TypeOK, NEW n \in Nodes, NEW c \in Conns
    PROVE  /\ worker[n][c] \in [pc : WorkPc, stop : BOOLEAN, label : 0 .. MaxMsgs, intact : BOOLEAN]
           /\ worker[n][c].pc \in WorkPc /\ worker[n][c].stop \in BOOLEAN
           /\ worker[n][c].label \in 0 .. MaxMsgs /\ worker[n][c].intact \in BOOLEAN
           /\ wire[n][c] \in Seq(Unit) /\ Len(wire[n][c]) <= Buf
           /\ sock[n][c] \in {"none", "open", "shut", "closed", "gone"} /\ rst[c] \in BOOLEAN
  <1>1. worker[n] \in [Conns -> [pc : WorkPc, stop : BOOLEAN, label : 0 .. MaxMsgs, intact : BOOLEAN]]
    BY DEF TypeOK, WorkPc
  <1>2. wire[n] \in [Conns -> Seq(Unit)] /\ Len(wire[n][c]) <= Buf
    BY DEF TypeOK
  <1>3. sock[n] \in [Conns -> {"none", "open", "shut", "closed", "gone"}] /\ rst[c] \in BOOLEAN
    BY DEF TypeOK
  <1> QED
    BY <1>1, <1>2, <1>3

LEMMA BacklogFact ==
    ASSUME TypeOK, NEW n \in Nodes
    PROVE  /\ Len(backlog[n]) \in Nat /\ InBacklog(n) \subseteq Conns /\ Pending(n) \subseteq Conns /\ Waiting \subseteq Conns
           /\ \A i \in 1 .. Len(backlog[n]) : backlog[n][i] \in Conns
  <1>1. \A m \in Nodes : Len(backlog[m]) \in Nat /\ \A i \in 1 .. Len(backlog[m]) : backlog[m][i] \in Conns
    BY TypeFact, ElementOfSeq, LenProperties
  <1> QED
    BY <1>1, NodeFact DEF InBacklog, Pending, Waiting

LEMMA WorkerBlank ==
    /\ NoWorker \in [pc : WorkPc, stop : BOOLEAN, label : 0 .. MaxMsgs, intact : BOOLEAN]
    /\ NoWorker.pc = "none" /\ NoWorker.label = 0
  BY ConnFact DEF NoWorker, WorkPc

LEMMA InitInv == Init => IInv
  <1> SUFFICES ASSUME Init PROVE IInv
    OBVIOUS
  <1>1. TypeOK
    <2>1. /\ up \in [Nodes -> BOOLEAN] /\ registry \in [Nodes -> ConnOrNone] /\ entry \in [Nodes -> ConnOrNone]
          /\ rst \in [Conns -> BOOLEAN] /\ used \in 0 .. MaxConns /\ faults \in 0 .. MaxFaults /\ torn \subseteq Conns
          /\ sent \in [Nodes -> 0 .. MaxMsgs]
          /\ got \in [Nodes -> [label : 0 .. MaxMsgs, intact : BOOLEAN]]
      BY ConnFact DEF Init
    <2>2. mon \in [Nodes -> [pc : MonPc, conn : ConnOrNone]] /\ acc \in [Nodes -> [pc : AccPc, conn : ConnOrNone]]
      BY ConnFact DEF Init, Idle, MonPc, AccPc
    <2>3. worker \in [Nodes -> [Conns -> [pc : WorkPc, stop : BOOLEAN, label : 0 .. MaxMsgs, intact : BOOLEAN]]]
      BY WorkerBlank DEF Init
    <2>4. /\ backlog \in [Nodes -> Seq(Conns)] /\ wire \in [Nodes -> [Conns -> Seq(Unit)]]
          /\ sock \in [Nodes -> [Conns -> {"none", "open", "shut", "closed", "gone"}]]
      BY EmptySeq, EmptyWire DEF Init
    <2>5. \A n \in Nodes, c \in Conns : Len(wire[n][c]) <= Buf
      BY EmptyWire, PeerAssumption DEF Init
    <2> QED
      BY <2>1, <2>2, <2>3, <2>4, <2>5 DEF TypeOK, ConnOrNone, MonPc, AccPc, WorkPc
  <1>2. \A n \in Nodes :
           /\ registry[n] = 0 /\ entry[n] = 0 /\ mon[n].pc = "sleep" /\ acc[n].pc = "accept"
           /\ Len(backlog[n]) = 0 /\ backlog[n] = <<>> /\ sent[n] = 0 /\ got[n].label = 0 /\ got[n].intact
    BY EmptyWire DEF Init, Idle, None
  <1>3. \A n \in Nodes, c \in Conns :
           worker[n][c].pc = "none" /\ worker[n][c].label = 0 /\ wire[n][c] = <<>> /\ ~HandleValid(n, c)
    BY WorkerBlank DEF Init, HandleValid
  <1>4. used = 0 /\ \A n \in Nodes : Reading(n) = {} /\ InBacklog(n) = {} /\ Pending(n) = {} /\ ~Starting(n)
    <2>1. \A n \in Nodes : InBacklog(n) = {}
      BY <1>2 DEF InBacklog
    <2> QED
      BY <1>2, <1>3, <2>1 DEF Init, Reading, Pending, Starting
  <1>5. Waiting = {}
    BY <1>2, <1>4, NodeFact DEF Waiting
  <1>6. RoleInv
    BY <1>2, NodeFact DEF RoleInv
  <1>7. PlaceInv
    BY <1>2, <1>4, NodeFact DEF PlaceInv
  <1>8. WorkerInv
    BY <1>3, <1>4 DEF WorkerInv
  <1>9. SockInv
    BY <1>2, <1>3, <1>4, NodeFact DEF SockInv
  <1>10. IdInv
    BY <1>2, <1>3, <1>5, EmptyWire, NodeFact DEF IdInv, IdRow
  <1>11. OrderInv
    BY <1>2, <1>3, <1>4, EmptyWire, NodeFact DEF OrderInv, OrderRow, None
  <1>12. FrameInv
    BY <1>2, <1>3, EmptyWire DEF FrameInv, FrameRow
  <1> QED
    BY <1>1, <1>6, <1>7, <1>8, <1>9, <1>10, <1>11, <1>12 DEF IInv, CInv

\* No connection becomes pending or registered; one that is given up is closed.
QuietControl ==
    /\ UNCHANGED <<registry, used, backlog>>
    /\ \A n \in Nodes : entry'[n] = entry[n] \/ (entry'[n] = None /\ Reading(n) = {})
    /\ mon'[Lo].pc \notin {"ident", "register", "start"} /\ acc'[Hi].pc = "accept"
    /\ mon'[Hi].pc \in {"ident", "register", "start"} => mon'[Hi] = mon[Hi]
    /\ \A n \in Nodes : mon'[n].pc = "ping" => mon'[n] = mon[n] \/ mon'[n].conn = registry[n]
    /\ mon'[Hi].pc \in {"stop", "join", "connect"} => \A c \in Conns : ~HandleValid(Hi, c)'
    /\ mon[Hi].pc \in {"ident", "register"} /\ mon'[Hi] # mon[Hi] =>
          \A c \in Conns : c = mon[Hi].conn => ~HandleValid(Hi, c)'
    /\ acc'[Lo].pc \in {"ident", "register", "start"} => acc'[Lo] = acc[Lo]
    /\ acc[Lo].pc \in {"ident", "register"} /\ acc'[Lo] # acc[Lo] =>
          \A c \in Conns : c = acc[Lo].conn => ~HandleValid(Lo, c)'
    /\ \A c \in Pending(Lo)' : HandleValid(Lo, c)'

QuietWire(n, c) ==
    \/ wire'[n][c] = wire[n][c] /\ (HandleValid(n, c)' <=> HandleValid(n, c))
    \/ wire'[n][c] = <<>> /\ ~HandleValid(n, c)'

QuietWorker(n, c) ==
    /\ worker'[n][c].label = worker[n][c].label /\ worker'[n][c].intact = worker[n][c].intact
    /\ \/ worker'[n][c].pc = worker[n][c].pc
       \/ worker[n][c].pc # "none" /\ worker'[n][c].pc = "exit"
       \/ worker[n][c].pc = "loop" /\ worker'[n][c].pc = "head"

\* The same, of a step that may go on with a connection that is pending.
ControlKept ==
    /\ UNCHANGED <<registry, used, backlog>>
    /\ \A n \in Nodes : entry'[n] = entry[n] \/ (entry'[n] = None /\ Reading(n) = {})
    /\ mon'[Lo].pc \notin {"ident", "register", "start"} /\ acc'[Hi].pc = "accept"
    /\ mon'[Hi].pc \in {"ident", "register"} =>
          mon[Hi].pc \in {"ident", "register"} /\ mon'[Hi].conn = mon[Hi].conn
    /\ mon'[Hi].pc = "start" => mon[Hi].pc = "start"
    /\ \A n \in Nodes : mon'[n].pc = "ping" => mon'[n] = mon[n] \/ mon'[n].conn = registry[n]
    /\ mon'[Hi].pc \in {"stop", "join", "connect"} => \A c \in Conns : ~HandleValid(Hi, c)'
    /\ mon[Hi].pc \in {"ident", "register"} /\ mon'[Hi].pc \notin {"ident", "register"} =>
          \A c \in Conns : c = mon[Hi].conn => ~HandleValid(Hi, c)'
    /\ acc'[Lo].pc \in {"ident", "register"} =>
          acc[Lo].pc \in {"ident", "register"} /\ acc'[Lo].conn = acc[Lo].conn
    /\ acc'[Lo].pc = "start" => acc[Lo].pc = "start"
    /\ acc[Lo].pc \in {"ident", "register"} /\ acc'[Lo].pc \notin {"ident", "register"} =>
          \A c \in Conns : c = acc[Lo].conn => ~HandleValid(Lo, c)'
    /\ \A c \in Pending(Lo)' : HandleValid(Lo, c)'

KeptSock(n, c) ==
    /\ ~HandleValid(n, c)' => wire'[n][c] = <<>>
    /\ HandleValid(n, c)' => HandleValid(n, c)

KeptWorker(n, c) ==
    /\ worker'[n][c].pc # "none" => worker[n][c].pc # "none"
    /\ c \in Reading(n)' => c \in Reading(n)

LEMMA PlacesKept ==
    ASSUME CInv, TypeOK', ControlKept, \A n \in Nodes, c \in Conns : KeptSock(n, c) /\ KeptWorker(n, c)
    PROVE  /\ RoleInv' /\ PlaceInv' /\ WorkerInv' /\ SockInv'
           /\ \A n \in Nodes : Reading(n)' \subseteq Reading(n) /\ Pending(n)' \subseteq Pending(n)
  <1> USE NodeFact DEF CInv
  <1>0. ASSUME NEW n \in Nodes
        PROVE  /\ registry[n] \in Nat /\ entry[n] \in Nat /\ entry'[n] \in Nat /\ used \in Nat
               /\ mon[n].pc \in MonPc /\ mon'[n].pc \in MonPc /\ acc[n].pc \in AccPc /\ acc'[n].pc \in AccPc
    <2>1. entry'[n] \in ConnOrNone
      BY <1>0 DEF TypeOK, ConnOrNone
    <2>2. mon'[n].pc \in MonPc /\ acc'[n].pc \in AccPc
      BY <1>0 DEF TypeOK, MonPc, AccPc
    <2>3. /\ registry[n] \in ConnOrNone /\ entry[n] \in ConnOrNone /\ used \in 0 .. MaxConns
          /\ mon[n].pc \in MonPc /\ acc[n].pc \in AccPc
      BY TypeFact
    <2>4. registry[n] \in Nat /\ entry[n] \in Nat /\ entry'[n] \in Nat
      BY <2>1, <2>3, ConnFact
    <2>5. used \in Nat
      BY <2>3, ConnFact
    <2> QED
      BY <2>2, <2>3, <2>4, <2>5
  <1>1. RoleInv'
    BY DEF RoleInv, ControlKept
  <1>2. PlaceInv'
    <2>1. \A n \in Nodes : entry'[n] <= registry'[n] /\ registry'[n] <= used'
      BY <1>0 DEF PlaceInv, ControlKept, None
    <2>2. acc'[Lo].pc \in {"ident", "register"} =>
             acc[Lo].pc \in {"ident", "register"} /\ acc'[Lo].conn = acc[Lo].conn
      BY DEF ControlKept
    <2>3. mon'[Hi].pc \in {"ident", "register"} =>
             mon[Hi].pc \in {"ident", "register"} /\ mon'[Hi].conn = mon[Hi].conn
      BY DEF ControlKept
    <2>4. \A i \in 1 .. Len(backlog'[Lo]) :
             /\ registry'[Lo] < backlog'[Lo][i] /\ backlog'[Lo][i] <= used'
             /\ acc'[Lo].pc \in {"ident", "register"} => acc'[Lo].conn < backlog'[Lo][i]
      BY <2>2 DEF PlaceInv, ControlKept
    <2>5. \A i, j \in 1 .. Len(backlog'[Lo]) : i < j => backlog'[Lo][i] < backlog'[Lo][j]
      BY DEF PlaceInv, ControlKept
    <2>6. /\ acc'[Lo].pc \in {"ident", "register"} => registry'[Lo] < acc'[Lo].conn /\ acc'[Lo].conn <= used'
          /\ mon'[Hi].pc \in {"ident", "register"} => registry'[Hi] < mon'[Hi].conn /\ mon'[Hi].conn = used'
      BY <2>2, <2>3 DEF PlaceInv, ControlKept
    <2>7. /\ mon'[Hi].pc = "ping" => mon'[Hi].conn = registry'[Hi]
          /\ mon'[Lo].pc = "ping" => mon'[Lo].conn <= registry'[Lo]
      BY <1>0 DEF PlaceInv, ControlKept
    <2> QED
      BY <2>1, <2>4, <2>5, <2>6, <2>7 DEF PlaceInv
  <1>3. \A n \in Nodes : Reading(n)' \subseteq Reading(n)
    BY DEF Reading, KeptWorker
  <1>4. \A n \in Nodes : Starting(n)' => Starting(n)
    BY DEF Starting, ControlKept
  <1>5. WorkerInv'
    <2>1. \A n \in Nodes : Reading(n)' \subseteq {entry'[n]}
      BY <1>3 DEF WorkerInv, ControlKept
    <2>2. \A n \in Nodes, c \in Conns : worker'[n][c].pc # "none" => worker[n][c].pc # "none"
      BY DEF KeptWorker
    <2> QED
      BY <1>4, <2>1, <2>2 DEF WorkerInv, ControlKept
  <1>6. \A n \in Nodes : InBacklog(n)' = InBacklog(n)
    BY DEF InBacklog, ControlKept
  <1>7. \A n \in Nodes : Pending(n)' \subseteq Pending(n)
    <2>1. acc'[Lo].pc \in {"ident", "register"} =>
             acc[Lo].pc \in {"ident", "register"} /\ acc'[Lo].conn = acc[Lo].conn
      BY DEF ControlKept
    <2>2. mon'[Hi].pc \in {"ident", "register"} =>
             mon[Hi].pc \in {"ident", "register"} /\ mon'[Hi].conn = mon[Hi].conn
      BY DEF ControlKept
    <2>3. mon'[Lo].pc \notin {"ident", "register"} /\ acc'[Hi].pc \notin {"ident", "register"}
      BY DEF ControlKept
    <2>4. Pending(Lo)' \subseteq Pending(Lo)
      BY <1>6, <2>1, <2>3 DEF Pending
    <2>5. Pending(Hi)' \subseteq Pending(Hi)
      BY <1>6, <2>2, <2>3 DEF Pending
    <2> QED
      BY <2>4, <2>5
  <1>10. \A n \in Nodes : \A c \in Pending(n) \ Pending(n)' : ~HandleValid(n, c)'
    <2> SUFFICES ASSUME NEW n \in Nodes, NEW c \in Pending(n), c \notin Pending(n)' PROVE ~HandleValid(n, c)'
      OBVIOUS
    <2>1. CASE acc[n].pc \in {"ident", "register"} /\ acc[n].conn = c
      <3>1. n = Lo /\ ~(acc'[n].pc \in {"ident", "register"} /\ acc'[n].conn = c)
        BY <2>1, BacklogFact DEF RoleInv, Pending
      <3> QED
        BY <2>1, <3>1, BacklogFact DEF ControlKept, HandleValid
    <2>2. CASE mon[n].pc \in {"ident", "register"} /\ mon[n].conn = c
      <3>1. n = Hi /\ ~(mon'[n].pc \in {"ident", "register"} /\ mon'[n].conn = c)
        BY <2>2, BacklogFact DEF RoleInv, Pending
      <3> QED
        BY <2>2, <3>1, BacklogFact DEF ControlKept, HandleValid
    <2> QED
      BY <1>6, <2>1, <2>2 DEF Pending
  <1>11. SockInv'
    <2>1. \A n \in Nodes, c \in Conns : ~HandleValid(n, c)' => wire'[n][c] = <<>>
      BY DEF SockInv, KeptSock
    <2>2. \A n \in Nodes, c \in Conns : HandleValid(n, c)' => HandleValid(n, c)
      BY DEF KeptSock
    <2>3. \A n \in Nodes, c \in Conns : HandleValid(n, c)' => c = registry'[n] \/ c \in Pending(n)'
      BY <1>10, <2>2 DEF SockInv, ControlKept
    <2>4. \A c \in Conns : HandleValid(Hi, c)' => c = used'
      BY <2>2 DEF SockInv, ControlKept
    <2> QED
      BY <2>1, <2>3, <2>4 DEF SockInv, ControlKept
  <1> QED
    BY <1>1, <1>2, <1>3, <1>5, <1>7, <1>11

LEMMA QuietPlaces ==
    ASSUME CInv, TypeOK', QuietControl, \A n \in Nodes, c \in Conns : QuietWire(n, c) /\ QuietWorker(n, c)
    PROVE  /\ RoleInv' /\ PlaceInv' /\ WorkerInv' /\ SockInv'
           /\ \A n \in Nodes : Reading(n)' \subseteq Reading(n) /\ Pending(n)' \subseteq Pending(n)
           /\ Waiting' \subseteq Waiting /\ \A c \in Waiting \ Waiting' : ~HandleValid(Lo, c)'
  <1> USE NodeFact DEF CInv
  <1>1. ControlKept
    BY DEF QuietControl, ControlKept
  <1>2. \A n \in Nodes, c \in Conns : KeptSock(n, c) /\ KeptWorker(n, c)
    BY DEF QuietWire, KeptSock, SockInv, QuietWorker, KeptWorker, Reading
  <1>6. \A n \in Nodes : InBacklog(n)' = InBacklog(n)
    BY DEF InBacklog, QuietControl
  <1>8. Waiting' \subseteq Waiting
    BY <1>6 DEF Waiting, QuietControl
  <1>9. \A c \in Waiting \ Waiting' : ~HandleValid(Lo, c)'
    <2> SUFFICES ASSUME NEW c \in Waiting, c \notin Waiting' PROVE ~HandleValid(Lo, c)'
      OBVIOUS
    <2>1. c \in Conns /\ acc[Lo].pc = "ident" /\ acc[Lo].conn = c /\ acc'[Lo] # acc[Lo]
      BY <1>6 DEF Waiting
    <2> QED
      BY <2>1 DEF QuietControl
  <1> QED
    BY <1>1, <1>2, <1>8, <1>9, PlacesKept

LEMMA QuietIds ==
    ASSUME CInv, IdInv, TypeOK', QuietControl, \A n \in Nodes, c \in Conns : QuietWire(n, c) /\ QuietWorker(n, c)
    PROVE  IdInv'
  <1> SUFFICES ASSUME NEW c \in Conns PROVE IdRow(c)'
    BY DEF IdInv
  <1> USE NodeFact
  <1>1. IdRow(c)
    BY DEF IdInv
  <1>2. /\ wire'[Hi][c] = wire[Hi][c] \/ wire'[Hi][c] = <<>>
        /\ wire'[Lo][c] = wire[Lo][c] \/ wire'[Lo][c] = <<>>
        /\ HandleValid(Lo, c)' => HandleValid(Lo, c) /\ wire'[Lo][c] = wire[Lo][c]
        /\ ~HandleValid(Lo, c)' => wire'[Lo][c] = <<>>
    BY DEF QuietWire, CInv, SockInv
  <1>3. /\ Waiting' \subseteq Waiting
        /\ c \in Waiting /\ c \notin Waiting' => ~HandleValid(Lo, c)'
        /\ c \in Waiting' => HandleValid(Lo, c)'
    <2>1. c \in Waiting' => c \in Pending(Lo)'
      BY DEF Waiting, Pending
    <2> QED
      BY <2>1, QuietPlaces DEF QuietControl
  <1>4. NoId(wire'[Hi][c]) /\ (c \notin Waiting' => NoId(wire'[Lo][c]))
    BY <1>1, <1>2, <1>3, EmptyWire DEF IdRow
  <1>5. c \in Waiting' /\ wire'[Lo][c] # <<>> => Head(wire'[Lo][c]) = IdUnit /\ NoId(Tail(wire'[Lo][c]))
    BY <1>1, <1>2, <1>3 DEF IdRow
  <1>6. mon'[Hi].pc = "ident" /\ mon'[Hi].conn = c =>
            wire'[Lo][c] = <<>> /\ (HandleValid(Lo, c)' => c \in Waiting')
    BY <1>1, <1>2, <1>3 DEF IdRow, QuietControl
  <1>7. c \in Waiting' /\ (registry'[Hi] = c \/ (mon'[Hi].pc = "register" /\ mon'[Hi].conn = c)) => wire'[Lo][c] # <<>>
    BY <1>1, <1>2, <1>3 DEF IdRow, QuietControl
  <1> QED
    BY <1>4, <1>5, <1>6, <1>7 DEF IdRow, NoId

\* The labels on the wires become fewer.
LEMMA OrderMoved ==
    ASSUME TypeOK, TypeOK', OrderInv, \A n \in Nodes : sent[n] <= sent'[n] /\ got'[n].label <= sent'[Other(n)],
           \A n \in Nodes, c \in Conns :
              /\ HeadsOf(wire'[n][c]) \subseteq HeadsOf(wire[n][c]) /\ Ordered(wire'[n][c])
              /\ c \in Reading(n)' => worker'[n][c].label <= sent'[Other(n)]
              /\ worker'[n][c].pc \in {"body", "distribute"} => worker'[n][c].label > got'[n].label
              /\ \A k \in HeadsOf(wire'[n][c]) :
                    k > got'[n].label /\ \A d \in Reading(n)' : k > worker'[n][d].label,
           \A n \in Nodes : /\ registry'[n] \in {registry[n], None} \/ Silent(n, registry'[n])
                            /\ \A c \in Pending(n)' : c \in Pending(n) \/ Silent(n, c)
    PROVE  OrderInv'
  <1> SUFFICES ASSUME NEW n \in Nodes
               PROVE  /\ got'[n].label <= sent'[Other(n)]
                      /\ \A c \in Conns : OrderRow(n, c)'
                      /\ (registry[n] # None => Silent(n, registry[n] + 1))'
                      /\ (\A c \in Pending(n) : Silent(n, c))'
    BY DEF OrderInv
  <1> USE NodeFact
  <1>1. sent[Other(n)] \in Nat /\ sent'[Other(n)] \in Nat /\ sent[Other(n)] <= sent'[Other(n)]
    <2>1. sent' \in [Nodes -> 0 .. MaxMsgs]
      BY DEF TypeOK
    <2> QED
      BY <2>1, TypeFact, ConnFact
  <1>2. got'[n].label <= sent'[Other(n)]
    OBVIOUS
  <1>3. ASSUME NEW c \in Conns PROVE OrderRow(n, c)'
    <2>1. OrderRow(n, c)
      BY DEF OrderInv
    <2>2. /\ c \in Reading(n)' => worker'[n][c].label <= sent'[Other(n)]
          /\ worker'[n][c].pc \in {"body", "distribute"} => worker'[n][c].label > got'[n].label
      OBVIOUS
    <2>4. ASSUME NEW k \in HeadsOf(wire'[n][c])
          PROVE  /\ k <= sent'[Other(n)] /\ k > got'[n].label
                 /\ \A d \in Reading(n)' : k > worker'[n][d].label
                 /\ \A d \in Conns : c < d => \A l \in HeadsOf(wire'[n][d]) : k < l
      <3>0. k \in HeadsOf(wire[n][c])
        BY <2>4
      <3>1. k \in HeadsOf(wire[n][c]) /\ k \in Nat /\ k > 0
        BY <3>0, ConnFact DEF HeadsOf
      <3>2. k <= sent[Other(n)]
        BY <2>1, <3>1 DEF OrderRow
      <3>4. \A d \in Conns : c < d => \A l \in HeadsOf(wire'[n][d]) : k < l
        BY <2>1, <3>1 DEF OrderRow
      <3>5. k > got'[n].label /\ \A d \in Reading(n)' : k > worker'[n][d].label
        BY <2>4
      <3> QED
        BY <1>1, <3>1, <3>2, <3>4, <3>5
    <2> QED
      BY <2>2, <2>4, SMTT(60) DEF OrderRow, HeadsOf, Ordered
  <1>4. ASSUME NEW c, Silent(n, c) PROVE Silent(n, c)'
    <2>1. \A d \in Conns : c <= d => HeadsOf(wire[Other(n)][d]) = {}
      BY <1>4 DEF Silent
    <2>2. \A d \in Conns : c <= d => HeadsOf(wire'[Other(n)][d]) = {}
      BY <2>1, SMTT(60)
    <2> QED
      BY <2>2 DEF Silent
  <1>5. (registry[n] # None => Silent(n, registry[n] + 1))'
    <2> SUFFICES ASSUME registry'[n] # None
                 PROVE  \A d \in Conns : registry'[n] + 1 <= d => HeadsOf(wire'[Other(n)][d]) = {}
      BY DEF Silent
    <2>0. registry'[n] \in Nat
      <3>1. registry' \in [Nodes -> ConnOrNone]
        BY DEF TypeOK, ConnOrNone
      <3> QED
        BY <3>1, ConnFact
    <2>1. Silent(n, registry'[n] + 1)
      <3>1. CASE registry'[n] = registry[n]
        BY <3>1 DEF OrderInv
      <3>2. CASE Silent(n, registry'[n])
        BY <2>0, <3>2, ConnFact DEF Silent
      <3> QED
        BY <3>1, <3>2
    <2>2. \A d \in Conns : registry'[n] + 1 <= d => HeadsOf(wire[Other(n)][d]) = {}
      BY <2>1 DEF Silent
    <2> SUFFICES ASSUME NEW d \in Conns, registry'[n] + 1 <= d PROVE HeadsOf(wire'[Other(n)][d]) = {}
      OBVIOUS
    <2>3. HeadsOf(wire[Other(n)][d]) = {} /\ Other(n) \in Nodes
      BY <2>2
    <2> QED
      BY <2>3
  <1>6. (\A c \in Pending(n) : Silent(n, c))'
    BY <1>4 DEF OrderInv
  <1> QED
    BY <1>2, <1>3, <1>5, <1>6

\* Nor has a worker a new one.
LEMMA OrderKept ==
    ASSUME TypeOK, TypeOK', OrderInv, got' = got, \A n \in Nodes : sent[n] <= sent'[n],
           \A n \in Nodes, c \in Conns :
              /\ HeadsOf(wire'[n][c]) \subseteq HeadsOf(wire[n][c]) /\ Ordered(wire'[n][c])
              /\ c \in Reading(n)' => worker'[n][c].label = 0 \/ (c \in Reading(n) /\ worker'[n][c].label = worker[n][c].label)
              /\ worker'[n][c].pc \in {"body", "distribute"} =>
                    worker'[n][c].label = worker[n][c].label /\ worker[n][c].pc \in {"body", "distribute"},
           \A n \in Nodes : /\ registry'[n] \in {registry[n], None} \/ Silent(n, registry'[n])
                            /\ \A c \in Pending(n)' : c \in Pending(n) \/ Silent(n, c)
    PROVE  OrderInv'
  <1> USE NodeFact
  <1>1. ASSUME NEW n \in Nodes
        PROVE  /\ sent[Other(n)] \in Nat /\ sent'[Other(n)] \in Nat /\ sent[Other(n)] <= sent'[Other(n)]
               /\ got[n].label \in Nat /\ got[n].label <= sent[Other(n)]
    <2>1. sent' \in [Nodes -> 0 .. MaxMsgs]
      BY DEF TypeOK
    <2> QED
      BY <2>1, TypeFact, ConnFact DEF OrderInv
  <1>2. \A n \in Nodes : got'[n].label <= sent'[Other(n)]
    BY <1>1
  <1>3. ASSUME NEW n \in Nodes, NEW c \in Conns
        PROVE  /\ c \in Reading(n)' => worker'[n][c].label <= sent'[Other(n)]
               /\ worker'[n][c].pc \in {"body", "distribute"} => worker'[n][c].label > got'[n].label
               /\ \A k \in HeadsOf(wire'[n][c]) :
                     k > got'[n].label /\ \A d \in Reading(n)' : k > worker'[n][d].label
    <2>1. OrderRow(n, c) /\ worker[n][c].label \in Nat
      BY RowFact, ConnFact DEF OrderInv
    <2>2. c \in Reading(n)' => worker'[n][c].label <= sent'[Other(n)]
      BY <1>1, <2>1 DEF OrderRow
    <2>3. worker'[n][c].pc \in {"body", "distribute"} => worker'[n][c].label > got'[n].label
      BY <2>1 DEF OrderRow
    <2>4. ASSUME NEW k \in HeadsOf(wire'[n][c])
          PROVE  k > got'[n].label /\ \A d \in Reading(n)' : k > worker'[n][d].label
      <3>0. k \in HeadsOf(wire[n][c])
        BY <2>4
      <3>1. k \in HeadsOf(wire[n][c]) /\ k \in Nat /\ k > 0
        BY <3>0, ConnFact DEF HeadsOf
      <3>2. k > got[n].label
        BY <2>1, <3>1 DEF OrderRow
      <3>3. ASSUME NEW d \in Reading(n)' PROVE k > worker'[n][d].label
        <4>1. d \in Conns
          BY DEF Reading
        <4>2. CASE worker'[n][d].label = 0
          BY <3>1, <4>2
        <4>3. CASE worker'[n][d].label = worker[n][d].label /\ d \in Reading(n)
          BY <2>1, <3>1, <4>3 DEF OrderRow
        <4> QED
          BY <4>1, <4>2, <4>3
      <3> QED
        BY <3>2, <3>3
    <2> QED
      BY <2>2, <2>3, <2>4
  <1> QED
    BY <1>2, <1>3, OrderMoved

LEMMA QuietOrder ==
    ASSUME CInv, OrderInv, TypeOK', QuietControl, \A n \in Nodes, c \in Conns : QuietWire(n, c) /\ QuietWorker(n, c),
           got' = got, \A n \in Nodes : sent[n] <= sent'[n]
    PROVE  OrderInv'
  <1>1. ASSUME NEW n \in Nodes, NEW c \in Conns
        PROVE  /\ HeadsOf(wire'[n][c]) \subseteq HeadsOf(wire[n][c]) /\ Ordered(wire'[n][c])
               /\ worker'[n][c].label \in {0, worker[n][c].label}
               /\ worker'[n][c].pc \in {"body", "distribute"} =>
                    worker'[n][c].label = worker[n][c].label /\ worker[n][c].pc \in {"body", "distribute"}
               /\ c \in Reading(n)' => c \in Reading(n)
    <2>1. QuietWire(n, c) /\ QuietWorker(n, c) /\ OrderRow(n, c)
      BY DEF OrderInv
    <2>2. wire'[n][c] = wire[n][c] \/ wire'[n][c] = <<>>
      BY <2>1 DEF QuietWire
    <2>3. HeadsOf(wire'[n][c]) \subseteq HeadsOf(wire[n][c]) /\ Ordered(wire'[n][c])
      BY <2>1, <2>2, EmptyWire DEF OrderRow
    <2> QED
      BY <2>1, <2>3, QuietPlaces DEF QuietWorker
  <1>2. \A n \in Nodes : registry'[n] = registry[n] /\ Pending(n)' \subseteq Pending(n)
    BY QuietPlaces DEF QuietControl
  <1>3. TypeOK
    BY DEF CInv
  <1> QED
    BY <1>1, <1>2, <1>3, OrderKept

LEMMA QuietFrames ==
    ASSUME CInv, FrameInv, TypeOK', \A n \in Nodes, c \in Conns : QuietWire(n, c) /\ QuietWorker(n, c),
           got' = got, torn \subseteq torn'
    PROVE  FrameInv'
  <1>1. ASSUME NEW n \in Nodes, NEW c \in Conns \ torn' PROVE FrameRow(n, c)'
    <2>1. FrameRow(n, c) /\ QuietWire(n, c) /\ QuietWorker(n, c)
      BY DEF FrameInv
    <2>2. wire'[n][c] = wire[n][c] \/ wire'[n][c] = <<>>
      BY <2>1 DEF QuietWire
    <2>3. worker'[n][c].pc \in {"none", "loop", "head", "distribute"} => Framed(wire'[n][c])
      BY <2>1, <2>2, EmptyWire DEF QuietWorker, FrameRow
    <2>4. worker'[n][c].pc = "body" /\ HandleValid(n, c)' =>
             /\ wire'[n][c] # <<>> /\ Head(wire'[n][c]) = <<"body", worker'[n][c].label>>
             /\ Framed(Tail(wire'[n][c]))
      BY <2>1 DEF QuietWire, QuietWorker, FrameRow
    <2>5. worker'[n][c].pc = "distribute" => worker'[n][c].intact
      BY <2>1 DEF QuietWorker, FrameRow
    <2> QED
      BY <2>3, <2>4, <2>5 DEF FrameRow, Framed
  <1>2. \A n \in Nodes : torn' = {} => got'[n].intact
    BY DEF FrameInv
  <1> QED
    BY <1>1, <1>2 DEF FrameInv

LEMMA Quiet ==
    ASSUME IInv, TypeOK', QuietControl, \A n \in Nodes, c \in Conns : QuietWire(n, c) /\ QuietWorker(n, c),
           got' = got, torn \subseteq torn', \A n \in Nodes : sent[n] <= sent'[n]
    PROVE  IInv'
  <1> USE DEF IInv
  <1>1. RoleInv' /\ PlaceInv' /\ WorkerInv' /\ SockInv'
    BY QuietPlaces
  <1> QED
    BY <1>1, QuietIds, QuietOrder, QuietFrames DEF CInv

-----------------------------------------------------------------------------
(* The steps of the threads, one part at a time. *)

LEMMA MonGotoFact ==
    ASSUME TypeOK, NEW n \in Nodes, NEW pc \in MonPc, NEW c \in ConnOrNone, MonGoto(n, pc, c)
    PROVE  /\ mon' \in [Nodes -> [pc : MonPc, conn : ConnOrNone]]
           /\ mon'[n].pc = pc /\ mon'[n].conn = c /\ \A m \in Nodes : m # n => mon'[m] = mon[m]
  BY DEF TypeOK, MonGoto, MonPc, ConnOrNone

LEMMA AccGotoFact ==
    ASSUME TypeOK, NEW n \in Nodes, NEW pc \in AccPc, NEW c \in ConnOrNone, AccGoto(n, pc, c)
    PROVE  /\ acc' \in [Nodes -> [pc : AccPc, conn : ConnOrNone]]
           /\ acc'[n].pc = pc /\ acc'[n].conn = c /\ \A m \in Nodes : m # n => acc'[m] = acc[m]
  BY DEF TypeOK, AccGoto, AccPc, ConnOrNone

WorkerRec == [pc : WorkPc, stop : BOOLEAN, label : 0 .. MaxMsgs, intact : BOOLEAN]
SockState == {"none", "open", "shut", "closed", "gone"}

WiresOK == wire \in [Nodes -> [Conns -> Seq(Unit)]] /\ \A n \in Nodes, c \in Conns : Len(wire[n][c]) <= Buf

\* TypeOK, variable by variable.
LEMMA TypeParts ==
    TypeOK <=> /\ up \in [Nodes -> BOOLEAN]
               /\ registry \in [Nodes -> ConnOrNone] /\ entry \in [Nodes -> ConnOrNone]
               /\ worker \in [Nodes -> [Conns -> WorkerRec]]
               /\ mon \in [Nodes -> [pc : MonPc, conn : ConnOrNone]]
               /\ acc \in [Nodes -> [pc : AccPc, conn : ConnOrNone]]
               /\ backlog \in [Nodes -> Seq(Conns)]
               /\ sock \in [Nodes -> [Conns -> SockState]] /\ WiresOK
               /\ rst \in [Conns -> BOOLEAN]
               /\ used \in 0 .. MaxConns /\ faults \in 0 .. MaxFaults /\ torn \subseteq Conns
               /\ sent \in [Nodes -> 0 .. MaxMsgs]
               /\ got \in [Nodes -> [label : 0 .. MaxMsgs, intact : BOOLEAN]]
  BY DEF TypeOK, WorkerRec, WorkPc, SockState, WiresOK, MonPc, AccPc, ConnOrNone

\* An update of one row of a table by node and connection.
LEMMA RowUpdate ==
    ASSUME NEW S, NEW f \in [Nodes -> [Conns -> S]], NEW n \in Nodes, NEW c, NEW v, c \in Conns => v \in S
    PROVE  /\ [f EXCEPT ![n][c] = v] \in [Nodes -> [Conns -> S]]
           /\ \A m \in Nodes, d \in Conns :
                 [f EXCEPT ![n][c] = v][m][d] = IF m = n /\ d = c THEN v ELSE f[m][d]
  <1> DEFINE g == [f[n] EXCEPT ![c] = v]
  <1>1. g \in [Conns -> S] /\ \A d \in Conns : g[d] = IF d = c THEN v ELSE f[n][d]
    OBVIOUS
  <1> HIDE DEF g
  <1>2. /\ [f EXCEPT ![n] = g] \in [Nodes -> [Conns -> S]]
        /\ \A m \in Nodes, d \in Conns : [f EXCEPT ![n] = g][m][d] = IF m = n /\ d = c THEN v ELSE f[m][d]
    BY <1>1
  <1>3. [f EXCEPT ![n][c] = v] = [f EXCEPT ![n] = g]
    BY DEF g
  <1> QED
    BY <1>2, <1>3

LEMMA DisconnectFact ==
    ASSUME TypeOK, NEW n \in Nodes, NEW c, Disconnect(n, c)
    PROVE  /\ sock' \in [Nodes -> [Conns -> SockState]] /\ WiresOK'
           /\ \A m \in Nodes, d \in Conns :
                 /\ m = n /\ d = c => sock'[m][d] = "closed" /\ wire'[m][d] = <<>> /\ ~HandleValid(m, d)'
                 /\ ~(m = n /\ d = c) => /\ sock'[m][d] = sock[m][d] /\ wire'[m][d] = wire[m][d]
                                         /\ HandleValid(m, d)' <=> HandleValid(m, d)
  <1> DEFINE s == [d \in Conns |-> IF d = c THEN "closed" ELSE sock[n][d]]
             w == [d \in Conns |-> IF d = c THEN <<>> ELSE wire[n][d]]
  <1>1. sock' = [sock EXCEPT ![n] = s] /\ wire' = [wire EXCEPT ![n] = w]
    BY DEF Disconnect
  <1>2. sock \in [Nodes -> [Conns -> SockState]] /\ WiresOK
    BY TypeParts
  <1>3. s \in [Conns -> SockState] /\ w \in [Conns -> Seq(Unit)]
    BY <1>2, EmptyWire DEF SockState, WiresOK
  <1>4. \A d \in Conns : s[d] = (IF d = c THEN "closed" ELSE sock[n][d]) /\ w[d] = IF d = c THEN <<>> ELSE wire[n][d]
    OBVIOUS
  <1> HIDE DEF s, w
  <1>5. /\ sock' \in [Nodes -> [Conns -> SockState]] /\ wire' \in [Nodes -> [Conns -> Seq(Unit)]]
        /\ \A m \in Nodes : sock'[m] = (IF m = n THEN s ELSE sock[m]) /\ wire'[m] = IF m = n THEN w ELSE wire[m]
    BY <1>1, <1>2, <1>3 DEF WiresOK
  <1>6. \A m \in Nodes, d \in Conns :
           /\ m = n /\ d = c => sock'[m][d] = "closed" /\ wire'[m][d] = <<>>
           /\ ~(m = n /\ d = c) => sock'[m][d] = sock[m][d] /\ wire'[m][d] = wire[m][d]
    BY <1>4, <1>5
  <1>7. \A m \in Nodes, d \in Conns : Len(wire'[m][d]) <= Buf
    BY <1>2, <1>6, EmptyWire, PeerAssumption DEF WiresOK
  <1> QED
    BY <1>5, <1>6, <1>7 DEF WiresOK, HandleValid

\* Nothing is sent, or the units arrive on the wire of the other end.
LEMMA SendFact ==
    ASSUME TypeOK, NEW n \in Nodes, NEW c, NEW units \in Seq(Unit), Send(n, c, units)
    PROVE  /\ WiresOK' /\ rst' \in [Conns -> BOOLEAN]
           /\ \/ wire' = wire
              \/ \A m \in Nodes, d \in Conns :
                    wire'[m][d] = IF m = Other(n) /\ d = c THEN wire[m][d] \o units ELSE wire[m][d]
           /\ wire' # wire => sock[Other(n)][c] \in {"open", "shut"}
  <1>1. rst' \in [Conns -> BOOLEAN]
    BY DEF Send, TypeOK
  <1>2. WiresOK /\ wire \in [Nodes -> [Conns -> Seq(Unit)]] /\ Other(n) \in Nodes
    BY TypeParts, NodeFact DEF WiresOK
  <1>3. CASE wire' = wire
    BY <1>1, <1>2, <1>3 DEF WiresOK
  <1>4. CASE /\ sock[Other(n)][c] \in {"open", "shut"} /\ Fits(Other(n), c, units)
             /\ wire' = [wire EXCEPT ![Other(n)][c] = wire[Other(n)][c] \o units]
    <2>0. PICK o \in Nodes : o = Other(n)
      BY <1>2
    <2>7. PICK v : v = wire[Other(n)][c] \o units
      BY <1>2
    <2>1. c \in Conns => v \in Seq(Unit)
      BY <1>2, <2>0, <2>7, AppendWire
    <2>5. wire' = [wire EXCEPT ![o][c] = v]
      BY <1>4, <2>0, <2>7
    <2>6. /\ wire' \in [Nodes -> [Conns -> Seq(Unit)]]
          /\ \A m \in Nodes, d \in Conns : wire'[m][d] = IF m = o /\ d = c THEN v ELSE wire[m][d]
      <3>1. /\ [wire EXCEPT ![o][c] = v] \in [Nodes -> [Conns -> Seq(Unit)]]
            /\ \A m \in Nodes, d \in Conns :
                  [wire EXCEPT ![o][c] = v][m][d] = IF m = o /\ d = c THEN v ELSE wire[m][d]
        BY <1>2, <2>1, RowUpdate, ZenonT(60)
      <3> QED
        BY <2>5, <3>1
    <2>2. /\ wire' \in [Nodes -> [Conns -> Seq(Unit)]]
          /\ \A m \in Nodes, d \in Conns :
                wire'[m][d] = IF m = Other(n) /\ d = c THEN wire[Other(n)][c] \o units ELSE wire[m][d]
      BY <2>0, <2>6, <2>7
    <2>3. c \in Conns => Len(wire[Other(n)][c] \o units) <= Buf
      BY <1>2, <1>4, AppendWire DEF Fits
    <2>4. \A m \in Nodes, d \in Conns : Len(wire'[m][d]) <= Buf
      BY <1>2, <2>2, <2>3 DEF WiresOK
    <2> QED
      BY <1>1, <1>4, <2>2, <2>4 DEF WiresOK
  <1> QED
    BY <1>3, <1>4 DEF Send

LEMMA WorkerRow ==
    ASSUME TypeOK, NEW n \in Nodes, NEW c \in Conns
    PROVE  worker[n][c] \in WorkerRec
  BY RowFact DEF WorkerRec

\* Changes of one field, and of one row.
WithPc(w, pc) == [w EXCEPT !.pc = pc]
WithStop(w) == [w EXCEPT !.stop = TRUE]
WithLabel(w, l) == [w EXCEPT !.label = l]
WithIntact(w, b) == [w EXCEPT !.intact = b]
SetWorker(n, c, w) == worker' = [worker EXCEPT ![n][c] = w]

LEMMA WorkerFields ==
    ASSUME NEW w \in WorkerRec
    PROVE  /\ \A pc \in WorkPc : /\ WithPc(w, pc) \in WorkerRec /\ WithPc(w, pc).pc = pc
                                 /\ WithPc(w, pc).label = w.label /\ WithPc(w, pc).intact = w.intact
           /\ WithStop(w) \in WorkerRec /\ WithStop(w).pc = w.pc
           /\ WithStop(w).label = w.label /\ WithStop(w).intact = w.intact
           /\ \A l \in 0 .. MaxMsgs : /\ WithLabel(w, l) \in WorkerRec /\ WithLabel(w, l).label = l
                                      /\ WithLabel(w, l).pc = w.pc /\ WithLabel(w, l).intact = w.intact
           /\ \A b \in BOOLEAN : /\ WithIntact(w, b) \in WorkerRec /\ WithIntact(w, b).intact = b
                                 /\ WithIntact(w, b).pc = w.pc /\ WithIntact(w, b).label = w.label
  BY DEF WorkerRec, WithPc, WithStop, WithLabel, WithIntact

LEMMA WorkerUpdate ==
    ASSUME TypeOK, NEW n \in Nodes, NEW c \in Conns, NEW w \in WorkerRec, SetWorker(n, c, w)
    PROVE  /\ worker' \in [Nodes -> [Conns -> WorkerRec]]
           /\ \A m \in Nodes, d \in Conns : worker'[m][d] = IF m = n /\ d = c THEN w ELSE worker[m][d]
  BY TypeParts, RowUpdate DEF SetWorker

\* A socket that is marked as not connected.
SetShut(n, c) == sock' = [sock EXCEPT ![n][c] = "shut"]

LEMMA ShutUpdate ==
    ASSUME TypeOK, NEW n \in Nodes, NEW c \in Conns, SetShut(n, c)
    PROVE  /\ sock' \in [Nodes -> [Conns -> SockState]]
           /\ \A m \in Nodes, d \in Conns : sock'[m][d] = IF m = n /\ d = c THEN "shut" ELSE sock[m][d]
  <1>1. PICK v \in SockState : v = "shut"
    BY DEF SockState
  <1>2. sock' = [sock EXCEPT ![n][c] = v]
    BY <1>1 DEF SetShut
  <1>3. /\ sock' \in [Nodes -> [Conns -> SockState]]
        /\ \A m \in Nodes, d \in Conns : sock'[m][d] = IF m = n /\ d = c THEN v ELSE sock[m][d]
    BY <1>2, TypeParts, RowUpdate
  <1> QED
    BY <1>1, <1>3

-----------------------------------------------------------------------------
(* Quiet steps. *)

LEMMA QuietSame ==
    /\ UNCHANGED <<sock, wire>> => \A n \in Nodes, c \in Conns : QuietWire(n, c)
    /\ UNCHANGED worker => \A n \in Nodes, c \in Conns : QuietWorker(n, c)
  BY DEF QuietWire, QuietWorker, HandleValid

LEMMA PendingFact ==
    ASSUME CInv
    PROVE  /\ \A c \in Pending(Lo) : c \in Conns /\ c > registry[Lo] /\ HandleValid(Lo, c)
           /\ \A n \in Nodes : registry[n] \in Nat
  <1>0. \A n \in Nodes : registry[n] \in Nat
    BY TypeFact, ConnFact DEF CInv
  <1>1. \A c \in Pending(Lo) : c \in Conns /\ HandleValid(Lo, c)
    BY BacklogFact, NodeFact DEF CInv, SockInv
  <1>2. \A c \in InBacklog(Lo) : registry[Lo] < c
    BY NodeFact DEF CInv, PlaceInv, InBacklog
  <1>3. \A c \in Pending(Lo) : registry[Lo] < c
    BY <1>2 DEF CInv, PlaceInv, RoleInv, Pending
  <1> QED
    BY <1>0, <1>1, <1>3, ConnFact, NodeFact

LEMMA QuietMon ==
    ASSUME CInv, NEW n \in Nodes, NEW pc \in {"sleep", "ping", "stop", "join", "connect"}, NEW c \in ConnOrNone,
           MonGoto(n, pc, c), UNCHANGED <<registry, used, backlog, acc>>,
           \A m \in Nodes : entry'[m] = entry[m] \/ (entry'[m] = None /\ Reading(m) = {}),
           pc = "ping" => c = registry[n],
           n = Hi /\ pc \in {"stop", "join", "connect"} => \A d \in Conns : ~HandleValid(Hi, d)',
           mon[n].pc \in {"ident", "register"} => \A d \in Conns : d = mon[n].conn => ~HandleValid(n, d)',
           \A d \in Conns : d > registry[Lo] /\ HandleValid(Lo, d) => HandleValid(Lo, d)',
           \A d \in Conns : HandleValid(Hi, d)' => HandleValid(Hi, d)
    PROVE  QuietControl
  <1> USE NodeFact DEF CInv
  <1>1. pc \in MonPc /\ mon'[n].pc = pc /\ mon'[n].conn = c /\ \A m \in Nodes : m # n => mon'[m] = mon[m]
    BY MonGotoFact DEF MonPc
  <1>2. \A d \in Pending(Lo)' : HandleValid(Lo, d)'
    <2>1. Pending(Lo)' \subseteq Pending(Lo)
      BY <1>1 DEF Pending, InBacklog
    <2> QED
      BY <2>1, PendingFact
  <1>3. /\ mon'[Lo].pc \notin {"ident", "register", "start"}
        /\ mon'[Hi].pc \in {"ident", "register", "start"} => mon'[Hi] = mon[Hi]
        /\ \A m \in Nodes : mon'[m].pc = "ping" => mon'[m] = mon[m] \/ mon'[m].conn = registry[m]
    BY <1>1 DEF RoleInv
  <1>4. mon'[Hi].pc \in {"stop", "join", "connect"} => \A d \in Conns : ~HandleValid(Hi, d)'
    BY <1>1 DEF SockInv
  <1>5. mon[Hi].pc \in {"ident", "register"} /\ mon'[Hi] # mon[Hi] =>
            \A d \in Conns : d = mon[Hi].conn => ~HandleValid(Hi, d)'
    BY <1>1
  <1> QED
    BY <1>2, <1>3, <1>4, <1>5 DEF QuietControl, RoleInv

LEMMA QuietStill ==
    ASSUME CInv, UNCHANGED <<registry, entry, used, backlog, mon, acc>>,
           \A d \in Conns : d > registry[Lo] /\ HandleValid(Lo, d) => HandleValid(Lo, d)',
           \A d \in Conns : HandleValid(Hi, d)' => HandleValid(Hi, d)
    PROVE  QuietControl
  <1> USE NodeFact DEF CInv
  <1>1. \A d \in Pending(Lo)' : HandleValid(Lo, d)'
    <2>1. Pending(Lo)' = Pending(Lo)
      BY DEF Pending, InBacklog
    <2> QED
      BY <2>1, PendingFact
  <1> QED
    BY <1>1 DEF QuietControl, RoleInv, SockInv

LEMMA QuietAcc ==
    ASSUME CInv, AccGoto(Lo, "accept", None), acc[Lo].pc = "ident",
           UNCHANGED <<registry, entry, used, backlog, mon>>,
           \A d \in Conns : IF d = acc[Lo].conn THEN ~HandleValid(Lo, d)' ELSE HandleValid(Lo, d)' = HandleValid(Lo, d),
           \A d \in Conns : HandleValid(Hi, d)' => HandleValid(Hi, d)
    PROVE  QuietControl
  <1> USE NodeFact DEF CInv
  <1>1. acc'[Lo].pc = "accept" /\ acc'[Hi] = acc[Hi]
    BY AccGotoFact, ConnFact DEF AccPc
  <1>2. \A d \in Pending(Lo)' : HandleValid(Lo, d)'
    <2> SUFFICES ASSUME NEW d \in Pending(Lo)' PROVE HandleValid(Lo, d)'
      OBVIOUS
    <2>1. d \in InBacklog(Lo) /\ d \in Pending(Lo) /\ d \in Conns /\ HandleValid(Lo, d)
      BY <1>1, PendingFact DEF Pending, InBacklog, RoleInv
    <2>2. d # acc[Lo].conn
      <3>1. PICK i \in 1 .. Len(backlog[Lo]) : d = backlog[Lo][i]
        BY <2>1 DEF InBacklog
      <3>2. acc[Lo].conn < d /\ d \in Nat /\ acc[Lo].conn \in Nat
        BY <2>1, <3>1, TypeFact, ConnFact DEF PlaceInv
      <3> QED
        BY <3>2
    <2> QED
      BY <2>1, <2>2
  <1> QED
    BY <1>1, <1>2 DEF QuietControl, RoleInv, SockInv

LEMMA TypePrime ==
    ASSUME up' \in [Nodes -> BOOLEAN],
           registry' \in [Nodes -> ConnOrNone], entry' \in [Nodes -> ConnOrNone],
           worker' \in [Nodes -> [Conns -> WorkerRec]],
           mon' \in [Nodes -> [pc : MonPc, conn : ConnOrNone]],
           acc' \in [Nodes -> [pc : AccPc, conn : ConnOrNone]],
           backlog' \in [Nodes -> Seq(Conns)],
           sock' \in [Nodes -> [Conns -> SockState]], WiresOK',
           rst' \in [Conns -> BOOLEAN],
           used' \in 0 .. MaxConns, faults' \in 0 .. MaxFaults, torn' \subseteq Conns,
           sent' \in [Nodes -> 0 .. MaxMsgs],
           got' \in [Nodes -> [label : 0 .. MaxMsgs, intact : BOOLEAN]]
    PROVE  TypeOK'
  BY DEF TypeOK, WorkerRec, WorkPc, SockState, WiresOK, MonPc, AccPc, ConnOrNone

LEMMA SentSame ==
    ASSUME TypeOK, sent' = sent PROVE \A n \in Nodes : sent[n] <= sent'[n]
  BY TypeFact

LEMMA MonTickInv ==
    ASSUME IInv, NEW n \in Nodes, MonTick(n) PROVE IInv'
  <1> USE NodeFact DEF IInv
  <1>0. CInv /\ TypeOK
    BY DEF CInv
  <1>1. /\ UNCHANGED <<up, sock, wire, rst, used, faults, torn, registry, entry, worker, acc, backlog, sent, got>>
        /\ mon[n].pc = "sleep"
        /\ \/ registry[n] = None /\ n = Hi /\ MonGoto(n, "connect", None)
           \/ registry[n] # None /\ MonGoto(n, "ping", registry[n])
    BY DEF MonTick, MonAt, net
  <1>2. registry[n] \in ConnOrNone /\ None \in ConnOrNone /\ {"connect", "ping"} \subseteq MonPc
    BY <1>0, TypeFact, ConnFact DEF MonPc
  <1>3. TypeOK'
    BY <1>0, <1>1, <1>2, TypeParts, TypePrime, MonGotoFact DEF WiresOK
  <1>4. (\A d \in Conns : HandleValid(Lo, d) <=> HandleValid(Lo, d)') /\ (\A d \in Conns : HandleValid(Hi, d) <=> HandleValid(Hi, d)')
    BY <1>1 DEF HandleValid
  <1>5. QuietControl
    <2>1. CASE registry[n] = None /\ n = Hi /\ MonGoto(n, "connect", None)
      <3>1. \A d \in Conns : ~HandleValid(Hi, d)
        <4>1. Pending(Hi) = {}
          BY <1>1, <2>1, EmptyWire DEF CInv, Pending, InBacklog, RoleInv
        <4> QED
          BY <2>1, <4>1, ConnFact DEF CInv, SockInv
      <3> QED
        BY <1>0, <1>1, <1>2, <1>4, <2>1, <3>1, QuietMon
    <2>2. CASE MonGoto(n, "ping", registry[n])
      BY <1>0, <1>1, <1>2, <1>4, <2>2, QuietMon
    <2> QED
      BY <1>1, <2>1, <2>2
  <1> QED
    BY <1>0, <1>1, <1>3, <1>5, QuietSame, SentSame, Quiet

LEMMA MonConnectFailsInv ==
    ASSUME IInv, NEW n \in Nodes, MonConnectFails(n) PROVE IInv'
  <1> USE NodeFact DEF IInv
  <1>0. CInv /\ TypeOK
    BY DEF CInv
  <1>1. /\ UNCHANGED <<up, sock, wire, rst, used, faults, torn, registry, entry, worker, acc, backlog, sent, got>>
        /\ mon[n].pc = "connect" /\ MonGoto(n, "sleep", None)
    BY DEF MonConnectFails, MonAt, net
  <1>2. None \in ConnOrNone /\ "sleep" \in MonPc
    BY ConnFact DEF MonPc
  <1>3. TypeOK'
    BY <1>0, <1>1, <1>2, TypeParts, TypePrime, MonGotoFact DEF WiresOK
  <1>4. (\A d \in Conns : HandleValid(Lo, d) <=> HandleValid(Lo, d)') /\ (\A d \in Conns : HandleValid(Hi, d) <=> HandleValid(Hi, d)')
    BY <1>1 DEF HandleValid
  <1>5. QuietControl
    BY <1>0, <1>1, <1>2, <1>4, QuietMon
  <1> QED
    BY <1>0, <1>1, <1>3, <1>5, QuietSame, SentSame, Quiet

LEMMA MonDisconnectInv ==
    ASSUME IInv, NEW n \in Nodes, MonDisconnect(n) PROVE IInv'
  <1> USE NodeFact DEF IInv
  <1>0. CInv /\ TypeOK
    BY DEF CInv
  <1>1. PICK c \in ConnOrNone : c = mon[n].conn
    BY <1>0, TypeFact
  <1>2. /\ UNCHANGED <<up, rst, used, faults, torn, registry, entry, worker, acc, backlog, sent, got>>
        /\ mon[n].pc = "ping" /\ Disconnect(n, c) /\ MonGoto(n, "stop", None)
    BY <1>1 DEF MonDisconnect, MonAt
  <1>3. None \in ConnOrNone /\ "stop" \in MonPc
    BY ConnFact DEF MonPc
  <1>4. TypeOK'
    BY <1>0, <1>2, <1>3, TypeParts, TypePrime, MonGotoFact, DisconnectFact
  <1>5. \A m \in Nodes, d \in Conns : QuietWire(m, d)
    BY <1>0, <1>2, DisconnectFact DEF QuietWire
  <1>6. \A d \in Conns : d > registry[Lo] /\ HandleValid(Lo, d) => HandleValid(Lo, d)'
    <2>1. c \in Nat /\ registry[Lo] \in Nat /\ (n = Lo => c <= registry[Lo])
      BY <1>0, <1>1, <1>2, TypeFact, ConnFact DEF CInv, PlaceInv
    <2> QED
      BY <1>0, <1>2, <2>1, DisconnectFact, ConnFact
  <1>7. \A d \in Conns : (HandleValid(Hi, d)' => HandleValid(Hi, d)) /\ (n = Hi => ~HandleValid(Hi, d)')
    <2>1. n = Hi => c = registry[Hi]
      BY <1>1, <1>2 DEF CInv, PlaceInv
    <2>2. n = Hi => \A d \in Conns : HandleValid(Hi, d) => d = registry[Hi]
      BY <1>2 DEF CInv, SockInv, Pending, InBacklog, RoleInv
    <2> QED
      BY <1>0, <1>2, <2>1, <2>2, DisconnectFact
  <1>8. QuietControl
    BY <1>0, <1>2, <1>3, <1>6, <1>7, QuietMon
  <1> QED
    BY <1>0, <1>2, <1>4, <1>5, <1>8, QuietSame, SentSame, Quiet

LEMMA MonIdentFailsInv ==
    ASSUME IInv, NEW n \in Nodes, MonIdentFails(n) PROVE IInv'
  <1> USE NodeFact DEF IInv
  <1>0. CInv /\ TypeOK
    BY DEF CInv
  <1>1. PICK c \in ConnOrNone : c = mon[n].conn
    BY <1>0, TypeFact
  <1>2. /\ UNCHANGED <<up, rst, used, faults, torn, registry, entry, worker, acc, backlog, sent, got>>
        /\ mon[n].pc = "ident" /\ Disconnect(n, c) /\ MonGoto(n, "sleep", None)
    BY <1>1 DEF MonIdentFails, MonAt
  <1>3. None \in ConnOrNone /\ "sleep" \in MonPc /\ n = Hi
    BY <1>2, ConnFact DEF MonPc, CInv, RoleInv
  <1>4. TypeOK'
    BY <1>0, <1>2, <1>3, TypeParts, TypePrime, MonGotoFact, DisconnectFact
  <1>5. \A m \in Nodes, d \in Conns : QuietWire(m, d)
    BY <1>0, <1>2, DisconnectFact DEF QuietWire
  <1>6. /\ \A d \in Conns : HandleValid(Lo, d) => HandleValid(Lo, d)'
        /\ \A d \in Conns : HandleValid(Hi, d)' => HandleValid(Hi, d)
        /\ \A d \in Conns : d = c => ~HandleValid(Hi, d)'
    BY <1>0, <1>2, <1>3, DisconnectFact
  <1>8. QuietControl
    BY <1>0, <1>1, <1>2, <1>3, <1>6, QuietMon
  <1> QED
    BY <1>0, <1>2, <1>4, <1>5, <1>8, QuietSame, SentSame, Quiet

LEMMA MonStopInv ==
    ASSUME IInv, NEW n \in Nodes, MonStop(n) PROVE IInv'
  <1> USE NodeFact DEF IInv
  <1>0. CInv /\ TypeOK
    BY DEF CInv
  <1>1. /\ UNCHANGED <<up, sock, wire, rst, used, faults, torn, registry, entry, acc, backlog, sent, got>>
        /\ mon[n].pc = "stop"
        /\ \/ MonGoto(n, "connect", None) /\ worker' = worker
           \/ /\ MonGoto(n, "join", None) /\ entry[n] # None
              /\ worker' = [worker EXCEPT ![n][entry[n]].stop = TRUE]
    BY DEF MonStop, MonAt, net
  <1>2. None \in ConnOrNone /\ "join" \in MonPc /\ "connect" \in MonPc
    BY ConnFact DEF MonPc
  <1>3. (\A d \in Conns : HandleValid(Lo, d) <=> HandleValid(Lo, d)') /\ (\A d \in Conns : HandleValid(Hi, d) <=> HandleValid(Hi, d)')
    BY <1>1 DEF HandleValid
  <1>4. worker' \in [Nodes -> [Conns -> WorkerRec]] /\ \A m \in Nodes, d \in Conns : QuietWorker(m, d)
    <2>1. CASE worker' = worker
      BY <1>0, <2>1, TypeParts, QuietSame
    <2>2. CASE entry[n] # None /\ worker' = [worker EXCEPT ![n][entry[n]].stop = TRUE]
      <3>1. PICK c \in Conns : c = entry[n]
        BY <1>0, <2>2, TypeFact DEF ConnOrNone
      <3>2. PICK w \in WorkerRec : w = WithStop(worker[n][c])
        BY <1>0, WorkerRow, WorkerFields
      <3>3. w.pc = worker[n][c].pc /\ w.label = worker[n][c].label /\ w.intact = worker[n][c].intact
        BY <1>0, <3>2, WorkerRow, WorkerFields
      <3>4. SetWorker(n, c, w)
        BY <2>2, <3>1, <3>2 DEF SetWorker, WithStop
      <3>5. /\ worker' \in [Nodes -> [Conns -> WorkerRec]]
            /\ \A m \in Nodes, d \in Conns : worker'[m][d] = IF m = n /\ d = c THEN w ELSE worker[m][d]
        BY <1>0, <3>4, WorkerUpdate
      <3> QED
        BY <3>3, <3>5 DEF QuietWorker
    <2> QED
      BY <1>1, <2>1, <2>2
  <1>5. TypeOK'
    BY <1>0, <1>1, <1>2, <1>4, TypeParts, TypePrime, MonGotoFact DEF WiresOK
  <1>6. n = Hi => \A d \in Conns : ~HandleValid(Hi, d)
    BY <1>1 DEF CInv, SockInv
  <1>8. QuietControl
    BY <1>0, <1>1, <1>2, <1>3, <1>6, QuietMon
  <1> QED
    BY <1>0, <1>1, <1>4, <1>5, <1>8, QuietSame, SentSame, Quiet

LEMMA MonJoinInv ==
    ASSUME IInv, NEW n \in Nodes, MonJoin(n) PROVE IInv'
  <1> USE NodeFact DEF IInv
  <1>0. CInv /\ TypeOK
    BY DEF CInv
  <1>1. /\ UNCHANGED <<up, sock, wire, rst, used, faults, torn, registry, worker, acc, backlog, sent, got>>
        /\ mon[n].pc = "join" /\ MonGoto(n, "connect", None)
        /\ worker[n][entry[n]].pc = "exit" /\ entry' = [entry EXCEPT ![n] = None]
    BY DEF MonJoin, MonAt, net, Joined
  <1>2. None \in ConnOrNone /\ "connect" \in MonPc
    BY ConnFact DEF MonPc
  <1>3. (\A d \in Conns : HandleValid(Lo, d) <=> HandleValid(Lo, d)') /\ (\A d \in Conns : HandleValid(Hi, d) <=> HandleValid(Hi, d)')
    BY <1>1 DEF HandleValid
  <1>4. /\ entry' \in [Nodes -> ConnOrNone] /\ entry'[n] = None
        /\ \A m \in Nodes : m # n => entry'[m] = entry[m]
    BY <1>0, <1>1, <1>2, TypeParts
  <1>5. TypeOK'
    BY <1>0, <1>1, <1>2, <1>4, TypeParts, TypePrime, MonGotoFact DEF WiresOK
  <1>6. Reading(n) = {}
    BY <1>1 DEF CInv, WorkerInv, Reading
  <1>7. n = Hi => \A d \in Conns : ~HandleValid(Hi, d)
    BY <1>1 DEF CInv, SockInv
  <1>8. QuietControl
    BY <1>0, <1>1, <1>2, <1>3, <1>4, <1>6, <1>7, QuietMon
  <1> QED
    BY <1>0, <1>1, <1>5, <1>8, QuietSame, SentSame, Quiet

\* The accept thread gives a client up.
LEMMA AccDropInv ==
    ASSUME IInv, NEW n \in Nodes, acc[n].pc = "ident", NEW c, c = acc[n].conn, Disconnect(n, c), AccGoto(n, "accept", None),
           UNCHANGED <<up, rst, used, faults, torn, registry, entry, worker, mon, backlog, sent, got>>
    PROVE  IInv'
  <1> USE NodeFact DEF IInv
  <1>0. CInv /\ TypeOK
    BY DEF CInv
  <1>1. n = Lo
    BY DEF CInv, RoleInv
  <1>2. None \in ConnOrNone /\ "accept" \in AccPc
    BY ConnFact DEF AccPc
  <1>3. TypeOK'
    BY <1>0, <1>2, TypeParts, TypePrime, AccGotoFact, DisconnectFact
  <1>4. \A m \in Nodes, d \in Conns : QuietWire(m, d)
    BY <1>0, DisconnectFact DEF QuietWire
  <1>5. QuietControl
    <2>1. /\ \A d \in Conns : IF d = acc[Lo].conn THEN ~HandleValid(Lo, d)' ELSE HandleValid(Lo, d)' = HandleValid(Lo, d)
          /\ \A d \in Conns : HandleValid(Hi, d)' => HandleValid(Hi, d)
      BY <1>0, <1>1, DisconnectFact DEF HandleValid
    <2> QED
      BY <1>0, <1>1, <2>1, QuietAcc
  <1> QED
    BY <1>0, <1>3, <1>4, <1>5, QuietSame, SentSame, Quiet

LEMMA WorkLoopInv ==
    ASSUME IInv, NEW n \in Nodes, NEW c \in Conns, WorkLoop(n, c) PROVE IInv'
  <1> USE NodeFact DEF IInv
  <1>0. CInv /\ TypeOK
    BY DEF CInv
  <1>1. PICK pc \in {"exit", "head"} : worker' = [worker EXCEPT ![n][c].pc = pc]
    BY DEF WorkLoop, WorkGoto
  <1>2. /\ UNCHANGED <<up, sock, wire, rst, used, faults, torn, registry, entry, mon, acc, backlog, sent, got>>
        /\ worker[n][c].pc = "loop"
    BY DEF WorkLoop, WorkAt, net
  <1>3. PICK w \in WorkerRec : w = WithPc(worker[n][c], pc)
    BY <1>0, WorkerRow, WorkerFields DEF WorkPc
  <1>4. w.pc = pc /\ w.label = worker[n][c].label /\ w.intact = worker[n][c].intact
    BY <1>0, <1>3, WorkerRow, WorkerFields DEF WorkPc
  <1>5. SetWorker(n, c, w)
    BY <1>1, <1>3 DEF SetWorker, WithPc
  <1>6. worker' \in [Nodes -> [Conns -> WorkerRec]] /\ \A m \in Nodes, d \in Conns : QuietWorker(m, d)
    <2>1. /\ worker' \in [Nodes -> [Conns -> WorkerRec]]
          /\ \A m \in Nodes, d \in Conns : worker'[m][d] = IF m = n /\ d = c THEN w ELSE worker[m][d]
      BY <1>0, <1>5, WorkerUpdate
    <2> QED
      BY <1>2, <1>4, <2>1 DEF QuietWorker
  <1>7. TypeOK'
    BY <1>0, <1>2, <1>6, TypeParts, TypePrime DEF WiresOK
  <1>8. QuietControl
    BY <1>0, <1>2, QuietStill DEF HandleValid
  <1> QED
    BY <1>0, <1>2, <1>6, <1>7, <1>8, QuietSame, SentSame, Quiet

\* A worker ends, and may have closed its connection or marked it.
LEMMA WorkExitInv ==
    ASSUME IInv, NEW n \in Nodes, NEW c \in Conns, c \in Reading(n), NEW w \in WorkerRec,
           w.pc = "exit", w.label = worker[n][c].label, w.intact = worker[n][c].intact,
           SetWorker(n, c, w),
           UNCHANGED <<up, rst, used, faults, torn, registry, entry, mon, acc, backlog, sent, got>>,
           \/ UNCHANGED <<sock, wire>>
           \/ Disconnect(n, c)
           \/ HandleValid(n, c) /\ SetShut(n, c) /\ wire' = wire
    PROVE  IInv'
  <1> USE NodeFact DEF IInv
  <1>0. CInv /\ TypeOK
    BY DEF CInv
  <1>1. worker' \in [Nodes -> [Conns -> WorkerRec]] /\ \A m \in Nodes, d \in Conns : QuietWorker(m, d)
    <2>1. worker[n][c].pc # "none"
      BY DEF Reading
    <2>2. /\ worker' \in [Nodes -> [Conns -> WorkerRec]]
          /\ \A m \in Nodes, d \in Conns : worker'[m][d] = IF m = n /\ d = c THEN w ELSE worker[m][d]
      BY <1>0, WorkerUpdate
    <2> QED
      BY <2>1, <2>2 DEF QuietWorker
  <1>2. /\ sock' \in [Nodes -> [Conns -> SockState]] /\ WiresOK'
        /\ \A m \in Nodes, d \in Conns : QuietWire(m, d)
        /\ \A m \in Nodes, d \in Conns : ~(m = n /\ d = c) => (HandleValid(m, d)' <=> HandleValid(m, d))
        /\ \A d \in Conns : HandleValid(Hi, d)' => HandleValid(Hi, d)
    <2>1. CASE UNCHANGED <<sock, wire>>
      BY <1>0, <2>1, TypeParts, QuietSame DEF WiresOK, HandleValid
    <2>2. CASE Disconnect(n, c)
      BY <1>0, <2>2, DisconnectFact DEF QuietWire
    <2>3. CASE HandleValid(n, c) /\ SetShut(n, c) /\ wire' = wire
      <3>1. /\ sock' \in [Nodes -> [Conns -> SockState]]
            /\ \A m \in Nodes, d \in Conns : sock'[m][d] = IF m = n /\ d = c THEN "shut" ELSE sock[m][d]
        BY <1>0, <2>3, ShutUpdate
      <3>2. \A m \in Nodes, d \in Conns : HandleValid(m, d)' <=> HandleValid(m, d)
        BY <2>3, <3>1 DEF HandleValid
      <3> QED
        BY <1>0, <2>3, <3>1, <3>2, TypeParts DEF QuietWire, WiresOK
    <2> QED
      BY <2>1, <2>2, <2>3
  <1>3. TypeOK'
    BY <1>0, <1>1, <1>2, TypeParts, TypePrime
  <1>4. \A d \in Conns : d > registry[Lo] /\ HandleValid(Lo, d) => HandleValid(Lo, d)'
    <2>1. n = Lo => c <= registry[Lo]
      BY DEF CInv, WorkerInv, Reading
    <2>2. c \in Nat /\ registry[Lo] \in Nat
      BY <1>0, PendingFact, ConnFact
    <2> QED
      BY <1>2, <2>1, <2>2, ConnFact
  <1>5. QuietControl
    BY <1>0, <1>2, <1>4, QuietStill
  <1> QED
    BY <1>0, <1>1, <1>2, <1>3, <1>5, SentSame, Quiet

LEMMA WorkRecvFailsInv ==
    ASSUME IInv, NEW n \in Nodes, NEW c \in Conns, WorkRecvFails(n, c) PROVE IInv'
  <1> USE DEF IInv
  <1>0. CInv /\ TypeOK
    BY DEF CInv
  <1>1. /\ UNCHANGED <<up, wire, rst, used, faults, torn, registry, entry, mon, acc, backlog, sent, got>>
        /\ worker' = [worker EXCEPT ![n][c].pc = "exit"]
        /\ (HandleValid(n, c) /\ SetShut(n, c)) \/ sock' = sock
        /\ c \in Reading(n)
    BY DEF WorkRecvFails, WorkGoto, WorkAt, AtEof, Reading, SetShut
  <1>2. PICK w \in WorkerRec : w = WithPc(worker[n][c], "exit")
    BY <1>0, WorkerRow, WorkerFields DEF WorkPc
  <1>3. w.pc = "exit" /\ w.label = worker[n][c].label /\ w.intact = worker[n][c].intact
    BY <1>0, <1>2, WorkerRow, WorkerFields DEF WorkPc
  <1>4. SetWorker(n, c, w)
    BY <1>1, <1>2 DEF SetWorker, WithPc
  <1>5. CASE sock' = sock
    BY <1>1, <1>3, <1>4, <1>5, WorkExitInv
  <1>6. CASE HandleValid(n, c) /\ SetShut(n, c)
    BY <1>1, <1>3, <1>4, <1>6, WorkExitInv
  <1> QED
    BY <1>1, <1>5, <1>6

LEMMA ResetRestartInv ==
    ASSUME IInv, (\E c \in Conns : Reset(c)) \/ (\E n \in Nodes : Restart(n)) PROVE IInv'
  <1> USE NodeFact DEF IInv
  <1>0. CInv /\ TypeOK
    BY DEF CInv
  <1>1. UNCHANGED <<sock, wire, used, torn, registry, entry, worker, mon, acc, backlog, sent, got>>
    BY DEF Reset, Restart
  <1>2. up' \in [Nodes -> BOOLEAN] /\ rst' \in [Conns -> BOOLEAN] /\ faults' \in 0 .. MaxFaults
    <2>1. up \in [Nodes -> BOOLEAN] /\ rst \in [Conns -> BOOLEAN] /\ faults \in 0 .. MaxFaults
      BY <1>0, TypeParts
    <2>2. ASSUME NEW c \in Conns, Reset(c) PROVE up' = up /\ rst' \in [Conns -> BOOLEAN] /\ faults' \in 0 .. MaxFaults
      BY <2>1, <2>2, ConnFact DEF Reset
    <2>3. ASSUME NEW n \in Nodes, Restart(n) PROVE up' \in [Nodes -> BOOLEAN] /\ rst' = rst /\ faults' = faults
      BY <2>1, <2>3 DEF Restart
    <2> QED
      BY <2>1, <2>2, <2>3
  <1>3. TypeOK'
    BY <1>0, <1>1, <1>2, TypeParts, TypePrime DEF WiresOK
  <1>4. QuietControl
    BY <1>0, <1>1, QuietStill DEF HandleValid
  <1> QED
    BY <1>0, <1>1, <1>3, <1>4, QuietSame, SentSame, Quiet

-----------------------------------------------------------------------------
(* Sending. *)

\* The units arrive on the other end of the connection.
Arrives(n, c, units) ==
    /\ sock' = sock /\ HandleValid(Other(n), c)
    /\ \A m \in Nodes, d \in Conns :
          wire'[m][d] = IF m = Other(n) /\ d = c THEN wire[m][d] \o units ELSE wire[m][d]

\* Hi sends only on a connection on which it has identified itself.
LEMMA ArriveIds ==
    ASSUME CInv, IdInv, QuietControl, acc' = acc, NEW n \in Nodes, NEW c \in Conns, c = registry[n],
           NEW units \in Seq(Unit), NoId(units), Arrives(n, c, units)
    PROVE  IdInv'
  <1> SUFFICES ASSUME NEW d \in Conns PROVE IdRow(d)'
    BY DEF IdInv
  <1> USE NodeFact
  <1>1. IdRow(d) /\ wire[Lo][d] \in Seq(Unit) /\ wire[Hi][d] \in Seq(Unit)
    BY RowFact DEF IdInv, CInv
  <1>2. Waiting' = Waiting /\ (HandleValid(Lo, d)' <=> HandleValid(Lo, d)) /\ registry' = registry
    BY DEF Waiting, InBacklog, QuietControl, Arrives, HandleValid
  <1>3. mon'[Hi].pc \in {"ident", "register"} => mon'[Hi] = mon[Hi]
    BY DEF QuietControl
  <1>4. CASE n = Lo
    <2>1. wire'[Lo][d] = wire[Lo][d] /\ wire'[Hi][d] = IF d = c THEN wire[Hi][d] \o units ELSE wire[Hi][d]
      BY <1>4 DEF Arrives
    <2>2. NoId(wire'[Hi][d])
      BY <1>1, <2>1, AppendWire DEF IdRow
    <2> QED
      BY <1>1, <1>2, <1>3, <2>1, <2>2 DEF IdRow, NoId
  <1>5. CASE n = Hi /\ d # c
    <2>1. wire'[Lo][d] = wire[Lo][d] /\ wire'[Hi][d] = wire[Hi][d]
      BY <1>5 DEF Arrives
    <2> QED
      BY <1>1, <1>2, <1>3, <2>1 DEF IdRow, NoId
  <1>6. CASE n = Hi /\ d = c
    <2>1. wire'[Lo][d] = wire[Lo][d] \o units /\ wire'[Hi][d] = wire[Hi][d]
      BY <1>6 DEF Arrives
    <2>2. ~(mon'[Hi].pc = "ident" /\ mon'[Hi].conn = d)
      <3>1. mon[Hi].pc = "ident" => registry[Hi] < mon[Hi].conn /\ mon[Hi].conn \in Nat /\ registry[Hi] \in Nat
        BY TypeFact, ConnFact DEF CInv, PlaceInv
      <3> QED
        BY <1>3, <1>6, <3>1
    <2>3. CASE d \in Waiting
      <3>1. wire[Lo][d] # <<>> /\ Head(wire[Lo][d]) = IdUnit /\ NoId(Tail(wire[Lo][d]))
        BY <1>1, <1>6, <2>3 DEF IdRow
      <3>2. Tail(wire[Lo][d]) \in Seq(Unit)
        BY <1>1, <3>1, TailWire
      <3>4. /\ wire'[Lo][d] # <<>> /\ Head(wire'[Lo][d]) = Head(wire[Lo][d])
            /\ Tail(wire'[Lo][d]) = Tail(wire[Lo][d]) \o units
        <4>1. PICK w \in Seq(Unit) : w = wire[Lo][d]
          BY <1>1
        <4>2. w # <<>> /\ wire'[Lo][d] = w \o units
          BY <2>1, <3>1, <4>1
        <4>3. w \o units # <<>> /\ Head(w \o units) = Head(w) /\ Tail(w \o units) = Tail(w) \o units
          BY <4>2, AppendWire
        <4> QED
          BY <4>1, <4>2, <4>3
      <3>3. wire'[Lo][d] # <<>> /\ Head(wire'[Lo][d]) = IdUnit /\ NoId(Tail(wire'[Lo][d]))
        BY <3>1, <3>2, <3>4, AppendWire
      <3> QED
        BY <1>1, <1>2, <2>1, <2>2, <2>3, <3>3 DEF IdRow, NoId
    <2>4. CASE d \notin Waiting
      <3>1. NoId(wire'[Lo][d])
        BY <1>1, <2>1, <2>4, AppendWire DEF IdRow
      <3> QED
        BY <1>1, <1>2, <2>1, <2>2, <2>4, <3>1 DEF IdRow, NoId
    <2> QED
      BY <2>3, <2>4
  <1> QED
    BY <1>4, <1>5, <1>6

LEMMA PendingAbove ==
    ASSUME CInv, NEW n \in Nodes
    PROVE  \A c \in Pending(n) : c \in Conns /\ registry[n] < c
  <1> USE NodeFact DEF CInv
  <1>1. CASE n = Lo
    BY <1>1, PendingFact, ConnFact
  <1>2. CASE n = Hi
    <2>1. InBacklog(n) = {}
      BY <1>2, EmptyWire DEF RoleInv, InBacklog
    <2> QED
      BY <1>2, <2>1 DEF RoleInv, PlaceInv, Pending
  <1> QED
    BY <1>1, <1>2

\* A label that is sent is larger than all that are known.
LEMMA ArriveOrder ==
    ASSUME CInv, OrderInv, TypeOK', UNCHANGED <<registry, worker, got>>, NEW n \in Nodes, NEW c \in Conns,
           \A m \in Nodes : Pending(m)' \subseteq Pending(m),
           NEW units \in Seq(Unit), Arrives(n, c, units), Ordered(units), HeadsOf(units) \subseteq {sent[n] + 1},
           \A m \in Nodes : sent[m] <= sent'[m],
           HeadsOf(units) # {} => sent'[n] = sent[n] + 1 /\ c = registry[n]
    PROVE  OrderInv'
  <1> USE NodeFact DEF CInv
  <1>0. \A m \in Nodes : /\ sent[m] \in Nat /\ sent'[m] \in Nat /\ sent[m] <= sent'[m]
                         /\ got[m].label \in Nat /\ got[m].label <= sent[Other(m)]
                         /\ registry[m] \in Nat
    <2>1. sent' \in [Nodes -> 0 .. MaxMsgs]
      BY DEF TypeOK
    <2>2. \A m \in Nodes : sent[m] \in 0 .. MaxMsgs /\ got[m].label \in 0 .. MaxMsgs /\ registry[m] \in ConnOrNone
      BY TypeFact
    <2>3. \A m \in Nodes : got[m].label <= sent[Other(m)]
      BY DEF OrderInv
    <2>4. \A m \in Nodes : sent[m] \in Nat /\ sent'[m] \in Nat /\ got[m].label \in Nat
      BY <2>1, <2>2, ConnFact
    <2>5. \A m \in Nodes : registry[m] \in Nat
      BY <2>2, ConnFact
    <2> QED
      BY <2>3, <2>4, <2>5
  <1>1. \A m \in Nodes, d \in Conns : HeadsOf(wire'[m][d]) =
           IF m = Other(n) /\ d = c THEN HeadsOf(wire[m][d]) \union HeadsOf(units) ELSE HeadsOf(wire[m][d])
    <2> SUFFICES ASSUME NEW m \in Nodes, NEW d \in Conns
                 PROVE  HeadsOf(wire'[m][d]) =
           IF m = Other(n) /\ d = c THEN HeadsOf(wire[m][d]) \union HeadsOf(units) ELSE HeadsOf(wire[m][d])
      OBVIOUS
    <2>1. wire[m][d] \in Seq(Unit)
      BY RowFact
    <2>2. CASE m = Other(n) /\ d = c
      <3>1. wire'[m][d] = wire[m][d] \o units
        BY <2>2 DEF Arrives
      <3> QED
        BY <2>1, <2>2, <3>1, AppendWire
    <2>3. CASE ~(m = Other(n) /\ d = c)
      BY <2>3 DEF Arrives
    <2> QED
      BY <2>2, <2>3
  <1>2. \A m \in Nodes, d \in Conns : Ordered(wire'[m][d])
    <2> SUFFICES ASSUME NEW m \in Nodes, NEW d \in Conns PROVE Ordered(wire'[m][d])
      OBVIOUS
    <2>1. OrderRow(m, d) /\ wire[m][d] \in Seq(Unit)
      BY RowFact DEF OrderInv
    <2>2. CASE m = Other(n) /\ d = c
      <3>1. Other(m) = n
        BY <2>2
      <3>2. \A k \in HeadsOf(wire[m][d]) : k \in Nat /\ k <= sent[n]
        BY <2>1, <3>1, ConnFact DEF OrderRow, HeadsOf
      <3>3. \A k \in HeadsOf(wire[m][d]), l \in HeadsOf(units) : k < l
        BY <1>0, <3>2
      <3>4. wire'[m][d] = wire[m][d] \o units /\ Ordered(wire[m][d])
        BY <2>1, <2>2 DEF Arrives, OrderRow
      <3> QED
        BY <2>1, <3>3, <3>4, AppendWire
    <2>3. CASE ~(m = Other(n) /\ d = c)
      BY <2>1, <2>3 DEF Arrives, OrderRow
    <2> QED
      BY <2>2, <2>3
  \* What is on a wire now was there, or is the new label on the registered connection.
  <1>3. ASSUME NEW m \in Nodes, NEW d \in Conns, NEW k \in HeadsOf(wire'[m][d])
        PROVE  \/ k \in HeadsOf(wire[m][d])
               \/ /\ m = Other(n) /\ d = c /\ k = sent[n] + 1 /\ c = registry[n]
                  /\ sent'[n] = sent[n] + 1 /\ Other(m) = n
    <2> SUFFICES ASSUME k \notin HeadsOf(wire[m][d])
                 PROVE  /\ m = Other(n) /\ d = c /\ k = sent[n] + 1 /\ c = registry[n]
                        /\ sent'[n] = sent[n] + 1 /\ Other(m) = n
      OBVIOUS
    <2>1. m = Other(n) /\ d = c
      BY <1>1, <1>3
    <2>2. k \in HeadsOf(units)
      BY <1>1, <1>3, <2>1
    <2> QED
      BY <2>1, <2>2
  <1>4. ASSUME NEW m \in Nodes, NEW d \in Conns PROVE OrderRow(m, d)'
    <2>1. OrderRow(m, d) /\ worker[m][d].label \in Nat
      BY RowFact, ConnFact DEF OrderInv
    <2>2. d \in Reading(m) => worker'[m][d].label <= sent'[Other(m)]
      BY <1>0, <2>1 DEF OrderRow
    <2>3. worker'[m][d].pc \in {"body", "distribute"} => worker'[m][d].label > got'[m].label
      BY <2>1 DEF OrderRow
    <2>4. ASSUME NEW k \in HeadsOf(wire'[m][d])
          PROVE  /\ k <= sent'[Other(m)] /\ k > got'[m].label
                 /\ \A e \in Reading(m) : k > worker'[m][e].label
                 /\ \A e \in Conns : d < e => \A l \in HeadsOf(wire'[m][e]) : k < l
      <3>1. CASE k \in HeadsOf(wire[m][d])
        <4>1. /\ k \in Nat /\ k <= sent[Other(m)] /\ k > got[m].label
              /\ \A e \in Reading(m) : k > worker[m][e].label
              /\ \A e \in Conns : d < e => \A l \in HeadsOf(wire[m][e]) : k < l
          <5>1. k \in Nat
            BY <3>1, ConnFact DEF HeadsOf
          <5> QED
            BY <2>1, <3>1, <5>1 DEF OrderRow
        <4>2. ASSUME NEW e \in Conns, d < e, NEW l \in HeadsOf(wire'[m][e]) PROVE k < l
          <5>1. l \in HeadsOf(wire[m][e]) \/ (l = sent[n] + 1 /\ Other(m) = n)
            BY <1>3, <4>2
          <5> QED
            BY <1>0, <4>1, <4>2, <5>1
        <4> QED
          BY <1>0, <4>1, <4>2
      <3>2. CASE /\ m = Other(n) /\ d = c /\ k = sent[n] + 1 /\ c = registry[n]
                 /\ sent'[n] = sent[n] + 1 /\ Other(m) = n
        <4>1. k \in Nat /\ k <= sent'[Other(m)] /\ k > got'[m].label
          BY <1>0, <3>2
        <4>2. ASSUME NEW e \in Reading(m) PROVE k > worker'[m][e].label
          <5>1. e \in Conns /\ worker[m][e].label \in Nat /\ worker[m][e].label <= sent[Other(m)]
            <6>1. e \in Conns
              BY DEF Reading
            <6> QED
              BY <6>1, RowFact, ConnFact DEF OrderInv, OrderRow
          <5> QED
            BY <1>0, <3>2, <5>1
        <4>3. ASSUME NEW e \in Conns, d < e PROVE HeadsOf(wire'[m][e]) = {}
          <5>1. e \in Nat /\ registry[n] \in Nat /\ registry[n] + 1 <= e /\ registry[n] # None
            BY <1>0, <3>2, <4>3, ConnFact
          <5>2. HeadsOf(wire[m][e]) = {}
            BY <3>2, <5>1 DEF OrderInv, Silent
          <5>3. e # c
            BY <3>2, <4>3, <5>1
          <5> QED
            BY <1>1, <5>2, <5>3
        <4> QED
          BY <4>1, <4>2, <4>3
      <3> QED
        BY <1>3, <3>1, <3>2
    <2>5. Reading(m)' = Reading(m)
      BY DEF Reading
    <2> QED
      BY <1>2, <2>2, <2>3, <2>4, <2>5 DEF OrderRow
  <1>5. ASSUME NEW m \in Nodes, NEW x \in Nat, Silent(m, x), registry[m] < x
        PROVE  \A d \in Conns : x <= d => HeadsOf(wire'[Other(m)][d]) = {}
    <2> SUFFICES ASSUME NEW d \in Conns, x <= d, NEW k \in HeadsOf(wire'[Other(m)][d]) PROVE FALSE
      OBVIOUS
    <2>1. HeadsOf(wire[Other(m)][d]) = {}
      BY <1>5 DEF Silent
    <2>2. Other(m) = Other(n) /\ d = registry[n]
      BY <1>3, <2>1
    <2>3. m = n /\ d \in Nat /\ registry[m] \in Nat
      BY <1>0, <2>2, ConnFact
    <2> QED
      BY <1>5, <2>2, <2>3
  <1>6. ASSUME NEW m \in Nodes
        PROVE  /\ (registry[m] # None => Silent(m, registry[m] + 1))'
               /\ (\A d \in Pending(m) : Silent(m, d))'
    <2>1. (registry[m] # None => Silent(m, registry[m] + 1))'
      <3>1. registry[m] # None => Silent(m, registry[m] + 1)
        BY DEF OrderInv
      <3>2. registry[m] + 1 \in Nat /\ registry[m] < registry[m] + 1
        BY <1>0
      <3> QED
        BY <1>5, <3>1, <3>2 DEF Silent
    <2>2. ASSUME NEW d \in Pending(m)' PROVE \A e \in Conns : d <= e => HeadsOf(wire'[Other(m)][e]) = {}
      <3>1. Silent(m, d) /\ d \in Nat /\ registry[m] < d
        BY PendingAbove, ConnFact DEF OrderInv
      <3> QED
        BY <1>5, <3>1
    <2> QED
      BY <2>1, <2>2 DEF Silent
  <1> QED
    BY <1>0, <1>4, <1>6 DEF OrderInv

LEMMA ArriveFrames ==
    ASSUME CInv, FrameInv, UNCHANGED <<worker, got>>, torn \subseteq torn', NEW n \in Nodes, NEW c \in Conns,
           NEW units \in Seq(Unit), Arrives(n, c, units), Framed(units) \/ c \in torn'
    PROVE  FrameInv'
  <1>1. ASSUME NEW m \in Nodes, NEW d \in Conns \ torn' PROVE FrameRow(m, d)'
    <2>1. FrameRow(m, d) /\ wire[m][d] \in Seq(Unit) /\ (HandleValid(m, d)' <=> HandleValid(m, d))
      BY RowFact DEF FrameInv, CInv, Arrives, HandleValid
    <2>2. CASE m = Other(n) /\ d = c
      <3>1. wire'[m][d] = wire[m][d] \o units /\ Framed(units)
        BY <2>2 DEF Arrives
      <3>2. worker[m][d].pc \in {"none", "loop", "head", "distribute"} => Framed(wire'[m][d])
        BY <2>1, <3>1, AppendWire DEF FrameRow
      <3>3. ASSUME worker[m][d].pc = "body", HandleValid(m, d)
            PROVE  /\ wire'[m][d] # <<>> /\ Head(wire'[m][d]) = <<"body", worker[m][d].label>>
                   /\ Framed(Tail(wire'[m][d]))
        <4>1. /\ wire[m][d] # <<>> /\ Head(wire[m][d]) = <<"body", worker[m][d].label>>
              /\ Framed(Tail(wire[m][d]))
          BY <2>1, <3>3 DEF FrameRow
        <4>2. Tail(wire[m][d]) \in Seq(Unit)
          BY <2>1, <4>1, TailWire
        <4>3. /\ wire'[m][d] # <<>> /\ Head(wire'[m][d]) = Head(wire[m][d])
              /\ Tail(wire'[m][d]) = Tail(wire[m][d]) \o units
          BY <2>1, <3>1, <4>1, AppendWire
        <4> QED
          BY <3>1, <4>1, <4>2, <4>3, AppendWire
      <3>4. worker[m][d].pc = "distribute" => worker[m][d].intact
        BY <2>1 DEF FrameRow
      <3>5. worker'[m][d] = worker[m][d]
        OBVIOUS
      <3>6. worker'[m][d].pc \in {"none", "loop", "head", "distribute"} => Framed(wire'[m][d])
        BY <3>2, <3>5
      <3>7. worker'[m][d].pc = "body" /\ HandleValid(m, d)' =>
               /\ wire'[m][d] # <<>> /\ Head(wire'[m][d]) = <<"body", worker'[m][d].label>>
               /\ Framed(Tail(wire'[m][d]))
        BY <2>1, <3>3, <3>5
      <3>8. worker'[m][d].pc = "distribute" => worker'[m][d].intact
        BY <3>4, <3>5
      <3> QED
        BY <3>6, <3>7, <3>8, Zenon DEF FrameRow
    <2>3. CASE ~(m = Other(n) /\ d = c)
      <3>1. wire'[m][d] = wire[m][d]
        BY <2>3 DEF Arrives
      <3>2. worker'[m][d].pc \in {"none", "loop", "head", "distribute"} => Framed(wire'[m][d])
        BY <2>1, <3>1 DEF FrameRow
      <3>3. worker'[m][d].pc = "body" /\ HandleValid(m, d)' =>
               /\ wire'[m][d] # <<>> /\ Head(wire'[m][d]) = <<"body", worker'[m][d].label>>
               /\ Framed(Tail(wire'[m][d]))
        BY <2>1, <3>1 DEF FrameRow
      <3>4. worker'[m][d].pc = "distribute" => worker'[m][d].intact
        BY <2>1 DEF FrameRow
      <3> QED
        BY <3>2, <3>3, <3>4, Zenon DEF FrameRow
    <2> QED
      BY <2>2, <2>3
  <1> QED
    BY <1>1 DEF FrameInv

LEMMA ArriveInv ==
    ASSUME IInv, TypeOK', QuietControl, acc' = acc, UNCHANGED <<worker, got>>, torn \subseteq torn',
           NEW n \in Nodes, NEW c \in Conns, c = registry[n],
           NEW units \in Seq(Unit), Arrives(n, c, units), NoId(units), Ordered(units),
           HeadsOf(units) \subseteq {sent[n] + 1}, Framed(units) \/ c \in torn',
           \A m \in Nodes : sent[m] <= sent'[m], HeadsOf(units) # {} => sent'[n] = sent[n] + 1
    PROVE  IInv'
  <1> USE NodeFact DEF IInv
  <1>0. CInv /\ TypeOK
    BY DEF CInv
  <1>1. ControlKept /\ registry' = registry
    BY DEF QuietControl, ControlKept
  <1>2. \A m \in Nodes, d \in Conns : KeptSock(m, d) /\ KeptWorker(m, d)
    <2> SUFFICES ASSUME NEW m \in Nodes, NEW d \in Conns PROVE KeptSock(m, d) /\ KeptWorker(m, d)
      OBVIOUS
    <2>1. HandleValid(m, d)' <=> HandleValid(m, d)
      BY DEF Arrives, HandleValid
    <2>2. ~HandleValid(m, d) => wire'[m][d] = wire[m][d]
      BY DEF Arrives
    <2> QED
      BY <2>1, <2>2 DEF KeptSock, KeptWorker, Reading, CInv, SockInv
  <1>3. /\ RoleInv' /\ PlaceInv' /\ WorkerInv' /\ SockInv'
        /\ \A m \in Nodes : Pending(m)' \subseteq Pending(m)
    BY <1>0, <1>1, <1>2, PlacesKept
  <1>4. IdInv'
    BY <1>0, ArriveIds
  <1>5. OrderInv'
    BY <1>0, <1>1, <1>3, ArriveOrder
  <1>6. FrameInv'
    BY <1>0, ArriveFrames
  <1> QED
    BY <1>3, <1>4, <1>5, <1>6 DEF CInv

LEMMA MonPingInv ==
    ASSUME IInv, NEW n \in Nodes, MonPing(n) PROVE IInv'
  <1> USE NodeFact DEF IInv
  <1>0. CInv /\ TypeOK
    BY DEF CInv
  <1>1. PICK c \in ConnOrNone : c = mon[n].conn
    BY <1>0, TypeFact
  <1> DEFINE units == <<<<"ping", 0>>>>
  <1>2. /\ UNCHANGED <<up, sock, used, faults, torn, registry, entry, worker, acc, backlog, sent, got>>
        /\ mon[n].pc = "ping" /\ Send(n, c, units) /\ MonGoto(n, "sleep", None)
    BY <1>1 DEF MonPing, MonAt
  <1>3. None \in ConnOrNone /\ "sleep" \in MonPc
    BY ConnFact DEF MonPc
  <1>4. units \in Seq(Unit) /\ HeadsOf(units) = {} /\ Ordered(units) /\ Framed(units) /\ NoId(units)
    BY SentUnits
  <1> HIDE DEF units
  <1>5. TypeOK'
    BY <1>0, <1>2, <1>3, <1>4, TypeParts, TypePrime, MonGotoFact, SendFact
  <1>6. (\A d \in Conns : HandleValid(Lo, d) <=> HandleValid(Lo, d)') /\ (\A d \in Conns : HandleValid(Hi, d) <=> HandleValid(Hi, d)')
    BY <1>2 DEF HandleValid
  <1>7. QuietControl
    BY <1>0, <1>2, <1>3, <1>6, QuietMon
  <1>8. CASE wire' = wire
    BY <1>0, <1>2, <1>5, <1>7, <1>8, QuietSame, SentSame, Quiet
  <1>9. CASE wire' # wire
    <2>1. /\ \A m \in Nodes, d \in Conns :
                wire'[m][d] = IF m = Other(n) /\ d = c THEN wire[m][d] \o units ELSE wire[m][d]
          /\ sock[Other(n)][c] \in {"open", "shut"} /\ Open(n, c)
      BY <1>0, <1>2, <1>4, <1>9, SendFact DEF Send
    <2>2. c # None
      <3> SUFFICES ASSUME c = None PROVE FALSE
        OBVIOUS
      <3>1. \A m \in Nodes : DOMAIN wire[m] = Conns /\ DOMAIN wire'[m] = Conns
        BY <1>0, <1>5 DEF TypeOK
      <3>2. \A m \in Nodes, d \in Conns : wire'[m][d] = wire[m][d]
        BY <2>1, ConnFact
      <3>3. wire \in [Nodes -> [Conns -> Seq(Unit)]] /\ wire' \in [Nodes -> [Conns -> Seq(Unit)]]
        BY <1>0, <1>5 DEF TypeOK
      <3>4. \A m \in Nodes : wire'[m] = wire[m]
        BY <3>2, <3>3
      <3> QED
        BY <1>9, <3>3, <3>4
    <2>3. c \in Conns /\ HandleValid(n, c)
      BY <2>1, <2>2 DEF ConnOrNone, Open, HandleValid
    <2>4. c = registry[n]
      <3>1. c <= registry[n] /\ c \in Nat /\ registry[n] \in Nat
        <4>1. c \in ConnOrNone /\ registry[n] \in ConnOrNone
          BY <1>0, TypeFact
        <4>2. c \in Nat /\ registry[n] \in Nat
          BY <4>1, ConnFact
        <4>3. CASE n = Lo
          BY <1>1, <1>2, <4>2, <4>3 DEF CInv, PlaceInv
        <4>4. CASE n = Hi
          BY <1>1, <1>2, <4>2, <4>4 DEF CInv, PlaceInv
        <4> QED
          BY <4>2, <4>3, <4>4
      <3>2. c = registry[n] \/ c \in Pending(n)
        BY <2>3 DEF CInv, SockInv
      <3> QED
        BY <1>0, <3>1, <3>2, PendingAbove
    <2>5. Arrives(n, c, units)
      BY <1>2, <2>1 DEF Arrives, HandleValid
    <2> QED
      BY <1>0, <1>2, <1>4, <1>5, <1>7, <2>3, <2>4, <2>5, SentSame, ArriveInv
  <1> QED
    BY <1>8, <1>9

LEMMA NextLabelFact ==
    ASSUME IInv, NEW n \in Nodes, NextLabel(n)
    PROVE  /\ UNCHANGED <<up, used, registry, entry, worker, mon, acc, backlog, got>>
           /\ registry[n] \in Conns /\ sent' \in [Nodes -> 0 .. MaxMsgs] /\ sent'[n] = sent[n] + 1
           /\ sent[n] + 1 \in 1 .. MaxMsgs /\ \A m \in Nodes : sent[m] <= sent'[m]
  <1> USE DEF IInv, CInv
  <1>1. /\ UNCHANGED <<up, used, registry, entry, worker, mon, acc, backlog, got>>
        /\ sent[n] < MaxMsgs /\ registry[n] # None /\ sent' = [sent EXCEPT ![n] = sent[n] + 1]
    BY DEF NextLabel
  <1>2. registry[n] \in Conns /\ sent \in [Nodes -> 0 .. MaxMsgs]
    BY <1>1, TypeFact, TypeParts DEF ConnOrNone
  <1>3. sent[n] + 1 \in 1 .. MaxMsgs /\ \A m \in Nodes : sent[m] \in Nat
    BY <1>1, <1>2, ConnFact
  <1>4. sent[n] + 1 \in 0 .. MaxMsgs
    BY <1>3, ConnFact
  <1>5. sent' \in [Nodes -> 0 .. MaxMsgs] /\ \A m \in Nodes : sent'[m] = IF m = n THEN sent[n] + 1 ELSE sent[m]
    BY <1>1, <1>2, <1>4
  <1> QED
    BY <1>1, <1>2, <1>3, <1>5

\* A label, whole or in part.
LEMMA SendUnitsInv ==
    ASSUME IInv, NEW n \in Nodes, NextLabel(n), sock' = sock, NEW units \in Seq(Unit), Send(n, registry[n], units),
           NoId(units), Ordered(units), HeadsOf(units) = {sent[n] + 1},
           torn \subseteq torn', torn' \subseteq Conns, faults' \in 0 .. MaxFaults,
           Framed(units) \/ registry[n] \in torn'
    PROVE  IInv'
  <1> USE NodeFact DEF IInv
  <1>0. CInv /\ TypeOK
    BY DEF CInv
  <1>1. PICK c \in Conns : c = registry[n]
    BY NextLabelFact
  <1>2. /\ UNCHANGED <<up, used, registry, entry, worker, mon, acc, backlog, got>>
        /\ sent' \in [Nodes -> 0 .. MaxMsgs] /\ sent'[n] = sent[n] + 1 /\ \A m \in Nodes : sent[m] <= sent'[m]
    BY NextLabelFact
  <1>3. TypeOK'
    BY <1>0, <1>2, TypeParts, TypePrime, SendFact
  <1>4. QuietControl
    BY <1>0, <1>2, QuietStill DEF HandleValid
  <1>5. CASE wire' = wire
    BY <1>0, <1>2, <1>3, <1>4, <1>5, QuietSame, Quiet
  <1>6. CASE wire' # wire
    <2>1. Arrives(n, c, units)
      BY <1>0, <1>1, <1>6, SendFact DEF Arrives, HandleValid
    <2> QED
      BY <1>0, <1>1, <1>2, <1>3, <1>4, <2>1, ArriveInv
  <1> QED
    BY <1>5, <1>6

LEMMA SendLabelInv ==
    ASSUME IInv, NEW n \in Nodes, SendLabel(n) PROVE IInv'
  <1>1. NextLabel(n) /\ UNCHANGED <<sock, faults, torn>> /\ Send(n, registry[n], Label(sent[n] + 1))
    BY DEF SendLabel
  <1>2. sent[n] + 1 \in 1 .. MaxMsgs
    BY <1>1, NextLabelFact
  <1>3. torn \subseteq Conns /\ faults \in 0 .. MaxFaults
    BY TypeParts DEF IInv, CInv
  <1>4. PICK units \in Seq(Unit) : units = Label(sent[n] + 1)
    BY <1>2, SentUnits
  <1>5. NoId(units) /\ Ordered(units) /\ HeadsOf(units) = {sent[n] + 1} /\ Framed(units)
    BY <1>2, <1>4, SentUnits
  <1> QED
    BY <1>1, <1>3, <1>4, <1>5, SendUnitsInv

LEMMA SendPartInv ==
    ASSUME IInv, NEW n \in Nodes, SendPart(n) PROVE IInv'
  <1>1. /\ NextLabel(n) /\ sock' = sock /\ Send(n, registry[n], <<Head(Label(sent[n] + 1))>>)
        /\ faults < MaxFaults /\ faults' = faults + 1 /\ torn' = torn \union {registry[n]}
    BY DEF SendPart
  <1>2. sent[n] + 1 \in 1 .. MaxMsgs /\ registry[n] \in Conns
    BY <1>1, NextLabelFact
  <1>3. torn \subseteq Conns /\ faults \in 0 .. MaxFaults
    BY TypeParts DEF IInv, CInv
  <1>4. torn \subseteq torn' /\ torn' \subseteq Conns /\ faults' \in 0 .. MaxFaults /\ registry[n] \in torn'
    <2>1. torn \subseteq torn' /\ torn' \subseteq Conns /\ registry[n] \in torn'
      BY <1>1, <1>2, <1>3
    <2>2. MaxFaults \in Nat
      BY ConnFact
    <2>3. faults' \in 0 .. MaxFaults
      BY <1>1, <1>3, <2>2
    <2> QED
      BY <2>1, <2>3
  <1>5. PICK units \in Seq(Unit) : units = <<Head(Label(sent[n] + 1))>> /\ units = <<<<"head", sent[n] + 1>>>>
    BY <1>2, SentUnits
  <1>6. NoId(units) /\ Ordered(units) /\ HeadsOf(units) = {sent[n] + 1}
    BY <1>2, <1>5, SentUnits
  <1> QED
    BY <1>1, <1>4, <1>5, <1>6, SendUnitsInv

LEMMA SendFailsInv ==
    ASSUME IInv, NEW n \in Nodes, SendFails(n) PROVE IInv'
  <1> USE NodeFact DEF IInv
  <1>0. CInv /\ TypeOK
    BY DEF CInv
  <1>1. PICK c \in Conns : c = registry[n]
    BY NextLabelFact DEF SendFails
  <1>2. /\ UNCHANGED <<up, used, registry, entry, worker, mon, acc, backlog, got>>
        /\ sent' \in [Nodes -> 0 .. MaxMsgs] /\ \A m \in Nodes : sent[m] <= sent'[m]
    BY NextLabelFact DEF SendFails
  <1>3. UNCHANGED <<wire, rst, faults, torn>> /\ (sock' = sock \/ (Open(n, c) /\ SetShut(n, c)))
    BY <1>1 DEF SendFails, SetShut
  <1>4. sock' \in [Nodes -> [Conns -> SockState]] /\ \A m \in Nodes, d \in Conns : HandleValid(m, d)' <=> HandleValid(m, d)
    <2>1. CASE sock' = sock
      BY <1>0, <2>1, TypeParts DEF HandleValid
    <2>2. CASE Open(n, c) /\ SetShut(n, c)
      BY <1>0, <2>2, ShutUpdate DEF HandleValid, Open
    <2> QED
      BY <1>3, <2>1, <2>2
  <1>5. TypeOK'
    BY <1>0, <1>2, <1>3, <1>4, TypeParts, TypePrime DEF WiresOK
  <1>6. QuietControl
    BY <1>0, <1>2, <1>4, QuietStill
  <1>7. \A m \in Nodes, d \in Conns : QuietWire(m, d)
    BY <1>3, <1>4 DEF QuietWire
  <1> QED
    BY <1>0, <1>2, <1>3, <1>5, <1>6, <1>7, QuietSame, Quiet

-----------------------------------------------------------------------------
(* The client's header, and registration. *)

\* The wires keep their client's headers, and nobody new waits to be identified.
LEMMA IdKept ==
    ASSUME IdInv, Waiting' = Waiting,
           mon'[Hi].pc = "ident" => mon'[Hi] = mon[Hi],
           \A c \in Conns :
              /\ HandleValid(Lo, c)' => HandleValid(Lo, c)
              /\ registry'[Hi] = c \/ (mon'[Hi].pc = "register" /\ mon'[Hi].conn = c) =>
                    registry[Hi] = c \/ (mon[Hi].pc = "register" /\ mon[Hi].conn = c)
              /\ NoId(wire[Hi][c]) => NoId(wire'[Hi][c])
              /\ c \in Waiting => wire'[Lo][c] = wire[Lo][c]
              /\ c \notin Waiting => (NoId(wire[Lo][c]) => NoId(wire'[Lo][c])) /\ (wire[Lo][c] = <<>> => wire'[Lo][c] = <<>>)
    PROVE  IdInv'
  <1> SUFFICES ASSUME NEW c \in Conns PROVE IdRow(c)'
    BY DEF IdInv
  <1>1. IdRow(c)
    BY DEF IdInv
  <1>2. NoId(wire'[Hi][c]) /\ (c \notin Waiting' => NoId(wire'[Lo][c]))
    BY <1>1 DEF IdRow
  <1>3. c \in Waiting' /\ wire'[Lo][c] # <<>> => Head(wire'[Lo][c]) = IdUnit /\ NoId(Tail(wire'[Lo][c]))
    BY <1>1 DEF IdRow
  <1>4. mon'[Hi].pc = "ident" /\ mon'[Hi].conn = c =>
            wire'[Lo][c] = <<>> /\ (HandleValid(Lo, c)' => c \in Waiting')
    BY <1>1 DEF IdRow
  <1>5. c \in Waiting' /\ (registry'[Hi] = c \/ (mon'[Hi].pc = "register" /\ mon'[Hi].conn = c)) => wire'[Lo][c] # <<>>
    BY <1>1 DEF IdRow
  <1> QED
    BY <1>2, <1>3, <1>4, <1>5 DEF IdRow, NoId

\* A unit is taken off the wire.
Takes(n, c) ==
    \A m \in Nodes, d \in Conns : wire'[m][d] = IF m = n /\ d = c THEN Tail(wire[m][d]) ELSE wire[m][d]

LEMMA TakeFact ==
    ASSUME TypeOK, NEW n \in Nodes, NEW c \in Conns, wire[n][c] # <<>>,
           wire' = [wire EXCEPT ![n][c] = Tail(wire[n][c])]
    PROVE  Takes(n, c) /\ WiresOK'
  <1>1. WiresOK /\ wire \in [Nodes -> [Conns -> Seq(Unit)]]
    BY TypeParts DEF WiresOK
  <1>2. PICK v : v = Tail(wire[n][c])
    OBVIOUS
  <1>3. v \in Seq(Unit) /\ Len(v) <= Buf
    <2>1. wire[n][c] \in Seq(Unit) /\ Len(wire[n][c]) <= Buf
      BY RowFact
    <2>2. v \in Seq(Unit) /\ Len(v) = Len(wire[n][c]) - 1 /\ Len(wire[n][c]) \in Nat
      BY <1>2, <2>1, TailWire
    <2> QED
      BY <2>1, <2>2, PeerAssumption
  <1>4. wire' = [wire EXCEPT ![n][c] = v]
    BY <1>2
  <1>5. /\ [wire EXCEPT ![n][c] = v] \in [Nodes -> [Conns -> Seq(Unit)]]
        /\ \A m \in Nodes, d \in Conns :
              [wire EXCEPT ![n][c] = v][m][d] = IF m = n /\ d = c THEN v ELSE wire[m][d]
    BY <1>1, <1>3, RowUpdate, ZenonT(60)
  <1>6. /\ wire' \in [Nodes -> [Conns -> Seq(Unit)]]
        /\ \A m \in Nodes, d \in Conns : wire'[m][d] = IF m = n /\ d = c THEN v ELSE wire[m][d]
    BY <1>4, <1>5
  <1>7. \A m \in Nodes, d \in Conns : Len(wire'[m][d]) <= Buf
    BY <1>1, <1>3, <1>6 DEF WiresOK
  <1> QED
    BY <1>2, <1>6, <1>7 DEF WiresOK, Takes

LEMMA TakeHeads ==
    ASSUME TypeOK, OrderInv, NEW n \in Nodes, NEW c \in Conns, wire[n][c] # <<>>, Takes(n, c)
    PROVE  \A m \in Nodes, d \in Conns : HeadsOf(wire'[m][d]) \subseteq HeadsOf(wire[m][d]) /\ Ordered(wire'[m][d])
  <1> SUFFICES ASSUME NEW m \in Nodes, NEW d \in Conns
               PROVE  HeadsOf(wire'[m][d]) \subseteq HeadsOf(wire[m][d]) /\ Ordered(wire'[m][d])
    OBVIOUS
  <1>1. wire[m][d] \in Seq(Unit) /\ Ordered(wire[m][d])
    BY RowFact DEF OrderInv, OrderRow
  <1>2. CASE m = n /\ d = c
    <2>1. wire'[m][d] = Tail(wire[m][d])
      BY <1>2 DEF Takes
    <2> QED
      BY <1>1, <1>2, <2>1, TailWire
  <1>3. CASE ~(m = n /\ d = c)
    BY <1>1, <1>3 DEF Takes
  <1> QED
    BY <1>2, <1>3

LEMMA WaitingFact ==
    ASSUME CInv
    PROVE  /\ Waiting \subseteq Pending(Lo) /\ \A c \in Waiting : HandleValid(Lo, c) /\ registry[Lo] < c
           /\ acc[Lo].pc \in {"ident", "register"} => acc[Lo].conn \in Conns /\ acc[Lo].conn \notin InBacklog(Lo)
           /\ mon[Hi].pc \in {"ident", "register"} => mon[Hi].conn \in Conns
  <1> USE NodeFact DEF CInv
  <1>1. Waiting \subseteq Pending(Lo)
    BY DEF Waiting, Pending
  <1>2. \A n \in Nodes : registry[n] \in Nat /\ acc[n].conn \in ConnOrNone /\ mon[n].conn \in ConnOrNone
    BY TypeFact, PendingFact
  <1>3. mon[Hi].pc \in {"ident", "register"} => mon[Hi].conn \in Conns
    BY <1>2 DEF PlaceInv, ConnOrNone, None
  <1>4. acc[Lo].pc \in {"ident", "register"} => acc[Lo].conn \in Conns
    BY <1>2 DEF PlaceInv, ConnOrNone, None
  <1>5. ASSUME acc[Lo].pc \in {"ident", "register"}, acc[Lo].conn \in InBacklog(Lo) PROVE FALSE
    <2>1. PICK i \in 1 .. Len(backlog[Lo]) : acc[Lo].conn = backlog[Lo][i]
      BY <1>5 DEF InBacklog
    <2>2. acc[Lo].conn < acc[Lo].conn /\ acc[Lo].conn \in Nat
      BY <1>4, <1>5, <2>1, ConnFact DEF PlaceInv
    <2> QED
      BY <2>2
  <1> QED
    BY <1>1, <1>3, <1>4, <1>5, PendingFact, PendingAbove

LEMMA AccIdentFailsInv ==
    ASSUME IInv, NEW n \in Nodes, AccIdentFails(n) PROVE IInv'
  <1>1. /\ acc[n].pc = "ident" /\ Disconnect(n, acc[n].conn) /\ AccGoto(n, "accept", None)
        /\ UNCHANGED <<up, rst, used, faults, torn, registry, entry, worker, mon, backlog, sent, got>>
    BY DEF AccIdentFails, AccAt
  <1> QED
    BY <1>1, AccDropInv

LEMMA AccIdentInv ==
    ASSUME IInv, NEW n \in Nodes, AccIdent(n) PROVE IInv'
  <1> USE NodeFact DEF IInv
  <1>0. CInv /\ TypeOK
    BY DEF CInv
  <1>1. /\ UNCHANGED <<up, rst, used, faults, torn, registry, entry, worker, mon, backlog, sent, got>>
        /\ acc[n].pc = "ident" /\ HandleValid(n, acc[n].conn) /\ wire[n][acc[n].conn] # <<>>
        /\ \/ /\ Head(wire[n][acc[n].conn]) = IdUnit
              /\ wire' = [wire EXCEPT ![n][acc[n].conn] = Tail(wire[n][acc[n].conn])]
              /\ sock' = sock /\ AccGoto(n, "register", acc[n].conn)
           \/ Disconnect(n, acc[n].conn) /\ AccGoto(n, "accept", None)
    BY DEF AccIdent, AccAt, RecvAll, IdUnit
  <1>2. CASE Disconnect(n, acc[n].conn) /\ AccGoto(n, "accept", None)
    BY <1>1, <1>2, AccDropInv
  <1>3. CASE /\ Head(wire[n][acc[n].conn]) = IdUnit
             /\ wire' = [wire EXCEPT ![n][acc[n].conn] = Tail(wire[n][acc[n].conn])]
             /\ sock' = sock /\ AccGoto(n, "register", acc[n].conn)
    <2>1. n = Lo
      BY <1>1 DEF CInv, RoleInv
    <2>2. PICK c \in Conns : c = acc[Lo].conn
      BY <1>0, <1>1, <2>1, WaitingFact
    <2>3. wire[Lo][c] # <<>> /\ HandleValid(Lo, c) /\ Head(wire[Lo][c]) = IdUnit
      BY <1>1, <1>3, <2>1, <2>2
    <2>4. Takes(Lo, c) /\ WiresOK'
      BY <1>0, <1>3, <2>1, <2>2, <2>3, TakeFact
    <2>5. c \in ConnOrNone /\ "register" \in AccPc
      BY DEF ConnOrNone, AccPc
    <2>6. /\ acc' \in [Nodes -> [pc : AccPc, conn : ConnOrNone]] /\ acc'[Hi] = acc[Hi]
          /\ acc'[Lo].pc = "register" /\ acc'[Lo].conn = c
      BY <1>0, <1>3, <2>1, <2>2, <2>5, AccGotoFact
    <2>7. TypeOK'
      BY <1>0, <1>1, <1>3, <2>4, <2>6, TypeParts, TypePrime
    <2>8. \A m \in Nodes, d \in Conns : HandleValid(m, d)' <=> HandleValid(m, d)
      BY <1>3 DEF HandleValid
    <2>9. \A m \in Nodes : InBacklog(m)' = InBacklog(m) /\ Reading(m)' = Reading(m)
      BY <1>1 DEF InBacklog, Reading
    <2>10. Pending(Lo)' = Pending(Lo)
      BY <1>1, <2>1, <2>2, <2>6, <2>9 DEF Pending
    <2>11. ControlKept
      <3>1. \A d \in Pending(Lo)' : HandleValid(Lo, d)'
        BY <1>0, <2>8, <2>10, PendingFact
      <3> QED
        BY <1>1, <2>1, <2>2, <2>6, <2>8, <3>1 DEF ControlKept, CInv, RoleInv, SockInv
    <2>12. \A m \in Nodes, d \in Conns : KeptSock(m, d) /\ KeptWorker(m, d)
      <3>1. \A m \in Nodes, d \in Conns : ~HandleValid(m, d) => wire'[m][d] = wire[m][d]
        BY <2>3, <2>4 DEF Takes
      <3> QED
        BY <1>1, <2>8, <2>9, <3>1 DEF KeptSock, KeptWorker, CInv, SockInv
    <2>13. /\ RoleInv' /\ PlaceInv' /\ WorkerInv' /\ SockInv'
           /\ \A m \in Nodes : Pending(m)' \subseteq Pending(m)
      BY <1>0, <2>7, <2>11, <2>12, PlacesKept
    <2>14. IdInv'
      <3>1. Waiting' = Waiting \ {c} /\ c \in Waiting
        BY <1>0, <1>1, <2>1, <2>2, <2>6, <2>9, WaitingFact, BacklogFact DEF Waiting
      <3>2. ASSUME NEW d \in Conns PROVE IdRow(d)'
        <4>1. IdRow(d) /\ wire'[Hi][d] = wire[Hi][d] /\ (d # c => wire'[Lo][d] = wire[Lo][d])
          BY <2>4 DEF IdInv, Takes
        <4>2. d = c => NoId(wire'[Lo][d])
          BY <2>3, <2>4, <3>1, <4>1 DEF IdRow, Takes
        <4>3. ~(mon[Hi].pc = "ident" /\ mon[Hi].conn = c)
          BY <2>3 DEF IdInv, IdRow
        <4>4. CASE d = c
          BY <1>1, <2>8, <3>1, <4>1, <4>2, <4>3, <4>4 DEF IdRow, NoId
        <4>5. CASE d # c
          BY <1>1, <2>8, <3>1, <4>1, <4>5 DEF IdRow, NoId
        <4> QED
          BY <4>4, <4>5
      <3> QED
        BY <3>2 DEF IdInv
    <2>15. OrderInv'
      <3>1. \A m \in Nodes, d \in Conns : HeadsOf(wire'[m][d]) \subseteq HeadsOf(wire[m][d]) /\ Ordered(wire'[m][d])
        BY <1>0, <2>3, <2>4, TakeHeads
      <3> QED
        BY <1>0, <1>1, <2>7, <2>9, <2>13, <3>1, SentSame, OrderKept
    <2>16. FrameInv'
      <3>1. worker[Lo][c].pc = "none"
        <4>1. c \in Pending(Lo)
          BY <1>1, <2>1, <2>2 DEF Pending
        <4>2. registry[Lo] < c /\ registry[Lo] \in Nat /\ c \in Nat
          BY <1>0, <4>1, PendingAbove, PendingFact, ConnFact
        <4> QED
          BY <4>2 DEF CInv, WorkerInv
      <3>2. ASSUME NEW m \in Nodes, NEW d \in Conns \ torn' PROVE FrameRow(m, d)'
        <4>1. FrameRow(m, d) /\ wire[m][d] \in Seq(Unit) /\ (HandleValid(m, d)' <=> HandleValid(m, d))
          BY <1>0, <1>1, <2>8, RowFact DEF FrameInv
        <4>2. Framed(wire[m][d]) => Framed(wire'[m][d])
          <5>1. CASE m = Lo /\ d = c
            <6>1. Head(wire[Lo][c])[1] # "head" /\ wire'[m][d] = Tail(wire[m][d])
              BY <2>3, <2>4, <5>1 DEF IdUnit, Takes
            <6> QED
              BY <2>3, <4>1, <5>1, <6>1, TailWire
          <5>2. CASE ~(m = Lo /\ d = c)
            BY <2>4, <5>2 DEF Takes
          <5> QED
            BY <5>1, <5>2
        <4>3. worker'[m][d] = worker[m][d] /\ (worker[m][d].pc = "body" => wire'[m][d] = wire[m][d])
          BY <1>1, <2>4, <3>1 DEF Takes
        <4>4. worker'[m][d].pc \in {"none", "loop", "head", "distribute"} => Framed(wire'[m][d])
          BY <4>1, <4>2, <4>3 DEF FrameRow
        <4>5. worker'[m][d].pc = "body" /\ HandleValid(m, d)' =>
                 /\ wire'[m][d] # <<>> /\ Head(wire'[m][d]) = <<"body", worker'[m][d].label>>
                 /\ Framed(Tail(wire'[m][d]))
          BY <4>1, <4>3 DEF FrameRow
        <4>6. worker'[m][d].pc = "distribute" => worker'[m][d].intact
          BY <4>1, <4>3 DEF FrameRow
        <4> QED
          BY <4>4, <4>5, <4>6, Zenon DEF FrameRow
      <3> QED
        BY <1>1, <3>2 DEF FrameInv
    <2> QED
      BY <2>7, <2>13, <2>14, <2>15, <2>16 DEF CInv
  <1> QED
    BY <1>1, <1>2, <1>3

LEMMA AcceptInv ==
    ASSUME IInv, NEW n \in Nodes, Accept(n) PROVE IInv'
  <1> USE NodeFact DEF IInv
  <1>0. CInv /\ TypeOK
    BY DEF CInv
  <1>1. /\ UNCHANGED <<up, sock, wire, rst, used, faults, torn, registry, entry, worker, mon, sent, got>>
        /\ acc[n].pc = "accept" /\ backlog[n] # <<>> /\ backlog' = [backlog EXCEPT ![n] = Tail(backlog[n])]
        /\ AccGoto(n, "ident", Head(backlog[n]))
    BY DEF Accept, AccAt, net
  <1>2. n = Lo
    BY <1>1 DEF CInv, RoleInv
  <1>3. PICK b \in Seq(Conns) : b = backlog[Lo]
    BY <1>0, TypeFact
  <1>4. PICK t \in Seq(Conns) : t = Tail(b)
    <2>1. b # <<>>
      BY <1>1, <1>2, <1>3
    <2> QED
      BY <2>1, HeadTailProperties
  <1>5. PICK c \in Conns : c = Head(b)
    BY <1>1, <1>2, <1>3
  <1>6. /\ Len(b) \in Nat /\ Len(t) \in Nat /\ Len(b) = Len(t) + 1 /\ b[1] = c
        /\ \A i \in 1 .. Len(t) : t[i] = b[i + 1] /\ i + 1 \in 1 .. Len(b)
    BY <1>1, <1>2, <1>3, <1>4, <1>5
  <1>7. backlog \in [Nodes -> Seq(Conns)]
    BY <1>0, TypeParts
  <1>8. backlog' \in [Nodes -> Seq(Conns)] /\ backlog'[Lo] = t /\ backlog'[Hi] = backlog[Hi]
    BY <1>1, <1>2, <1>3, <1>4, <1>7
  <1>9. c \in ConnOrNone /\ "ident" \in AccPc
    BY DEF ConnOrNone, AccPc
  <1>10. /\ acc' \in [Nodes -> [pc : AccPc, conn : ConnOrNone]] /\ acc'[Hi] = acc[Hi]
         /\ acc'[Lo].pc = "ident" /\ acc'[Lo].conn = c
    BY <1>0, <1>1, <1>2, <1>3, <1>5, <1>9, AccGotoFact
  <1>11. TypeOK'
    BY <1>0, <1>1, <1>8, <1>10, TypeParts, TypePrime DEF WiresOK
  <1>12. \A m \in Nodes, d \in Conns : HandleValid(m, d)' <=> HandleValid(m, d)
    BY <1>1 DEF HandleValid
  <1>13. InBacklog(Lo) = InBacklog(Lo)' \union {c} /\ InBacklog(Hi)' = InBacklog(Hi)
    <2>1. InBacklog(Lo) \subseteq InBacklog(Lo)' \union {c}
      <3> SUFFICES ASSUME NEW i \in 1 .. Len(b), b[i] # c PROVE b[i] \in {t[j] : j \in 1 .. Len(t)}
        BY <1>3, <1>8, SMTT(60) DEF InBacklog
      <3>1. i # 1 /\ i - 1 \in 1 .. Len(t) /\ i - 1 + 1 = i
        BY <1>6
      <3> QED
        BY <1>6, <3>1, ZenonT(60)
    <2>2. InBacklog(Lo)' \subseteq InBacklog(Lo)
      <3> SUFFICES ASSUME NEW i \in 1 .. Len(t) PROVE t[i] \in {b[j] : j \in 1 .. Len(b)}
        BY <1>3, <1>8, ZenonT(60) DEF InBacklog
      <3> QED
        BY <1>6
    <2>3. 1 \in 1 .. Len(b)
      BY <1>6
    <2>4. c \in InBacklog(Lo)
      BY <1>3, <1>6, <2>3 DEF InBacklog
    <2>5. InBacklog(Hi)' = InBacklog(Hi)
      BY <1>8 DEF InBacklog
    <2> QED
      BY <2>1, <2>2, <2>4, <2>5
  <1>14. Waiting' = Waiting /\ Pending(Lo)' = Pending(Lo) /\ Pending(Hi)' = Pending(Hi)
    <2>1. mon[Lo].pc \notin {"ident", "register"}
      BY DEF CInv, RoleInv
    <2>2. Waiting' = Waiting
      BY <1>1, <1>2, <1>10, <1>13 DEF Waiting
    <2>3. Pending(Lo)' = Pending(Lo)
      BY <1>1, <1>2, <1>10, <1>13, <2>1 DEF Pending
    <2>4. Pending(Hi)' = Pending(Hi)
      BY <1>1, <1>10, <1>13 DEF Pending
    <2> QED
      BY <2>2, <2>3, <2>4
  <1>15. RoleInv'
    BY <1>1, <1>8, <1>10 DEF CInv, RoleInv
  <1>16. PlaceInv'
    <2>1. \A i \in 1 .. Len(b) : registry[Lo] < b[i] /\ b[i] <= used
      BY <1>3 DEF CInv, PlaceInv
    <2>2. \A i, j \in 1 .. Len(b) : i < j => b[i] < b[j]
      BY <1>3 DEF CInv, PlaceInv
    <2>3. registry[Lo] < c /\ c <= used
      <3>1. 1 \in 1 .. Len(b)
        BY <1>6
      <3> QED
        BY <1>6, <2>1, <3>1
    <2>4. \A i \in 1 .. Len(t) : registry[Lo] < t[i] /\ t[i] <= used /\ c < t[i]
      <3> SUFFICES ASSUME NEW i \in 1 .. Len(t) PROVE registry[Lo] < t[i] /\ t[i] <= used /\ c < t[i]
        OBVIOUS
      <3>1. t[i] = b[i + 1] /\ i + 1 \in 1 .. Len(b) /\ 1 \in 1 .. Len(b) /\ 1 < i + 1
        BY <1>6
      <3> QED
        BY <1>6, <2>1, <2>2, <3>1
    <2>5. \A i, j \in 1 .. Len(t) : i < j => t[i] < t[j]
      <3> SUFFICES ASSUME NEW i \in 1 .. Len(t), NEW j \in 1 .. Len(t), i < j PROVE t[i] < t[j]
        OBVIOUS
      <3>1. t[i] = b[i + 1] /\ t[j] = b[j + 1] /\ i + 1 \in 1 .. Len(b) /\ j + 1 \in 1 .. Len(b) /\ i + 1 < j + 1
        BY <1>6
      <3> QED
        BY <2>2, <3>1
    <2> QED
      BY <1>1, <1>8, <1>10, <2>3, <2>4, <2>5 DEF CInv, PlaceInv
  <1>17. WorkerInv'
    <2>1. \A m \in Nodes : Reading(m)' = Reading(m) /\ (Starting(m)' => Starting(m))
      BY <1>1, <1>10 DEF Reading, Starting
    <2> QED
      BY <1>1, <2>1 DEF CInv, WorkerInv
  <1>18. SockInv'
    <2>1. /\ \A m \in Nodes, d \in Conns : ~HandleValid(m, d)' => wire'[m][d] = <<>>
          /\ \A d \in Conns : HandleValid(Hi, d)' => d = used'
          /\ mon'[Hi].pc \in {"stop", "join", "connect"} => \A d \in Conns : ~HandleValid(Hi, d)'
      BY <1>1, <1>12 DEF CInv, SockInv
    <2>2. \A m \in Nodes, d \in Conns : HandleValid(m, d)' => d = registry'[m] \/ d \in Pending(m)'
      <3> SUFFICES ASSUME NEW m \in Nodes, NEW d \in Conns, HandleValid(m, d)
                   PROVE  d = registry'[m] \/ d \in Pending(m)'
        BY <1>12
      <3>1. d = registry[m] \/ d \in Pending(m)
        BY DEF CInv, SockInv
      <3>2. registry' = registry
        BY <1>1
      <3>3. CASE m = Lo
        BY <1>14, <3>1, <3>2, <3>3
      <3>4. CASE m = Hi
        BY <1>14, <3>1, <3>2, <3>4
      <3> QED
        BY <3>3, <3>4
    <2>3. \A d \in Pending(Lo)' : HandleValid(Lo, d)'
      BY <1>0, <1>12, <1>14, PendingFact
    <2> QED
      BY <2>1, <2>2, <2>3 DEF SockInv
  <1>19. IdInv'
    BY <1>1, <1>12, <1>14, IdKept
  <1>20. OrderInv'
    <2>1. \A m \in Nodes : Reading(m)' = Reading(m)
      BY <1>1 DEF Reading
    <2>2. \A m \in Nodes, d \in Conns : Ordered(wire[m][d])
      BY DEF OrderInv, OrderRow
    <2> QED
      BY <1>0, <1>1, <1>11, <1>14, <2>1, <2>2, SentSame, OrderKept
  <1>21. FrameInv'
    BY <1>0, <1>1, <1>11, QuietSame, QuietFrames
  <1> QED
    BY <1>11, <1>15, <1>16, <1>17, <1>18, <1>19, <1>20, <1>21 DEF CInv

\* A new socket is registered: the old one is closed.
LEMMA RegisterFrames ==
    ASSUME IInv, TypeOK', NEW n \in Nodes, NEW c, Disconnect(n, c), UNCHANGED <<worker, got, sent, torn>>,
           \A m \in Nodes : /\ registry'[m] = registry[m] \/ Silent(m, registry'[m])
                            /\ Pending(m)' \subseteq Pending(m)
    PROVE  OrderInv' /\ FrameInv'
  <1> USE DEF IInv
  <1>0. CInv /\ TypeOK
    BY DEF CInv
  <1>1. \A m \in Nodes, d \in Conns : QuietWire(m, d)
    BY <1>0, DisconnectFact DEF QuietWire
  <1>2. FrameInv'
    BY <1>0, <1>1, QuietSame, QuietFrames
  <1>3. \A m \in Nodes, d \in Conns : HeadsOf(wire'[m][d]) \subseteq HeadsOf(wire[m][d]) /\ Ordered(wire'[m][d])
    <2> SUFFICES ASSUME NEW m \in Nodes, NEW d \in Conns
                 PROVE  HeadsOf(wire'[m][d]) \subseteq HeadsOf(wire[m][d]) /\ Ordered(wire'[m][d])
      OBVIOUS
    <2>1. Ordered(wire[m][d]) /\ wire'[m][d] \in {wire[m][d], <<>>}
      BY <1>1 DEF OrderInv, OrderRow, QuietWire
    <2> QED
      BY <2>1, EmptyWire
  <1>4. \A m \in Nodes : Reading(m)' = Reading(m)
    BY DEF Reading
  <1>5. OrderInv'
    BY <1>0, <1>3, <1>4, SentSame, OrderKept
  <1> QED
    BY <1>2, <1>5

LEMMA RegisterRow ==
    ASSUME TypeOK, NEW n \in Nodes, NEW c \in Conns, registry' = [registry EXCEPT ![n] = c]
    PROVE  registry' \in [Nodes -> ConnOrNone] /\ \A m \in Nodes : registry'[m] = IF m = n THEN c ELSE registry[m]
  BY TypeParts DEF ConnOrNone

LEMMA MonRegisterInv ==
    ASSUME IInv, NEW n \in Nodes, MonRegister(n) PROVE IInv'
  <1> USE NodeFact DEF IInv
  <1>0. CInv /\ TypeOK
    BY DEF CInv
  <1>1. /\ UNCHANGED <<up, rst, used, faults, torn, entry, worker, acc, backlog, sent, got>>
        /\ mon[n].pc = "register" /\ registry' = [registry EXCEPT ![n] = mon[n].conn]
        /\ Disconnect(n, registry[n]) /\ MonGoto(n, "start", None)
    BY DEF MonRegister, MonAt, UpsertSocket
  <1>2. n = Hi
    BY <1>1 DEF CInv, RoleInv
  <1>3. PICK c \in Conns : c = mon[Hi].conn
    BY <1>0, <1>1, <1>2, WaitingFact
  <1>4. PICK o : o = registry[Hi]
    OBVIOUS
  <1>5. o < c /\ c = used /\ o \in Nat /\ c \in Nat
    BY <1>0, <1>1, <1>2, <1>3, <1>4, PendingFact, ConnFact DEF CInv, PlaceInv
  <1>6. registry' \in [Nodes -> ConnOrNone] /\ registry'[Hi] = c /\ registry'[Lo] = registry[Lo]
    BY <1>0, <1>1, <1>2, <1>3, RegisterRow, ZenonT(60)
  <1>7. None \in ConnOrNone /\ "start" \in MonPc
    BY ConnFact DEF MonPc
  <1>8. mon' \in [Nodes -> [pc : MonPc, conn : ConnOrNone]] /\ mon'[Hi].pc = "start" /\ mon'[Lo] = mon[Lo]
    BY <1>0, <1>1, <1>2, <1>7, MonGotoFact
  <1>9. TypeOK'
    BY <1>0, <1>1, <1>6, <1>8, TypeParts, TypePrime, DisconnectFact
  <1>10. /\ \A m \in Nodes, d \in Conns : ~(m = Hi /\ d = o) => wire'[m][d] = wire[m][d] /\ (HandleValid(m, d)' <=> HandleValid(m, d))
         /\ \A d \in Conns : d = o => wire'[Hi][d] = <<>> /\ ~HandleValid(Hi, d)'
    BY <1>0, <1>1, <1>2, <1>4, DisconnectFact
  <1>11. Waiting' = Waiting /\ Pending(Lo)' = Pending(Lo) /\ Pending(Hi)' \subseteq Pending(Hi)
    <2>1. \A m \in Nodes : InBacklog(m)' = InBacklog(m)
      BY <1>1 DEF InBacklog
    <2> QED
      BY <1>1, <1>8, <2>1 DEF Waiting, Pending
  <1>12. RoleInv'
    BY <1>1, <1>8 DEF CInv, RoleInv
  <1>13. PlaceInv'
    <2>1. entry[Hi] <= o /\ entry[Hi] \in Nat
      <3>1. entry[Hi] \in ConnOrNone
        BY <1>0, TypeFact
      <3> QED
        BY <1>4, <3>1, ConnFact DEF CInv, PlaceInv
    <2>2. entry[Hi] <= c /\ c <= used
      BY <1>5, <2>1
    <2>3. \A m \in Nodes : entry'[m] <= registry'[m] /\ registry'[m] <= used'
      BY <1>1, <1>6, <2>2 DEF CInv, PlaceInv
    <2> QED
      BY <1>1, <1>6, <1>8, <2>3 DEF CInv, PlaceInv
  <1>14. WorkerInv'
    <2>1. \A m \in Nodes : Reading(m)' = Reading(m)
      BY <1>1 DEF Reading
    <2>2. Starting(Lo)' = Starting(Lo)
      BY <1>1, <1>8 DEF Starting
    <2>3. ASSUME NEW d \in Conns, worker[Hi][d].pc # "none" PROVE d <= c /\ d < c
      <3>1. d <= o /\ d \in Nat
        BY <1>4, <2>3, ConnFact DEF CInv, WorkerInv
      <3> QED
        BY <1>5, <3>1
    <2>4. \A d \in Conns : worker'[Lo][d].pc # "none" => d <= registry'[Lo] /\ (Starting(Lo)' => d < registry'[Lo])
      BY <1>1, <1>6, <2>2 DEF CInv, WorkerInv
    <2>5. \A d \in Conns : worker'[Hi][d].pc # "none" => d <= registry'[Hi] /\ (Starting(Hi)' => d < registry'[Hi])
      BY <1>1, <1>6, <2>3
    <2>6. \A m \in Nodes : Reading(m)' \subseteq {entry'[m]}
      BY <1>1, <2>1 DEF CInv, WorkerInv
    <2> QED
      BY <2>4, <2>5, <2>6 DEF WorkerInv
  <1>15. SockInv'
    <2>1. \A m \in Nodes, d \in Conns : ~HandleValid(m, d)' => wire'[m][d] = <<>>
      BY <1>10 DEF CInv, SockInv
    <2>2. \A d \in Conns : HandleValid(Hi, d)' => d = used' /\ d = registry'[Hi]
      BY <1>1, <1>5, <1>6, <1>10 DEF CInv, SockInv
    <2>3. \A d \in Conns : HandleValid(Lo, d)' => d = registry'[Lo] \/ d \in Pending(Lo)'
      BY <1>6, <1>10, <1>11 DEF CInv, SockInv
    <2>4. \A d \in Pending(Lo)' : HandleValid(Lo, d)'
      BY <1>0, <1>10, <1>11, PendingFact
    <2> QED
      BY <1>8, <2>1, <2>2, <2>3, <2>4 DEF SockInv
  <1>16. IdInv'
    <2>1. \A d \in Conns : /\ NoId(wire[Hi][d]) => NoId(wire'[Hi][d])
                           /\ wire'[Lo][d] = wire[Lo][d] /\ (HandleValid(Lo, d)' <=> HandleValid(Lo, d))
      BY <1>10, EmptyWire
    <2> QED
      BY <1>1, <1>2, <1>3, <1>6, <1>8, <1>11, <2>1, IdKept
  <1>17. OrderInv' /\ FrameInv'
    <2>1. c \in Pending(Hi)
      BY <1>1, <1>2, <1>3 DEF Pending
    <2>2. Silent(Hi, c)
      BY <2>1 DEF OrderInv
    <2>3. \A m \in Nodes : /\ registry'[m] = registry[m] \/ Silent(m, registry'[m])
                           /\ Pending(m)' \subseteq Pending(m)
      BY <1>6, <1>11, <2>2
    <2> QED
      BY <1>1, <1>9, <2>3, RegisterFrames
  <1> QED
    BY <1>9, <1>12, <1>13, <1>14, <1>15, <1>16, <1>17 DEF CInv

LEMMA AccRegisterInv ==
    ASSUME IInv, NEW n \in Nodes, AccRegister(n) PROVE IInv'
  <1> USE NodeFact DEF IInv
  <1>0. CInv /\ TypeOK
    BY DEF CInv
  <1>1. /\ UNCHANGED <<up, rst, used, faults, torn, entry, worker, mon, backlog, sent, got>>
        /\ acc[n].pc = "register" /\ registry' = [registry EXCEPT ![n] = acc[n].conn]
        /\ Disconnect(n, registry[n]) /\ AccGoto(n, "start", None)
    BY DEF AccRegister, AccAt, UpsertSocket
  <1>2. n = Lo
    BY <1>1 DEF CInv, RoleInv
  <1>3. PICK c \in Conns : c = acc[Lo].conn
    BY <1>0, <1>1, <1>2, WaitingFact
  <1>4. PICK o : o = registry[Lo]
    OBVIOUS
  <1>5. o < c /\ c <= used /\ o \in Nat /\ c \in Nat
    BY <1>0, <1>1, <1>2, <1>3, <1>4, PendingFact, ConnFact DEF CInv, PlaceInv
  <1>6. registry' \in [Nodes -> ConnOrNone] /\ registry'[Lo] = c /\ registry'[Hi] = registry[Hi]
    BY <1>0, <1>1, <1>2, <1>3, RegisterRow
  <1>7. None \in ConnOrNone /\ "start" \in AccPc
    BY ConnFact DEF AccPc
  <1>8. acc' \in [Nodes -> [pc : AccPc, conn : ConnOrNone]] /\ acc'[Lo].pc = "start" /\ acc'[Hi] = acc[Hi]
    BY <1>0, <1>1, <1>2, <1>7, AccGotoFact
  <1>9. TypeOK'
    BY <1>0, <1>1, <1>6, <1>8, TypeParts, TypePrime, DisconnectFact
  <1>10. /\ \A m \in Nodes, d \in Conns : ~(m = Lo /\ d = o) => wire'[m][d] = wire[m][d] /\ (HandleValid(m, d)' <=> HandleValid(m, d))
         /\ \A d \in Conns : d = o => wire'[Lo][d] = <<>> /\ ~HandleValid(Lo, d)'
    BY <1>0, <1>1, <1>2, <1>4, DisconnectFact
  <1>11. /\ Waiting' = Waiting /\ Pending(Hi)' = Pending(Hi) /\ Pending(Lo)' = InBacklog(Lo)
         /\ Pending(Lo) = InBacklog(Lo) \union {c}
    <2>1. \A m \in Nodes : InBacklog(m)' = InBacklog(m)
      BY <1>1 DEF InBacklog
    <2>2. mon[Lo].pc \notin {"ident", "register"}
      BY DEF CInv, RoleInv
    <2> QED
      BY <1>1, <1>2, <1>3, <1>8, <2>1, <2>2 DEF Waiting, Pending
  <1>12. RoleInv'
    BY <1>1, <1>8 DEF CInv, RoleInv
  <1>13. PlaceInv'
    <2>1. entry[Lo] <= o /\ entry[Lo] \in Nat
      <3>1. entry[Lo] \in ConnOrNone
        BY <1>0, TypeFact
      <3> QED
        BY <1>4, <3>1, ConnFact DEF CInv, PlaceInv
    <2>2. entry[Lo] <= c /\ c <= used
      BY <1>5, <2>1
    <2>3. \A m \in Nodes : entry'[m] <= registry'[m] /\ registry'[m] <= used'
      BY <1>1, <1>6, <2>2 DEF CInv, PlaceInv
    <2>4. mon[Lo].pc = "ping" => mon[Lo].conn <= c
      <3>1. mon[Lo].conn \in ConnOrNone
        BY <1>0, TypeFact
      <3>2. mon[Lo].conn \in Nat
        BY <3>1, ConnFact
      <3>3. mon[Lo].pc = "ping" => mon[Lo].conn <= o
        BY <1>4 DEF CInv, PlaceInv
      <3> QED
        BY <1>5, <3>2, <3>3
    <2>5. \A i \in 1 .. Len(backlog[Lo]) : c < backlog[Lo][i] /\ backlog[Lo][i] <= used
      BY <1>1, <1>2, <1>3 DEF CInv, PlaceInv
    <2> QED
      BY <1>1, <1>6, <1>8, <2>3, <2>4, <2>5 DEF CInv, PlaceInv
  <1>14. WorkerInv'
    <2>1. \A m \in Nodes : Reading(m)' = Reading(m)
      BY <1>1 DEF Reading
    <2>2. Starting(Hi)' = Starting(Hi)
      BY <1>1, <1>8 DEF Starting
    <2>3. ASSUME NEW d \in Conns, worker[Lo][d].pc # "none" PROVE d <= c /\ d < c
      <3>1. d <= o /\ d \in Nat
        BY <1>4, <2>3, ConnFact DEF CInv, WorkerInv
      <3> QED
        BY <1>5, <3>1
    <2>4. \A d \in Conns : worker'[Hi][d].pc # "none" => d <= registry'[Hi] /\ (Starting(Hi)' => d < registry'[Hi])
      BY <1>1, <1>6, <2>2 DEF CInv, WorkerInv
    <2>5. \A d \in Conns : worker'[Lo][d].pc # "none" => d <= registry'[Lo] /\ (Starting(Lo)' => d < registry'[Lo])
      BY <1>1, <1>6, <2>3
    <2>6. \A m \in Nodes : Reading(m)' \subseteq {entry'[m]}
      BY <1>1, <2>1 DEF CInv, WorkerInv
    <2> QED
      BY <2>4, <2>5, <2>6 DEF WorkerInv
  <1>15. SockInv'
    <2>1. \A m \in Nodes, d \in Conns : ~HandleValid(m, d)' => wire'[m][d] = <<>>
      BY <1>10 DEF CInv, SockInv
    <2>2. \A d \in Conns : HandleValid(Lo, d)' => d = registry'[Lo] \/ d \in Pending(Lo)'
      BY <1>4, <1>6, <1>10, <1>11 DEF CInv, SockInv
    <2>3. \A d \in Conns : HandleValid(Hi, d)' => d = used' /\ (d = registry'[Hi] \/ d \in Pending(Hi)')
      BY <1>1, <1>6, <1>10, <1>11 DEF CInv, SockInv
    <2>4. \A d \in Pending(Lo)' : HandleValid(Lo, d)'
      <3>1. \A d \in Pending(Lo) : d \in Conns /\ o < d /\ d \in Nat /\ HandleValid(Lo, d)
        BY <1>0, <1>4, PendingFact, PendingAbove, ConnFact
      <3> QED
        BY <1>5, <1>10, <1>11, <3>1
    <2>5. mon'[Hi].pc \in {"stop", "join", "connect"} => \A d \in Conns : ~HandleValid(Hi, d)'
      BY <1>1, <1>10 DEF CInv, SockInv
    <2> QED
      BY <2>1, <2>2, <2>3, <2>4, <2>5 DEF SockInv
  <1>16. IdInv'
    <2>1. \A d \in Waiting : d # o
      BY <1>0, <1>4, <1>5, WaitingFact
    <2>2. \A d \in Conns : /\ wire'[Hi][d] = wire[Hi][d] /\ (HandleValid(Lo, d)' => HandleValid(Lo, d))
                           /\ wire'[Lo][d] \in {wire[Lo][d], <<>>}
                           /\ d \in Waiting => wire'[Lo][d] = wire[Lo][d]
      BY <1>10, <2>1
    <2> QED
      BY <1>1, <1>6, <1>11, <2>2, EmptyWire, IdKept
  <1>17. OrderInv' /\ FrameInv'
    <2>1. c \in Pending(Lo)
      BY <1>11
    <2>2. Silent(Lo, c)
      BY <2>1 DEF OrderInv
    <2>3. \A m \in Nodes : /\ registry'[m] = registry[m] \/ Silent(m, registry'[m])
                           /\ Pending(m)' \subseteq Pending(m)
      BY <1>6, <1>11, <2>2
    <2> QED
      BY <1>1, <1>9, <2>3, RegisterFrames
  <1> QED
    BY <1>9, <1>12, <1>13, <1>14, <1>15, <1>16, <1>17 DEF CInv

-----------------------------------------------------------------------------
(* A connection is made, and its client identifies itself. *)

\* The frames of the wires, where workers start, end or stand still.
LEMMA FramesMoved ==
    ASSUME FrameInv, got' = got, torn \subseteq torn',
           \A m \in Nodes, d \in Conns :
              \/ /\ worker'[m][d] = worker[m][d] /\ wire'[m][d] = wire[m][d]
                 /\ HandleValid(m, d)' => HandleValid(m, d) \/ worker[m][d].pc = "none"
              \/ worker'[m][d].pc = "none" /\ wire'[m][d] = <<>>
              \/ worker[m][d].pc = "none" /\ worker'[m][d].pc = "loop" /\ wire'[m][d] = wire[m][d]
    PROVE  FrameInv'
  <1>1. ASSUME NEW m \in Nodes, NEW d \in Conns \ torn' PROVE FrameRow(m, d)'
    <2>1. FrameRow(m, d)
      BY DEF FrameInv
    <2>2. CASE /\ worker'[m][d] = worker[m][d] /\ wire'[m][d] = wire[m][d]
               /\ HandleValid(m, d)' => HandleValid(m, d) \/ worker[m][d].pc = "none"
      <3>1. worker'[m][d].pc \in {"none", "loop", "head", "distribute"} => Framed(wire'[m][d])
        BY <2>1, <2>2 DEF FrameRow
      <3>2. worker'[m][d].pc = "body" /\ HandleValid(m, d)' =>
               /\ wire'[m][d] # <<>> /\ Head(wire'[m][d]) = <<"body", worker'[m][d].label>>
               /\ Framed(Tail(wire'[m][d]))
        BY <2>1, <2>2 DEF FrameRow
      <3>3. worker'[m][d].pc = "distribute" => worker'[m][d].intact
        BY <2>1, <2>2 DEF FrameRow
      <3> QED
        BY <3>1, <3>2, <3>3, Zenon DEF FrameRow
    <2>3. CASE ~(/\ worker'[m][d] = worker[m][d] /\ wire'[m][d] = wire[m][d]
                 /\ HandleValid(m, d)' => HandleValid(m, d) \/ worker[m][d].pc = "none")
      <3>1. worker'[m][d].pc \in {"none", "loop"} /\ Framed(wire'[m][d])
        BY <2>1, <2>3, EmptyWire DEF FrameRow
      <3>2. worker'[m][d].pc # "body" /\ worker'[m][d].pc # "distribute"
        BY <3>1
      <3> QED
        BY <3>1, <3>2, Zenon DEF FrameRow
    <2> QED
      BY <2>2, <2>3
  <1> QED
    BY <1>1 DEF FrameInv

LEMMA MonConnectInv ==
    ASSUME IInv, NEW n \in Nodes, MonConnect(n) PROVE IInv'
  <1> USE NodeFact DEF IInv
  <1>0. CInv /\ TypeOK
    BY DEF CInv
  <1>1. /\ UNCHANGED <<up, wire, rst, faults, torn, registry, entry, worker, acc, sent, got>>
        /\ mon[n].pc = "connect" /\ n = Hi /\ used < MaxConns /\ used' = used + 1
        /\ sock' = [m \in Nodes |-> [sock[m] EXCEPT ![used + 1] = "open"]]
        /\ backlog' = [backlog EXCEPT ![Lo] = Append(backlog[Lo], used + 1)]
        /\ MonGoto(n, "ident", used + 1)
    BY DEF MonConnect, MonAt
  <1>2. used \in 0 .. MaxConns /\ MaxConns \in Nat
    BY <1>0, ConnFact, TypeParts
  <1>3. PICK c \in Conns : c = used + 1
    BY <1>1, <1>2 DEF Conns
  <1>4. used \in Nat /\ c \in Nat /\ used < c /\ used' = c /\ used' \in 0 .. MaxConns
    BY <1>1, <1>2, <1>3
  <1>5. /\ sock' \in [Nodes -> [Conns -> SockState]]
        /\ \A m \in Nodes, d \in Conns : sock'[m][d] = IF d = c THEN "open" ELSE sock[m][d]
    <2>1. sock \in [Nodes -> [Conns -> SockState]] /\ "open" \in SockState
      BY <1>0, TypeParts DEF SockState
    <2>2. sock' = [m \in Nodes |-> [sock[m] EXCEPT ![c] = "open"]]
      BY <1>1, <1>3
    <2> QED
      BY <2>1, <2>2
  <1>6. PICK b \in Seq(Conns) : b = backlog[Lo]
    BY <1>0, TypeFact
  <1>7. /\ backlog' \in [Nodes -> Seq(Conns)] /\ backlog'[Lo] = Append(b, c) /\ backlog'[Hi] = backlog[Hi]
    <2>1. backlog \in [Nodes -> Seq(Conns)] /\ Append(b, c) \in Seq(Conns)
      BY <1>0, TypeParts
    <2> QED
      BY <1>1, <1>3, <1>6, <2>1
  <1>8. /\ Len(b) \in Nat /\ Len(Append(b, c)) = Len(b) + 1 /\ Append(b, c)[Len(b) + 1] = c
        /\ \A i \in 1 .. Len(b) : Append(b, c)[i] = b[i]
    BY AppendProperties, LenProperties
  <1>9. \A i \in 1 .. Len(Append(b, c)) : (i \in 1 .. Len(b) /\ Append(b, c)[i] = b[i]) \/ (i = Len(b) + 1 /\ Append(b, c)[i] = c)
    BY <1>8
  <1>10. InBacklog(Lo)' = InBacklog(Lo) \union {c} /\ InBacklog(Hi)' = InBacklog(Hi)
    <2>1. InBacklog(Lo)' \subseteq InBacklog(Lo) \union {c}
      BY <1>6, <1>7, <1>9 DEF InBacklog
    <2>2. ASSUME NEW i \in 1 .. Len(b) PROVE b[i] \in InBacklog(Lo)'
      <3>1. i \in 1 .. Len(Append(b, c)) /\ Append(b, c)[i] = b[i]
        BY <1>8
      <3> QED
        BY <1>7, <3>1 DEF InBacklog
    <2>3. c \in InBacklog(Lo)'
      <3>1. Len(b) + 1 \in 1 .. Len(Append(b, c)) /\ Append(b, c)[Len(b) + 1] = c
        BY <1>8
      <3> QED
        BY <1>7, <3>1 DEF InBacklog
    <2>4. InBacklog(Lo) \subseteq InBacklog(Lo)'
      BY <1>6, <2>2 DEF InBacklog
    <2>5. InBacklog(Hi)' = InBacklog(Hi)
      BY <1>7 DEF InBacklog
    <2> QED
      BY <2>1, <2>3, <2>4, <2>5
  <1>11. /\ mon' \in [Nodes -> [pc : MonPc, conn : ConnOrNone]] /\ mon'[Hi].pc = "ident" /\ mon'[Hi].conn = c
         /\ mon'[Lo] = mon[Lo]
    <2>1. c \in ConnOrNone /\ "ident" \in MonPc
      BY DEF ConnOrNone, MonPc
    <2> QED
      BY <1>0, <1>1, <1>3, <2>1, MonGotoFact
  <1>12. TypeOK'
    BY <1>0, <1>1, <1>4, <1>5, <1>7, <1>11, TypeParts, TypePrime DEF WiresOK
  <1>13. \A m \in Nodes, d \in Conns : (HandleValid(m, d)' <=> HandleValid(m, d) \/ d = c)
    BY <1>5 DEF HandleValid
  \* Nothing is known of the new connection.
  <1>14. \A m \in Nodes, d \in Conns : HandleValid(m, d) \/ worker[m][d].pc # "none" \/ d = registry[m] => d < c
    <2>1. \A m \in Nodes : registry[m] <= used /\ registry[m] \in Nat
      BY <1>0, PendingFact DEF CInv, PlaceInv
    <2>2. \A m \in Nodes : \A d \in Pending(m) : d <= used
      <3>1. \A d \in InBacklog(Lo) : d <= used
        BY DEF CInv, PlaceInv, InBacklog
      <3>2. \A d \in Pending(Lo) : d <= used
        BY <3>1 DEF CInv, PlaceInv, RoleInv, Pending
      <3>3. InBacklog(Hi) = {}
        BY EmptyWire DEF CInv, RoleInv, InBacklog
      <3>4. Pending(Hi) = {}
        BY <1>1, <3>3 DEF Pending, CInv, RoleInv
      <3> QED
        BY <3>2, <3>4
    <2> SUFFICES ASSUME NEW m \in Nodes, NEW d \in Conns, HandleValid(m, d) \/ worker[m][d].pc # "none" \/ d = registry[m]
                 PROVE  d < c
      OBVIOUS
    <2>3. d \in Nat
      BY ConnFact
    <2>4. d <= used
      <3>1. CASE HandleValid(m, d)
        BY <2>1, <2>2, <3>1 DEF CInv, SockInv
      <3>2. CASE worker[m][d].pc # "none"
        <4>1. d <= registry[m]
          BY <3>2 DEF CInv, WorkerInv
        <4> QED
          BY <1>4, <2>1, <2>3, <4>1
      <3>3. CASE d = registry[m]
        BY <2>1, <3>3
      <3> QED
        BY <3>1, <3>2, <3>3
    <2> QED
      BY <1>4, <2>3, <2>4
  <1>15. \A m \in Nodes, d \in Conns : c <= d => wire[m][d] = <<>> /\ worker[m][d].pc = "none" /\ ~HandleValid(m, d)
    <2> SUFFICES ASSUME NEW m \in Nodes, NEW d \in Conns, c <= d
                 PROVE  wire[m][d] = <<>> /\ worker[m][d].pc = "none" /\ ~HandleValid(m, d)
      OBVIOUS
    <2>1. d \in Nat /\ ~(d < c)
      BY <1>4, ConnFact
    <2> QED
      BY <1>14, <2>1 DEF CInv, SockInv
  <1>16. Waiting' = Waiting \union {c} /\ Pending(Lo)' = Pending(Lo) \union {c} /\ Pending(Hi)' \subseteq {c}
    <2>1. InBacklog(Hi) = {} /\ mon[Lo].pc \notin {"ident", "register"} /\ acc[Hi].pc = "accept"
      BY EmptyWire DEF CInv, RoleInv, InBacklog
    <2> QED
      BY <1>1, <1>10, <1>11, <2>1 DEF Waiting, Pending
  <1>17. RoleInv'
    BY <1>1, <1>7, <1>11 DEF CInv, RoleInv
  <1>18. PlaceInv'
    <2>0. \A m \in Nodes : registry[m] \in Nat /\ registry[m] <= used
      BY <1>0, PendingFact DEF CInv, PlaceInv
    <2>1. \A m \in Nodes : entry'[m] <= registry'[m] /\ registry'[m] <= used' /\ registry'[m] < c
      BY <1>1, <1>4, <2>0 DEF CInv, PlaceInv
    <2>2. acc'[Lo].pc \in {"ident", "register"} =>
             registry'[Lo] < acc'[Lo].conn /\ acc'[Lo].conn <= used' /\ acc'[Lo].conn < c
      <3>1. acc[Lo].conn \in ConnOrNone
        BY <1>0, TypeFact
      <3>2. acc[Lo].conn \in Nat
        BY <3>1, ConnFact
      <3> QED
        BY <1>1, <1>4, <3>2 DEF CInv, PlaceInv
    <2>3. \A i \in 1 .. Len(b) : /\ registry[Lo] < b[i] /\ b[i] <= used /\ b[i] \in Nat /\ b[i] < c /\ b[i] <= c
                                 /\ acc[Lo].pc \in {"ident", "register"} => acc[Lo].conn < b[i]
      <3>1. \A i \in 1 .. Len(b) : /\ registry[Lo] < b[i] /\ b[i] <= used
                                   /\ acc[Lo].pc \in {"ident", "register"} => acc[Lo].conn < b[i]
        BY <1>6 DEF CInv, PlaceInv
      <3>2. \A i \in 1 .. Len(b) : b[i] \in Nat
        BY ElementOfSeq, ConnFact
      <3> QED
        BY <1>4, <3>1, <3>2
    <2>4. \A i \in 1 .. Len(backlog'[Lo]) :
             /\ registry'[Lo] < backlog'[Lo][i] /\ backlog'[Lo][i] <= used'
             /\ acc'[Lo].pc \in {"ident", "register"} => acc'[Lo].conn < backlog'[Lo][i]
      <3> SUFFICES ASSUME NEW i \in 1 .. Len(Append(b, c))
                   PROVE  /\ registry[Lo] < Append(b, c)[i] /\ Append(b, c)[i] <= c
                          /\ acc[Lo].pc \in {"ident", "register"} => acc[Lo].conn < Append(b, c)[i]
        BY <1>1, <1>4, <1>7
      <3>1. CASE i \in 1 .. Len(b) /\ Append(b, c)[i] = b[i]
        BY <2>3, <3>1
      <3>2. CASE Append(b, c)[i] = c
        BY <1>1, <1>4, <2>1, <2>2, <3>2
      <3> QED
        BY <1>9, <3>1, <3>2
    <2>5. \A i, j \in 1 .. Len(backlog'[Lo]) : i < j => backlog'[Lo][i] < backlog'[Lo][j]
      <3> SUFFICES ASSUME NEW i \in 1 .. Len(Append(b, c)), NEW j \in 1 .. Len(Append(b, c)), i < j
                   PROVE  Append(b, c)[i] < Append(b, c)[j]
        BY <1>7
      <3>1. i \in 1 .. Len(b) /\ Append(b, c)[i] = b[i]
        BY <1>8
      <3>2. CASE j \in 1 .. Len(b) /\ Append(b, c)[j] = b[j]
        BY <1>6, <3>1, <3>2 DEF CInv, PlaceInv
      <3>3. CASE Append(b, c)[j] = c
        BY <2>3, <3>1, <3>3
      <3> QED
        BY <1>9, <3>2, <3>3
    <2>6. registry'[Hi] < mon'[Hi].conn /\ mon'[Hi].conn = used'
      BY <1>4, <1>11, <2>1
    <2> QED
      BY <1>1, <1>11, <2>1, <2>2, <2>4, <2>5, <2>6 DEF CInv, PlaceInv
  <1>19. WorkerInv'
    <2>1. \A m \in Nodes : Reading(m)' = Reading(m) /\ (Starting(m)' => Starting(m))
      BY <1>1, <1>11 DEF Reading, Starting
    <2> QED
      BY <1>1, <2>1 DEF CInv, WorkerInv
  <1>20. SockInv'
    <2>1. \A m \in Nodes, d \in Conns : ~HandleValid(m, d)' => wire'[m][d] = <<>>
      BY <1>1, <1>13 DEF CInv, SockInv
    <2>2. \A d \in Conns : HandleValid(Hi, d)' => d = c
      BY <1>1, <1>13 DEF CInv, SockInv
    <2>3. \A d \in Pending(Lo)' : HandleValid(Lo, d)'
      BY <1>0, <1>13, <1>16, PendingFact
    <2>4. c \in Pending(Hi)'
      BY <1>11 DEF Pending
    <2>5. \A d \in Conns : HandleValid(Lo, d)' => d = registry'[Lo] \/ d \in Pending(Lo)'
      BY <1>1, <1>13, <1>16 DEF CInv, SockInv
    <2> QED
      BY <1>4, <1>11, <2>1, <2>2, <2>3, <2>4, <2>5 DEF SockInv
  <1>21. IdInv'
    <2> SUFFICES ASSUME NEW d \in Conns PROVE IdRow(d)'
      BY DEF IdInv
    <2>1. IdRow(d)
      BY DEF IdInv
    <2>2. CASE d = c
      <3>1. wire'[Lo][d] = <<>> /\ wire'[Hi][d] = <<>> /\ registry'[Hi] # d /\ d \in Waiting'
        BY <1>1, <1>4, <1>14, <1>15, <1>16, <2>2
      <3> QED
        BY <1>11, <3>1, EmptyWire DEF IdRow
    <2>3. CASE d # c
      <3>1. wire'[Lo][d] = wire[Lo][d] /\ wire'[Hi][d] = wire[Hi][d] /\ (d \in Waiting' <=> d \in Waiting) /\ registry' = registry
        BY <1>1, <1>16, <2>3
      <3> QED
        BY <1>11, <2>1, <2>3, <3>1 DEF IdRow, NoId
    <2> QED
      BY <2>2, <2>3
  <1>22. OrderInv'
    <2>1. \A m \in Nodes : Reading(m)' = Reading(m)
      BY <1>1 DEF Reading
    <2>2. \A m \in Nodes, d \in Conns : Ordered(wire[m][d])
      BY DEF OrderInv, OrderRow
    <2>3. \A m \in Nodes : Silent(m, c)
      BY <1>15, EmptyWire DEF Silent
    <2>4. \A m \in Nodes : \A d \in Pending(m)' : d \in Pending(m) \/ Silent(m, d)
      BY <1>16, <2>3
    <2> QED
      BY <1>0, <1>1, <1>12, <2>1, <2>2, <2>4, SentSame, OrderKept
  <1>23. FrameInv'
    <2>1. \A m \in Nodes, d \in Conns : HandleValid(m, d)' => HandleValid(m, d) \/ worker[m][d].pc = "none"
      BY <1>4, <1>13, <1>15
    <2> QED
      BY <1>1, <2>1, FramesMoved
  <1> QED
    BY <1>12, <1>17, <1>18, <1>19, <1>20, <1>21, <1>22, <1>23 DEF CInv

LEMMA MonIdentInv ==
    ASSUME IInv, NEW n \in Nodes, MonIdent(n) PROVE IInv'
  <1> USE NodeFact DEF IInv
  <1>0. CInv /\ TypeOK
    BY DEF CInv
  <1> DEFINE units == <<IdUnit>>
  <1>1. /\ UNCHANGED <<up, sock, used, faults, torn, registry, entry, worker, acc, backlog, sent, got>>
        /\ mon[n].pc = "ident" /\ Send(n, mon[n].conn, units) /\ MonGoto(n, "register", mon[n].conn)
    BY DEF MonIdent, MonAt, IdUnit
  <1>2. n = Hi
    BY <1>1 DEF CInv, RoleInv
  <1>3. PICK c \in Conns : c = mon[Hi].conn
    BY <1>0, <1>1, <1>2, WaitingFact
  <1>4. /\ units \in Seq(Unit) /\ Len(units) = 1 /\ HeadsOf(units) = {} /\ Ordered(units) /\ Framed(units)
        /\ units # <<>> /\ Head(units) = IdUnit /\ Tail(units) = <<>>
    <2>1. units \in Seq(Unit) /\ Len(units) = 1 /\ HeadsOf(units) = {} /\ Ordered(units) /\ Framed(units)
      BY SentUnits
    <2>2. units # <<>> /\ Head(units) = IdUnit
      OBVIOUS
    <2>3. Tail(units) \in Seq(Unit) /\ Len(Tail(units)) = 0
      BY <2>1, <2>2, TailWire
    <2>4. Tail(units) = <<>>
      BY <2>3, EmptySeq
    <2> QED
      BY <2>1, <2>2, <2>4
  <1> HIDE DEF units
  <1>5. /\ mon' \in [Nodes -> [pc : MonPc, conn : ConnOrNone]] /\ mon'[Hi].pc = "register" /\ mon'[Hi].conn = c
        /\ mon'[Lo] = mon[Lo]
    <2>1. c \in ConnOrNone /\ "register" \in MonPc
      BY DEF ConnOrNone, MonPc
    <2> QED
      BY <1>0, <1>1, <1>2, <1>3, <2>1, MonGotoFact
  <1>6. Send(Hi, c, units)
    BY <1>1, <1>2, <1>3
  <1>7. TypeOK'
    BY <1>0, <1>1, <1>4, <1>5, <1>6, TypeParts, TypePrime, SendFact
  <1>8. \A m \in Nodes, d \in Conns : HandleValid(m, d)' <=> HandleValid(m, d)
    BY <1>1 DEF HandleValid
  <1>9. \A m \in Nodes : InBacklog(m)' = InBacklog(m) /\ Reading(m)' = Reading(m)
    BY <1>1 DEF InBacklog, Reading
  <1>10. Pending(Lo)' = Pending(Lo) /\ Waiting' = Waiting
    BY <1>1, <1>5, <1>9 DEF Pending, Waiting
  <1>11. ControlKept
    <2>1. \A d \in Pending(Lo)' : HandleValid(Lo, d)'
      BY <1>0, <1>8, <1>10, PendingFact
    <2> QED
      BY <1>1, <1>2, <1>3, <1>5, <2>1 DEF ControlKept, CInv, RoleInv
  \* Before, nothing was on the wire.
  <1>12. wire[Lo][c] = <<>> /\ (HandleValid(Lo, c) => c \in Waiting)
    BY <1>1, <1>2, <1>3 DEF IdInv, IdRow
  <1>13. \/ Arrives(Hi, c, units)
         \/ wire' = wire /\ ~HandleValid(Lo, c)
    <2>1. CASE sock[Lo][c] \in {"closed", "gone"} /\ wire' = wire
      BY <2>1 DEF HandleValid
    <2>2. CASE sock[Lo][c] \in {"open", "shut"} /\ wire' = [wire EXCEPT ![Lo][c] = wire[Lo][c] \o units]
      <3>1. wire'[Lo][c] = wire[Lo][c] \o units
        BY <1>0, <2>2 DEF TypeOK
      <3>2. Len(wire'[Lo][c]) = 1
        BY <1>4, <1>12, <3>1, EmptyWire, AppendWire
      <3>3. wire' # wire
        <4> SUFFICES ASSUME wire' = wire PROVE FALSE
          OBVIOUS
        <4>1. Len(<<>>) = 1
          BY <1>12, <3>2
        <4> QED
          BY <4>1, EmptyWire
      <3> QED
        BY <1>0, <1>1, <1>4, <1>6, <2>2, <3>3, SendFact DEF Arrives, HandleValid
    <2> QED
      BY <1>6, <2>1, <2>2 DEF Send
  <1>14. \A m \in Nodes, d \in Conns : KeptSock(m, d) /\ KeptWorker(m, d)
    <2>1. \A m \in Nodes, d \in Conns : ~HandleValid(m, d) => wire'[m][d] = wire[m][d]
      BY <1>13 DEF Arrives
    <2> QED
      BY <1>1, <1>8, <1>9, <2>1 DEF KeptSock, KeptWorker, CInv, SockInv
  <1>15. /\ RoleInv' /\ PlaceInv' /\ WorkerInv' /\ SockInv'
         /\ \A m \in Nodes : Pending(m)' \subseteq Pending(m)
    BY <1>0, <1>7, <1>11, <1>14, PlacesKept
  <1>16. IdInv'
    <2> SUFFICES ASSUME NEW d \in Conns PROVE IdRow(d)'
      BY DEF IdInv
    <2>1. IdRow(d)
      BY DEF IdInv
    <2>2. wire'[Hi][d] = wire[Hi][d] /\ (d # c => wire'[Lo][d] = wire[Lo][d])
      BY <1>13 DEF Arrives
    <2>3. CASE d # c
      BY <1>1, <1>2, <1>3, <1>5, <1>8, <1>10, <2>1, <2>2, <2>3 DEF IdRow, NoId
    <2>4. CASE d = c /\ Arrives(Hi, c, units)
      <3>1. wire'[Lo][d] = <<>> \o units
        BY <1>12, <2>4 DEF Arrives
      <3>2. wire'[Lo][d] = units
        BY <1>4, <3>1, ConcatEmptySeq
      <3>3. d \in Waiting'
        BY <1>10, <1>12, <2>4 DEF Arrives
      <3>4. wire'[Lo][d] # <<>> /\ Head(wire'[Lo][d]) = IdUnit /\ NoId(Tail(wire'[Lo][d]))
        BY <1>4, <3>2, EmptyWire
      <3> QED
        BY <1>5, <2>1, <2>2, <3>3, <3>4 DEF IdRow, NoId
    <2>5. CASE d = c /\ wire' = wire /\ ~HandleValid(Lo, c)
      <3>1. d \notin Waiting' /\ wire'[Lo][d] = <<>>
        BY <1>0, <1>10, <1>12, <2>5, WaitingFact
      <3> QED
        BY <1>5, <2>1, <2>2, <3>1, EmptyWire DEF IdRow, NoId
    <2> QED
      BY <1>13, <2>3, <2>4, <2>5
  <1>17. OrderInv'
    <2>1. CASE Arrives(Hi, c, units)
      BY <1>0, <1>1, <1>4, <1>7, <1>15, <2>1, SentSame, ArriveOrder
    <2>2. CASE wire' = wire
      <3>1. \A m \in Nodes, d \in Conns : Ordered(wire[m][d])
        BY DEF OrderInv, OrderRow
      <3> QED
        BY <1>0, <1>1, <1>7, <1>9, <1>15, <2>2, <3>1, SentSame, OrderKept
    <2> QED
      BY <1>13, <2>1, <2>2
  <1>18. FrameInv'
    <2>1. CASE Arrives(Hi, c, units)
      BY <1>0, <1>1, <1>4, <2>1, ArriveFrames
    <2>2. CASE wire' = wire
      BY <1>0, <1>1, <1>7, <2>2, QuietSame, QuietFrames
    <2> QED
      BY <1>13, <2>1, <2>2
  <1> QED
    BY <1>7, <1>15, <1>16, <1>17, <1>18 DEF CInv

-----------------------------------------------------------------------------
(* A worker is started. *)

LEMMA StartFact ==
    ASSUME CInv, NEW n \in Nodes, StartWorker(n)
    PROVE  \/ UNCHANGED <<entry, worker>>
           \/ /\ entry[n] = None /\ registry[n] \in Conns
              /\ entry' \in [Nodes -> ConnOrNone] /\ worker' \in [Nodes -> [Conns -> WorkerRec]]
              /\ \A m \in Nodes : entry'[m] = IF m = n THEN registry[n] ELSE entry[m]
              /\ \A m \in Nodes, d \in Conns :
                    /\ m = n /\ d = registry[n] => worker'[m][d].pc = "loop" /\ worker'[m][d].label = 0
                    /\ ~(m = n /\ d = registry[n]) => worker'[m][d] = worker[m][d]
  <1> USE DEF CInv
  <1>1. PICK c \in ConnOrNone : c = registry[n]
    BY TypeFact
  <1>2. PICK w : w = [NoWorker EXCEPT !.pc = "loop"]
    OBVIOUS
  <1>3. w \in WorkerRec /\ w.pc = "loop" /\ w.label = 0
    <2>1. w = [pc |-> "loop", stop |-> FALSE, label |-> 0, intact |-> TRUE]
      BY <1>2 DEF NoWorker
    <2>2. 0 \in 0 .. MaxMsgs
      BY ConnFact
    <2> QED
      BY <2>1, <2>2 DEF WorkerRec, WorkPc
  <1>4. CASE entry[n] # None
    BY <1>4 DEF StartWorker, EntryBlocks
  <1>5. CASE entry[n] = None
    <2>1. entry' = [entry EXCEPT ![n] = c] /\ worker' = [worker EXCEPT ![n][c] = w]
      BY <1>1, <1>2, <1>5 DEF StartWorker, EntryBlocks
    <2>2. entry \in [Nodes -> ConnOrNone] /\ worker \in [Nodes -> [Conns -> WorkerRec]]
      BY TypeParts
    <2>3. entry' \in [Nodes -> ConnOrNone] /\ \A m \in Nodes : entry'[m] = IF m = n THEN c ELSE entry[m]
      BY <2>1, <2>2
    <2>4. /\ worker' \in [Nodes -> [Conns -> WorkerRec]]
          /\ \A m \in Nodes, d \in Conns : worker'[m][d] = IF m = n /\ d = c THEN w ELSE worker[m][d]
      BY <1>3, <2>1, <2>2, RowUpdate
    <2>5. CASE c = None
      <3>1. entry' = entry
        BY <1>5, <2>2, <2>3, <2>5
      <3>2. \A m \in Nodes, d \in Conns : worker'[m][d] = worker[m][d]
        BY <2>4, <2>5, ConnFact
      <3>3. \A m \in Nodes : worker'[m] = worker[m]
        BY <2>2, <2>4, <3>2
      <3>4. worker' = worker
        BY <2>2, <2>4, <3>3
      <3> QED
        BY <3>1, <3>4
    <2>6. CASE c \in Conns
      BY <1>1, <1>3, <1>5, <2>3, <2>4, <2>6
    <2> QED
      BY <2>5, <2>6 DEF ConnOrNone
  <1> QED
    BY <1>4, <1>5

\* The thread that registered the socket starts its worker.
LEMMA StartInv ==
    ASSUME IInv, NEW n \in Nodes, Starting(n), StartWorker(n),
           UNCHANGED <<up, sock, wire, rst, used, faults, torn, registry, backlog, sent, got>>,
           mon' \in [Nodes -> [pc : MonPc, conn : ConnOrNone]], acc' \in [Nodes -> [pc : AccPc, conn : ConnOrNone]],
           \A m \in Nodes : mon'[m] = mon[m] \/ (m = n /\ mon[m].pc = "start" /\ mon'[m].pc = "sleep"),
           \A m \in Nodes : acc'[m] = acc[m] \/ (m = n /\ acc[m].pc = "start" /\ acc'[m].pc = "accept"),
           ~Starting(n)'
    PROVE  IInv'
  <1> USE NodeFact DEF IInv
  <1>0. CInv /\ TypeOK
    BY DEF CInv
  <1>1. \A m \in Nodes, d \in Conns : HandleValid(m, d)' <=> HandleValid(m, d)
    BY DEF HandleValid
  <1>2. /\ \A m \in Nodes : InBacklog(m)' = InBacklog(m)
        /\ mon'[Hi].pc \in {"ident", "register", "stop", "join", "connect", "ping"} => mon'[Hi] = mon[Hi]
        /\ acc'[Lo].pc \in {"ident", "register"} => acc'[Lo] = acc[Lo]
        /\ mon[Hi].pc \in {"ident", "register"} => mon'[Hi] = mon[Hi]
        /\ acc[Lo].pc \in {"ident", "register"} => acc'[Lo] = acc[Lo]
        /\ mon'[Lo] = mon[Lo] /\ acc'[Hi] = acc[Hi]
    BY DEF InBacklog, CInv, RoleInv
  <1>3. /\ Waiting' = Waiting /\ \A m \in Nodes : Pending(m)' = Pending(m)
    <2>1. Waiting' = Waiting
      BY <1>2 DEF Waiting
    <2>2. Pending(Lo)' = Pending(Lo)
      BY <1>2 DEF Pending
    <2>3. Pending(Hi)' = Pending(Hi)
      BY <1>2 DEF Pending
    <2> QED
      BY <2>1, <2>2, <2>3
  <1>4. RoleInv'
    BY <1>2 DEF CInv, RoleInv
  <1>5. IdInv'
    BY <1>1, <1>2, <1>3, IdKept
  <1>6. /\ entry' \in [Nodes -> ConnOrNone] /\ worker' \in [Nodes -> [Conns -> WorkerRec]]
        /\ \A m \in Nodes : entry'[m] = entry[m] \/ (m = n /\ entry'[m] = registry[m])
        /\ \A m \in Nodes, d \in Conns :
              worker'[m][d] = worker[m][d] \/
                 /\ m = n /\ d = registry[n] /\ entry[n] = None /\ entry'[n] = registry[n]
                 /\ worker'[m][d].pc = "loop" /\ worker'[m][d].label = 0
    BY <1>0, StartFact, TypeParts, SMTT(60)
  <1>7. TypeOK'
    BY <1>0, <1>6, TypeParts, TypePrime DEF WiresOK
  <1>8. PlaceInv'
    <2>1. \A m \in Nodes : registry[m] \in Nat
      BY <1>0, PendingFact
    <2>2. \A m \in Nodes : entry'[m] <= registry'[m] /\ registry'[m] <= used'
      <3>1. \A m \in Nodes : entry[m] <= registry[m] /\ registry[m] <= used
        BY DEF CInv, PlaceInv
      <3>2. \A m \in Nodes : entry'[m] = entry[m] \/ entry'[m] = registry[m]
        BY <1>6
      <3> QED
        BY <2>1, <3>1, <3>2
    <2> QED
      BY <1>2, <2>2 DEF CInv, PlaceInv
  \* The worker is the only one: none is entered, so none reads.
  <1>9. \A m \in Nodes, d \in Conns : d \in Reading(m)' =>
           (d \in Reading(m) /\ worker'[m][d] = worker[m][d]) \/ (m = n /\ d = entry'[n] /\ worker'[m][d].label = 0)
    BY <1>6 DEF Reading
  <1>10. WorkerInv'
    <2>1. \A m \in Nodes : Reading(m)' \subseteq {entry'[m]}
      <3> SUFFICES ASSUME NEW m \in Nodes, NEW d \in Reading(m)' PROVE d = entry'[m]
        OBVIOUS
      <3>1. d \in Conns
        BY DEF Reading
      <3>2. CASE d \in Reading(m) /\ worker'[m][d] = worker[m][d]
        <4>1. d = entry[m]
          BY <3>2 DEF CInv, WorkerInv
        <4>2. entry'[m] = entry[m]
          BY <1>0, <3>1, <4>1, ConnFact, StartFact
        <4> QED
          BY <4>1, <4>2
      <3> QED
        BY <1>9, <3>1, <3>2
    <2>2. ASSUME NEW m \in Nodes, NEW d \in Conns, worker'[m][d].pc # "none"
          PROVE  d <= registry'[m] /\ (Starting(m)' => d < registry'[m])
      <3>1. Starting(m)' => Starting(m) /\ m # n
        BY DEF Starting
      <3>2. d \in Nat
        BY ConnFact
      <3>3. CASE worker'[m][d] = worker[m][d]
        BY <2>2, <3>1, <3>3 DEF CInv, WorkerInv
      <3>4. CASE m = n /\ d = registry[n]
        BY <3>1, <3>2, <3>4
      <3> QED
        BY <1>6, <3>3, <3>4
    <2> QED
      BY <2>1, <2>2 DEF WorkerInv
  <1>11. SockInv'
    <2>1. mon'[Hi].pc \in {"stop", "join", "connect"} => \A d \in Conns : ~HandleValid(Hi, d)'
      BY <1>1, <1>2 DEF CInv, SockInv
    <2>2. \A d \in Pending(Lo)' : HandleValid(Lo, d)'
      BY <1>0, <1>1, <1>3, PendingFact
    <2>3. \A m \in Nodes, d \in Conns : HandleValid(m, d)' => d = registry'[m] \/ d \in Pending(m)'
      BY <1>1, <1>3 DEF CInv, SockInv
    <2>4. /\ \A m \in Nodes, d \in Conns : ~HandleValid(m, d)' => wire'[m][d] = <<>>
          /\ \A d \in Conns : HandleValid(Hi, d)' => d = used'
      BY <1>1 DEF CInv, SockInv
    <2> QED
      BY <2>1, <2>2, <2>3, <2>4 DEF SockInv
  \* Nobody has read the connection before.
  <1>12. ASSUME NEW m \in Nodes, NEW d \in Conns, worker'[m][d] # worker[m][d]
         PROVE  worker[m][d].pc = "none" /\ worker'[m][d].pc = "loop" /\ worker'[m][d].label = 0
    <2>1. m = n /\ d = registry[n] /\ worker'[m][d].pc = "loop" /\ worker'[m][d].label = 0 /\ d \in Nat
      BY <1>6, <1>12, ConnFact
    <2> QED
      BY <2>1 DEF CInv, WorkerInv
  <1>13. FrameInv'
    BY <1>1, <1>12, FramesMoved
  <1>14. OrderInv'
    <2>1. \A m \in Nodes, d \in Conns :
             /\ worker'[m][d].label \in {0, worker[m][d].label}
             /\ worker'[m][d].pc \in {"body", "distribute"} =>
                    worker'[m][d].label = worker[m][d].label /\ worker[m][d].pc \in {"body", "distribute"}
             /\ d \in Reading(m)' => d \in Reading(m) \/ worker'[m][d].label = 0
      BY <1>9, <1>12
    <2>2. \A m \in Nodes, d \in Conns : Ordered(wire[m][d])
      BY DEF OrderInv, OrderRow
    <2> QED
      BY <1>0, <1>3, <1>7, <2>1, <2>2, SentSame, OrderKept
  <1> QED
    BY <1>4, <1>5, <1>7, <1>8, <1>10, <1>11, <1>13, <1>14 DEF CInv

LEMMA MonStartInv ==
    ASSUME IInv, NEW n \in Nodes, MonStart(n) PROVE IInv'
  <1> USE NodeFact DEF IInv
  <1>0. CInv /\ TypeOK
    BY DEF CInv
  <1>1. /\ UNCHANGED <<up, sock, wire, rst, used, faults, torn, registry, acc, backlog, sent, got>>
        /\ mon[n].pc = "start" /\ StartWorker(n) /\ MonGoto(n, "sleep", None)
    BY DEF MonStart, MonAt, net
  <1>2. None \in ConnOrNone /\ "sleep" \in MonPc
    BY ConnFact DEF MonPc
  <1>3. /\ mon' \in [Nodes -> [pc : MonPc, conn : ConnOrNone]] /\ mon'[n].pc = "sleep"
        /\ \A m \in Nodes : m # n => mon'[m] = mon[m]
    BY <1>0, <1>1, <1>2, MonGotoFact
  <1>4. acc' \in [Nodes -> [pc : AccPc, conn : ConnOrNone]]
    BY <1>0, <1>1, TypeParts
  <1>5. Starting(n) /\ ~Starting(n)'
    <2>1. n = Hi /\ acc[Hi].pc = "accept"
      BY <1>1 DEF CInv, RoleInv
    <2> QED
      BY <1>1, <1>3, <2>1 DEF Starting
  <1> QED
    BY <1>1, <1>3, <1>4, <1>5, StartInv

LEMMA AccStartInv ==
    ASSUME IInv, NEW n \in Nodes, AccStart(n) PROVE IInv'
  <1> USE NodeFact DEF IInv
  <1>0. CInv /\ TypeOK
    BY DEF CInv
  <1>1. /\ UNCHANGED <<up, sock, wire, rst, used, faults, torn, registry, mon, backlog, sent, got>>
        /\ acc[n].pc = "start" /\ StartWorker(n) /\ AccGoto(n, "accept", None)
    BY DEF AccStart, AccAt, net
  <1>2. None \in ConnOrNone /\ "accept" \in AccPc
    BY ConnFact DEF AccPc
  <1>3. /\ acc' \in [Nodes -> [pc : AccPc, conn : ConnOrNone]] /\ acc'[n].pc = "accept"
        /\ \A m \in Nodes : m # n => acc'[m] = acc[m]
    BY <1>0, <1>1, <1>2, AccGotoFact
  <1>4. mon' \in [Nodes -> [pc : MonPc, conn : ConnOrNone]]
    BY <1>0, <1>1, TypeParts
  <1>5. Starting(n) /\ ~Starting(n)'
    <2>1. n = Lo /\ mon[Lo].pc # "start"
      BY <1>1 DEF CInv, RoleInv
    <2> QED
      BY <1>1, <1>3, <2>1 DEF Starting
  <1> QED
    BY <1>1, <1>3, <1>4, <1>5, StartInv

-----------------------------------------------------------------------------
(* A worker goes on. *)

LEMMA WorkKept ==
    ASSUME CInv, IdInv, TypeOK', NEW n \in Nodes, NEW c \in Conns, c \in Reading(n),
           UNCHANGED <<sock, used, registry, entry, mon, acc, backlog>>,
           \A m \in Nodes, d \in Conns : ~(m = n /\ d = c) => worker'[m][d] = worker[m][d],
           wire' = wire \/ (HandleValid(n, c) /\ wire[n][c] # <<>> /\ Takes(n, c))
    PROVE  /\ RoleInv' /\ PlaceInv' /\ WorkerInv' /\ SockInv' /\ IdInv'
           /\ \A m \in Nodes : Pending(m)' = Pending(m) /\ Reading(m)' \subseteq Reading(m)
  <1> USE NodeFact
  <1>0. TypeOK
    BY DEF CInv
  <1>1. \A m \in Nodes, d \in Conns : HandleValid(m, d)' <=> HandleValid(m, d)
    BY DEF HandleValid
  <1>2. Waiting' = Waiting /\ \A m \in Nodes : Pending(m)' = Pending(m)
    BY DEF Waiting, Pending, InBacklog
  <1>3. \A m \in Nodes, d \in Conns : KeptWorker(m, d)
    <2>1. worker[n][c].pc # "none"
      BY DEF Reading
    <2> QED
      BY <2>1 DEF KeptWorker, Reading
  <1>4. \A m \in Nodes, d \in Conns : KeptSock(m, d)
    <2>1. \A m \in Nodes, d \in Conns : ~HandleValid(m, d) => wire'[m][d] = wire[m][d]
      BY DEF Takes
    <2> QED
      BY <1>1, <2>1 DEF KeptSock, CInv, SockInv
  <1>5. ControlKept
    <2>1. \A d \in Pending(Lo)' : HandleValid(Lo, d)'
      BY <1>1, <1>2, PendingFact
    <2> QED
      BY <1>1, <2>1 DEF ControlKept, CInv, RoleInv, SockInv
  <1>6. /\ RoleInv' /\ PlaceInv' /\ WorkerInv' /\ SockInv'
        /\ \A m \in Nodes : Reading(m)' \subseteq Reading(m)
    BY <1>3, <1>4, <1>5, PlacesKept
  <1>7. n = Lo => c \notin Waiting
    <2> SUFFICES ASSUME n = Lo, c \in Waiting PROVE FALSE
      OBVIOUS
    <2>1. c <= registry[Lo]
      BY DEF CInv, WorkerInv, Reading
    <2>2. registry[Lo] < c /\ registry[Lo] \in Nat /\ c \in Nat
      BY WaitingFact, PendingFact, ConnFact
    <2> QED
      BY <2>1, <2>2
  <1>8. ASSUME NEW m \in Nodes, NEW d \in Conns
        PROVE  /\ NoId(wire[m][d]) => NoId(wire'[m][d])
               /\ wire[m][d] = <<>> => wire'[m][d] = <<>>
               /\ m = Lo /\ d \in Waiting => wire'[m][d] = wire[m][d]
    <2>1. CASE wire'[m][d] = wire[m][d]
      BY <2>1
    <2>2. CASE wire'[m][d] # wire[m][d]
      <3>1. m = n /\ d = c /\ wire[n][c] # <<>> /\ wire'[n][c] = Tail(wire[n][c])
        BY <2>2 DEF Takes
      <3>2. wire[n][c] \in Seq(Unit)
        BY <1>0, RowFact
      <3> QED
        BY <1>7, <3>1, <3>2, TailWire
    <2> QED
      BY <2>1, <2>2
  <1>9. IdInv'
    BY <1>1, <1>2, <1>8, IdKept
  <1> QED
    BY <1>2, <1>6, <1>9

\* The frames of the other connections, and those of the one that is read.
LEMMA WorkFrames ==
    ASSUME FrameInv, NEW n \in Nodes, NEW c \in Conns, UNCHANGED <<sock, torn>>,
           \A m \in Nodes, d \in Conns : ~(m = n /\ d = c) => worker'[m][d] = worker[m][d] /\ wire'[m][d] = wire[m][d],
           c \notin torn => FrameRow(n, c)',
           \A m \in Nodes : torn = {} => got'[m].intact
    PROVE  FrameInv'
  <1>1. ASSUME NEW m \in Nodes, NEW d \in Conns \ torn' PROVE FrameRow(m, d)'
    <2>1. CASE m = n /\ d = c
      BY <2>1
    <2>2. CASE ~(m = n /\ d = c)
      <3>0. FrameRow(m, d) /\ worker'[m][d] = worker[m][d] /\ wire'[m][d] = wire[m][d]
            /\ (HandleValid(m, d)' <=> HandleValid(m, d))
        BY <2>2 DEF FrameInv, HandleValid
      <3>1. worker'[m][d].pc \in {"none", "loop", "head", "distribute"} => Framed(wire'[m][d])
        BY <3>0 DEF FrameRow
      <3>2. worker'[m][d].pc = "body" /\ HandleValid(m, d)' =>
               /\ wire'[m][d] # <<>> /\ Head(wire'[m][d]) = <<"body", worker'[m][d].label>>
               /\ Framed(Tail(wire'[m][d]))
        BY <3>0 DEF FrameRow
      <3>3. worker'[m][d].pc = "distribute" => worker'[m][d].intact
        BY <3>0 DEF FrameRow
      <3> QED
        BY <3>1, <3>2, <3>3, Zenon DEF FrameRow
    <2> QED
      BY <2>1, <2>2
  <1> QED
    BY <1>1 DEF FrameInv

\* No connection older than the one that is read holds anything.
LEMMA ReadsOldest ==
    ASSUME CInv, NEW n \in Nodes, NEW c \in Conns, c \in Reading(n), NEW d \in Conns, d < c
    PROVE  wire[n][d] = <<>>
  <1>1. c <= registry[n] /\ registry[n] \in Nat /\ c \in Nat /\ d \in Nat
    BY PendingFact, ConnFact DEF CInv, WorkerInv, Reading
  <1>2. d # registry[n] /\ d \notin Pending(n)
    BY <1>1, PendingAbove
  <1> QED
    BY <1>2 DEF CInv, SockInv

LEMMA WorkHeadInv ==
    ASSUME IInv, NEW n \in Nodes, NEW c \in Conns, WorkHead(n, c) PROVE IInv'
  <1> USE NodeFact DEF IInv
  <1>0. CInv /\ TypeOK
    BY DEF CInv
  <1>1. PICK u : u = Head(wire[n][c])
    OBVIOUS
  <1>2. PICK w : w = worker[n][c]
    OBVIOUS
  <1>3. /\ UNCHANGED <<up, rst, used, faults, torn, registry, entry, mon, acc, backlog, sent, got>>
        /\ w.pc = "head" /\ HandleValid(n, c) /\ wire[n][c] # <<>> /\ c \in Reading(n)
    BY <1>2 DEF WorkHead, WorkAt, RecvAll, Reading
  <1>4. w \in WorkerRec /\ w.stop \in BOOLEAN /\ wire[n][c] \in Seq(Unit)
    BY <1>0, <1>2, WorkerRow, RowFact
  <1>5. u \in Unit /\ u[2] \in 0 .. MaxMsgs
    BY <1>1, <1>3, <1>4, TailWire, UnitFact
  <1>6. CASE Incoherent(u) /\ ~w.stop
    <2>1. Disconnect(n, c) /\ worker' = [worker EXCEPT ![n][c].pc = "exit", ![n][c].stop = TRUE]
      BY <1>1, <1>2, <1>6 DEF WorkHead
    <2>2. PICK v \in WorkerRec : v = WithPc(w, "exit") /\ v.pc = "exit" /\ v.label = w.label /\ v.intact = w.intact
      BY <1>4, WorkerFields DEF WorkPc
    <2>3. PICK x \in WorkerRec : x = WithStop(v) /\ x.pc = "exit" /\ x.label = w.label /\ x.intact = w.intact
      BY <2>2, WorkerFields
    <2>4. SetWorker(n, c, x)
      <3>1. worker \in [Nodes -> [Conns -> WorkerRec]]
        BY <1>0, TypeParts
      <3> QED
        BY <1>2, <2>1, <2>2, <2>3, <3>1 DEF SetWorker, WithPc, WithStop
    <2> QED
      BY <1>2, <1>3, <2>1, <2>3, <2>4, WorkExitInv
  <1>7. CASE ~(Incoherent(u) /\ ~w.stop)
    <2>1. PICK pc \in {"exit", "body", "loop"} : pc = IF w.stop THEN "exit" ELSE IF u[1] = "head" THEN "body" ELSE "loop"
      OBVIOUS
    <2>2. /\ wire' = [wire EXCEPT ![n][c] = Tail(wire[n][c])] /\ sock' = sock
          /\ worker' = [worker EXCEPT ![n][c].label = u[2], ![n][c].pc = pc]
      BY <1>1, <1>2, <1>7, <2>1 DEF WorkHead
    <2>3. PICK v \in WorkerRec : v = WithLabel(w, u[2]) /\ v.label = u[2] /\ v.intact = w.intact
      BY <1>4, <1>5, WorkerFields
    <2>4. PICK x \in WorkerRec : x = WithPc(v, pc) /\ x.pc = pc /\ x.label = u[2]
      BY <2>3, WorkerFields DEF WorkPc
    <2>5. SetWorker(n, c, x)
      <3>1. worker \in [Nodes -> [Conns -> WorkerRec]]
        BY <1>0, TypeParts
      <3> QED
        BY <1>2, <2>2, <2>3, <2>4, <3>1 DEF SetWorker, WithPc, WithLabel
    <2>6. /\ worker' \in [Nodes -> [Conns -> WorkerRec]]
          /\ \A m \in Nodes, d \in Conns : worker'[m][d] = IF m = n /\ d = c THEN x ELSE worker[m][d]
      BY <1>0, <2>5, WorkerUpdate
    <2>7. Takes(n, c) /\ WiresOK'
      BY <1>0, <1>3, <2>2, TakeFact
    <2>8. TypeOK'
      BY <1>0, <1>3, <2>2, <2>6, <2>7, TypeParts, TypePrime
    <2>9. /\ RoleInv' /\ PlaceInv' /\ WorkerInv' /\ SockInv' /\ IdInv'
          /\ \A m \in Nodes : Pending(m)' = Pending(m) /\ Reading(m)' \subseteq Reading(m)
      BY <1>0, <1>3, <2>2, <2>6, <2>7, <2>8, WorkKept
    <2>10. \A m \in Nodes, d \in Conns : HeadsOf(wire'[m][d]) \subseteq HeadsOf(wire[m][d]) /\ Ordered(wire'[m][d])
      BY <1>0, <1>3, <2>7, TakeHeads
    <2>11. wire'[n][c] = Tail(wire[n][c])
      BY <2>7 DEF Takes
    \* What the header says.
    <2>12. CASE pc # "body"
      <3>1. pc = "exit" \/ (pc = "loop" /\ u[2] = 0 /\ u[1] = "ping")
        <4>1. CASE w.stop
          BY <2>1, <4>1
        <4>2. CASE ~w.stop
          <5>1. u[1] \notin {"id", "body", "head"}
            BY <1>7, <2>1, <2>12, <4>2 DEF Incoherent
          <5>2. u = <<"ping", 0>>
            BY <1>5, <5>1, UnitFact
          <5> QED
            BY <2>1, <4>2, <5>1, <5>2
        <4> QED
          BY <4>1, <4>2
      <3>2. OrderInv'
        <4>1. ASSUME NEW m \in Nodes, NEW d \in Conns
              PROVE  /\ d \in Reading(m)' => worker'[m][d].label = 0 \/ (d \in Reading(m) /\ worker'[m][d].label = worker[m][d].label)
                     /\ worker'[m][d].pc \in {"body", "distribute"} =>
                           worker'[m][d].label = worker[m][d].label /\ worker[m][d].pc \in {"body", "distribute"}
          <5>1. CASE m = n /\ d = c
            BY <2>4, <2>6, <3>1, <5>1 DEF Reading
          <5>2. CASE ~(m = n /\ d = c)
            BY <2>6, <5>2 DEF Reading
          <5> QED
            BY <5>1, <5>2
        <4> QED
          BY <1>0, <1>3, <2>8, <2>9, <2>10, <4>1, SentSame, OrderKept
      <3>3. FrameInv'
        <4>1. ASSUME c \notin torn PROVE FrameRow(n, c)'
          <5>1. pc = "loop" => Framed(wire'[n][c])
            <6>1. pc = "loop" => u[1] = "ping"
              BY <3>1
            <6>2. Framed(wire[n][c])
              BY <1>2, <1>3, <4>1 DEF FrameInv, FrameRow
            <6> QED
              BY <1>1, <1>3, <1>4, <2>11, <6>1, <6>2, TailWire
          <5>2. worker'[n][c].pc \in {"exit", "loop"}
            BY <2>4, <2>6, <3>1
          <5>3. worker'[n][c].pc \in {"none", "loop", "head", "distribute"} => Framed(wire'[n][c])
            BY <2>4, <2>6, <5>1, <5>2
          <5>4. worker'[n][c].pc # "body" /\ worker'[n][c].pc # "distribute"
            BY <5>2
          <5> QED
            BY <5>3, <5>4, Zenon DEF FrameRow
        <4>2. \A m \in Nodes, d \in Conns : ~(m = n /\ d = c) => worker'[m][d] = worker[m][d] /\ wire'[m][d] = wire[m][d]
          BY <2>6, <2>7 DEF Takes
        <4>3. \A m \in Nodes : torn = {} => got'[m].intact
          BY <1>3 DEF FrameInv
        <4> QED
          BY <1>3, <2>2, <4>1, <4>2, <4>3, WorkFrames
      <3> QED
        BY <2>8, <2>9, <3>2, <3>3 DEF CInv
    <2>13. CASE pc = "body"
      <3>1. PICK k \in 1 .. MaxMsgs : u = <<"head", k>> /\ u[2] = k
        <4>1. u[1] = "head"
          BY <2>1, <2>13
        <4>2. u[2] \in 1 .. MaxMsgs /\ u = <<"head", u[2]>>
          BY <1>5, <4>1, UnitFact
        <4> QED
          BY <4>2
      <3>2. k \in HeadsOf(wire[n][c]) /\ \A l \in HeadsOf(wire'[n][c]) : k < l
        <4>1. Ordered(wire[n][c])
          BY DEF OrderInv, OrderRow
        <4> QED
          BY <1>1, <1>3, <1>4, <2>11, <3>1, <4>1, TailWire
      <3>3. k \in Nat /\ k <= sent[Other(n)] /\ k > got[n].label
        <4>1. k \in Nat
          BY ConnFact
        <4>2. OrderRow(n, c)
          BY DEF OrderInv
        <4> QED
          BY <3>2, <4>1, <4>2 DEF OrderRow
      <3>4. OrderInv'
        <4>1. ASSUME NEW m \in Nodes PROVE sent[m] <= sent'[m] /\ got'[m].label <= sent'[Other(m)]
          BY <1>0, <1>3, SentSame DEF OrderInv
        <4>2. ASSUME NEW m \in Nodes, NEW d \in Conns
              PROVE  /\ d \in Reading(m)' => worker'[m][d].label <= sent'[Other(m)]
                     /\ worker'[m][d].pc \in {"body", "distribute"} => worker'[m][d].label > got'[m].label
          <5>1. CASE m = n /\ d = c
            BY <1>3, <2>4, <2>6, <3>1, <3>3, <5>1
          <5>2. CASE ~(m = n /\ d = c)
            <6>1. OrderRow(m, d) /\ worker'[m][d] = worker[m][d]
              BY <2>6, <5>2 DEF OrderInv
            <6>2. d \in Reading(m)' => d \in Reading(m)
              BY <2>9
            <6> QED
              BY <1>3, <6>1, <6>2 DEF OrderRow
          <5> QED
            BY <5>1, <5>2
        <4>3. ASSUME NEW m \in Nodes, NEW d \in Conns, NEW l \in HeadsOf(wire'[m][d])
              PROVE  l > got'[m].label /\ \A e \in Reading(m)' : l > worker'[m][e].label
          <5>1. l \in HeadsOf(wire[m][d])
            BY <2>10, <4>3
          <5>2. OrderRow(m, d)
            BY DEF OrderInv
          <5>3. l > got'[m].label
            BY <1>3, <5>1, <5>2 DEF OrderRow
          <5>4. ASSUME NEW e \in Reading(m)' PROVE l > worker'[m][e].label
            <6>1. e \in Conns /\ e \in Reading(m)
              BY <2>9 DEF Reading
            <6>2. CASE ~(m = n /\ e = c)
              <7>1. worker'[m][e] = worker[m][e]
                BY <2>6, <6>1, <6>2
              <7> QED
                BY <5>1, <5>2, <6>1, <7>1 DEF OrderRow
            <6>3. CASE m = n /\ e = c
              <7>1. worker'[m][e].label = k
                BY <2>4, <2>6, <3>1, <6>3
              <7>2. CASE d = c
                BY <3>2, <3>3, <4>3, <6>3, <7>1, <7>2, ConnFact DEF HeadsOf
              <7>3. CASE d # c
                <8>1. ~(d < c)
                  <9> SUFFICES ASSUME d < c PROVE FALSE
                    OBVIOUS
                  <9>1. wire[m][d] = <<>>
                    BY <1>0, <1>3, <6>3, ReadsOldest
                  <9> QED
                    BY <5>1, <9>1, EmptyWire
                <8>2. c < d
                  BY <7>3, <8>1, ConnFact
                <8>3. OrderRow(n, c)
                  BY DEF OrderInv
                <8>4. k < l
                  BY <3>2, <5>1, <6>3, <8>2, <8>3 DEF OrderRow
                <8>5. l \in Nat
                  BY <5>1, ConnFact DEF HeadsOf
                <8> QED
                  BY <3>3, <7>1, <8>4, <8>5
              <7> QED
                BY <7>2, <7>3
            <6> QED
              BY <6>2, <6>3
          <5> QED
            BY <5>3, <5>4
        <4> QED
          BY <1>0, <1>3, <2>8, <2>9, <2>10, <4>1, <4>2, <4>3, OrderMoved
      <3>5. FrameInv'
        <4>1. ASSUME c \notin torn PROVE FrameRow(n, c)'
          <5>1. Framed(wire[n][c])
            BY <1>2, <1>3, <4>1 DEF FrameInv, FrameRow
          <5>2. wire'[n][c] # <<>> /\ Head(wire'[n][c]) = <<"body", k>> /\ Framed(Tail(wire'[n][c]))
            BY <1>1, <1>3, <1>4, <2>11, <3>1, <5>1, TailWire
          <5>3. worker'[n][c].pc = "body" /\ worker'[n][c].label = k
            BY <2>4, <2>6, <2>13, <3>1
          <5>4. worker'[n][c].pc = "body" /\ HandleValid(n, c)' =>
                   /\ wire'[n][c] # <<>> /\ Head(wire'[n][c]) = <<"body", worker'[n][c].label>>
                   /\ Framed(Tail(wire'[n][c]))
            BY <5>2, <5>3
          <5>5. worker'[n][c].pc \notin {"none", "loop", "head", "distribute"} /\ worker'[n][c].pc # "distribute"
            BY <5>3
          <5> QED
            BY <5>4, <5>5, Zenon DEF FrameRow
        <4>2. \A m \in Nodes, d \in Conns : ~(m = n /\ d = c) => worker'[m][d] = worker[m][d] /\ wire'[m][d] = wire[m][d]
          BY <2>6, <2>7 DEF Takes
        <4>3. \A m \in Nodes : torn = {} => got'[m].intact
          BY <1>3 DEF FrameInv
        <4> QED
          BY <1>3, <2>2, <4>1, <4>2, <4>3, WorkFrames
      <3> QED
        BY <2>8, <2>9, <3>4, <3>5 DEF CInv
    <2> QED
      BY <2>12, <2>13
  <1> QED
    BY <1>6, <1>7

LEMMA WorkBodyInv ==
    ASSUME IInv, NEW n \in Nodes, NEW c \in Conns, WorkBody(n, c) PROVE IInv'
  <1> USE NodeFact DEF IInv
  <1>0. CInv /\ TypeOK
    BY DEF CInv
  <1>1. PICK w : w = worker[n][c]
    OBVIOUS
  <1>2. PICK pc \in {"exit", "distribute"} : pc = IF w.stop THEN "exit" ELSE "distribute"
    OBVIOUS
  <1>3. PICK b \in BOOLEAN : b = (Head(wire[n][c]) = <<"body", w.label>>)
    OBVIOUS
  <1>4. /\ UNCHANGED <<up, sock, rst, used, faults, torn, registry, entry, mon, acc, backlog, sent, got>>
        /\ w.pc = "body" /\ HandleValid(n, c) /\ wire[n][c] # <<>> /\ c \in Reading(n)
    BY <1>1 DEF WorkBody, WorkAt, RecvAll, Reading
  <1>5. /\ wire' = [wire EXCEPT ![n][c] = Tail(wire[n][c])]
        /\ worker' = [worker EXCEPT ![n][c].pc = pc, ![n][c].intact = b]
    BY <1>1, <1>2, <1>3 DEF WorkBody
  <1>6. w \in WorkerRec /\ wire[n][c] \in Seq(Unit)
    BY <1>0, <1>1, WorkerRow, RowFact
  <1>7. PICK v \in WorkerRec : v = WithPc(w, pc) /\ v.pc = pc /\ v.label = w.label
    BY <1>6, WorkerFields DEF WorkPc
  <1>8. PICK x \in WorkerRec : x = WithIntact(v, b) /\ x.pc = pc /\ x.label = w.label /\ x.intact = b
    BY <1>7, WorkerFields
  <1>9. SetWorker(n, c, x)
    <2>1. worker \in [Nodes -> [Conns -> WorkerRec]]
      BY <1>0, TypeParts
    <2> QED
      BY <1>1, <1>5, <1>7, <1>8, <2>1 DEF SetWorker, WithPc, WithIntact
  <1>10. /\ worker' \in [Nodes -> [Conns -> WorkerRec]]
         /\ \A m \in Nodes, d \in Conns : worker'[m][d] = IF m = n /\ d = c THEN x ELSE worker[m][d]
    BY <1>0, <1>9, WorkerUpdate
  <1>11. Takes(n, c) /\ WiresOK' /\ wire'[n][c] = Tail(wire[n][c])
    <2>1. Takes(n, c) /\ WiresOK'
      BY <1>0, <1>4, <1>5, TakeFact
    <2> QED
      BY <2>1 DEF Takes
  <1>12. TypeOK'
    BY <1>0, <1>4, <1>10, <1>11, TypeParts, TypePrime
  <1>13. /\ RoleInv' /\ PlaceInv' /\ WorkerInv' /\ SockInv' /\ IdInv'
         /\ \A m \in Nodes : Pending(m)' = Pending(m) /\ Reading(m)' \subseteq Reading(m)
    BY <1>0, <1>4, <1>10, <1>11, <1>12, WorkKept
  <1>14. OrderInv'
    <2>1. \A m \in Nodes, d \in Conns : HeadsOf(wire'[m][d]) \subseteq HeadsOf(wire[m][d]) /\ Ordered(wire'[m][d])
      BY <1>0, <1>4, <1>11, TakeHeads
    <2>2. \A m \in Nodes, d \in Conns :
             /\ worker'[m][d].label = worker[m][d].label
             /\ worker'[m][d].pc \in {"body", "distribute"} => worker[m][d].pc \in {"body", "distribute"}
      BY <1>1, <1>4, <1>8, <1>10
    <2> QED
      BY <1>0, <1>4, <1>12, <1>13, <2>1, <2>2, SentSame, OrderKept
  <1>15. FrameInv'
    <2>1. ASSUME c \notin torn PROVE FrameRow(n, c)'
      <3>1. Head(wire[n][c]) = <<"body", w.label>> /\ Framed(Tail(wire[n][c]))
        BY <1>1, <1>4, <2>1 DEF FrameInv, FrameRow
      <3>2. worker'[n][c].pc # "body" /\ Framed(wire'[n][c])
        BY <1>8, <1>10, <1>11, <3>1
      <3>3. worker'[n][c].intact
        BY <1>3, <1>8, <1>10, <3>1
      <3> QED
        BY <3>2, <3>3, Zenon DEF FrameRow
    <2>2. \A m \in Nodes, d \in Conns : ~(m = n /\ d = c) => worker'[m][d] = worker[m][d] /\ wire'[m][d] = wire[m][d]
      BY <1>10, <1>11 DEF Takes
    <2>3. \A m \in Nodes : torn = {} => got'[m].intact
      BY <1>4 DEF FrameInv
    <2> QED
      BY <1>4, <2>1, <2>2, <2>3, WorkFrames
  <1> QED
    BY <1>12, <1>13, <1>14, <1>15 DEF CInv

LEMMA WorkDistributeInv ==
    ASSUME IInv, NEW n \in Nodes, NEW c \in Conns, WorkDistribute(n, c)
    PROVE  /\ IInv'
           /\ got'[n].label > got[n].label /\ (torn = {} => got'[n].intact)
           /\ \A m \in Nodes : m # n => got'[m] = got[m]
  <1> USE NodeFact DEF IInv
  <1>0. CInv /\ TypeOK
    BY DEF CInv
  <1>1. PICK w : w = worker[n][c]
    OBVIOUS
  <1>2. PICK b : b = (got[n].intact /\ w.intact)
    OBVIOUS
  <1>3. /\ UNCHANGED <<up, sock, wire, rst, used, faults, torn, registry, entry, mon, acc, backlog, sent>>
        /\ w.pc = "distribute" /\ c \in Reading(n)
        /\ worker' = [worker EXCEPT ![n][c].pc = "loop"]
        /\ got' = [got EXCEPT ![n] = [label |-> w.label, intact |-> b]]
    BY <1>1, <1>2 DEF WorkDistribute, WorkAt, WorkGoto, Reading, net
  <1>4. w \in WorkerRec /\ w.label \in 0 .. MaxMsgs /\ w.intact \in BOOLEAN /\ b \in BOOLEAN
    BY <1>0, <1>1, <1>2, WorkerRow, RowFact
  <1>5. PICK x \in WorkerRec : x = WithPc(w, "loop") /\ x.pc = "loop" /\ x.label = w.label
    BY <1>4, WorkerFields DEF WorkPc
  <1>6. SetWorker(n, c, x)
    BY <1>1, <1>3, <1>5 DEF SetWorker, WithPc
  <1>7. /\ worker' \in [Nodes -> [Conns -> WorkerRec]]
        /\ \A m \in Nodes, d \in Conns : worker'[m][d] = IF m = n /\ d = c THEN x ELSE worker[m][d]
    BY <1>0, <1>6, WorkerUpdate
  <1>8. /\ got' \in [Nodes -> [label : 0 .. MaxMsgs, intact : BOOLEAN]]
        /\ got'[n].label = w.label /\ got'[n].intact = b /\ \A m \in Nodes : m # n => got'[m] = got[m]
    <2>0. PICK g : g = [label |-> w.label, intact |-> b]
      OBVIOUS
    <2>1. g \in [label : 0 .. MaxMsgs, intact : BOOLEAN] /\ g.label = w.label /\ g.intact = b
      BY <1>4, <2>0
    <2>2. got \in [Nodes -> [label : 0 .. MaxMsgs, intact : BOOLEAN]]
      BY <1>0, TypeParts
    <2>3. got' = [got EXCEPT ![n] = g]
      BY <1>3, <2>0
    <2>4. got' \in [Nodes -> [label : 0 .. MaxMsgs, intact : BOOLEAN]] /\ got'[n] = g /\ \A m \in Nodes : m # n => got'[m] = got[m]
      BY <2>1, <2>2, <2>3
    <2> QED
      BY <2>1, <2>4
  <1>9. TypeOK'
    BY <1>0, <1>3, <1>7, <1>8, TypeParts, TypePrime DEF WiresOK
  <1>10. /\ RoleInv' /\ PlaceInv' /\ WorkerInv' /\ SockInv' /\ IdInv'
         /\ \A m \in Nodes : Pending(m)' = Pending(m) /\ Reading(m)' \subseteq Reading(m)
    BY <1>0, <1>3, <1>7, <1>9, WorkKept
  <1>11. w.label > got[n].label /\ w.label <= sent[Other(n)]
    <2>1. OrderRow(n, c)
      BY DEF OrderInv
    <2> QED
      BY <1>1, <1>3, <2>1 DEF OrderRow
  <1>12. OrderInv'
    <2>1. ASSUME NEW m \in Nodes PROVE sent[m] <= sent'[m] /\ got'[m].label <= sent'[Other(m)]
      <3>1. sent[m] <= sent'[m]
        BY <1>0, <1>3, SentSame
      <3>2. CASE m = n
        BY <1>3, <1>8, <1>11, <3>1, <3>2
      <3>3. CASE m # n
        BY <1>3, <1>8, <3>1, <3>3 DEF OrderInv
      <3> QED
        BY <3>2, <3>3
    <2>2. ASSUME NEW m \in Nodes, NEW d \in Conns
          PROVE  /\ d \in Reading(m)' => worker'[m][d].label <= sent'[Other(m)]
                 /\ worker'[m][d].pc \in {"body", "distribute"} => worker'[m][d].label > got'[m].label
      <3>1. CASE m = n /\ d = c
        BY <1>3, <1>5, <1>7, <1>11, <3>1
      <3>2. CASE ~(m = n /\ d = c)
        <4>1. OrderRow(m, d) /\ worker'[m][d] = worker[m][d]
          BY <1>7, <3>2 DEF OrderInv
        <4>2. d \in Reading(m)' => d \in Reading(m)
          BY <1>10
        <4>3. worker'[m][d].pc \in {"body", "distribute"} => m # n
          <5> SUFFICES ASSUME worker'[m][d].pc \in {"body", "distribute"}, m = n PROVE FALSE
            OBVIOUS
          <5>1. d \in Reading(n) /\ d # c
            BY <3>2, <4>1 DEF Reading
          <5> QED
            BY <1>3, <5>1 DEF CInv, WorkerInv
        <4> QED
          BY <1>3, <1>8, <4>1, <4>2, <4>3 DEF OrderRow
      <3> QED
        BY <3>1, <3>2
    <2>3. \A m \in Nodes, d \in Conns : worker'[m][d].label = worker[m][d].label
      BY <1>1, <1>5, <1>7
    <2>4. ASSUME NEW m \in Nodes, NEW d \in Conns, NEW l \in HeadsOf(wire'[m][d])
          PROVE  l > got'[m].label /\ \A e \in Reading(m)' : l > worker'[m][e].label
      <3>1. OrderRow(m, d) /\ l \in HeadsOf(wire[m][d])
        BY <1>3, <2>4 DEF OrderInv
      <3>2. l > got[m].label /\ \A e \in Reading(m) : l > worker[m][e].label
        BY <3>1 DEF OrderRow
      <3>3. l > got'[m].label
        <4>1. CASE m = n
          BY <1>1, <1>3, <1>8, <3>2, <4>1
        <4>2. CASE m # n
          BY <1>8, <3>2, <4>2
        <4> QED
          BY <4>1, <4>2
      <3>4. \A e \in Reading(m)' : l > worker'[m][e].label
        BY <1>10, <2>3, <3>2 DEF Reading
      <3> QED
        BY <3>3, <3>4
    <2>5. \A m \in Nodes, d \in Conns : HeadsOf(wire'[m][d]) \subseteq HeadsOf(wire[m][d]) /\ Ordered(wire'[m][d])
      BY <1>3 DEF OrderInv, OrderRow
    <2> QED
      BY <1>0, <1>3, <1>9, <1>10, <2>1, <2>2, <2>4, <2>5, OrderMoved
  <1>13. torn = {} => got'[n].intact
    <2> SUFFICES ASSUME torn = {} PROVE b
      BY <1>8
    <2>1. got[n].intact /\ FrameRow(n, c)
      BY DEF FrameInv
    <2> QED
      BY <1>1, <1>2, <1>3, <2>1 DEF FrameRow
  <1>14. FrameInv'
    <2>1. ASSUME c \notin torn PROVE FrameRow(n, c)'
      <3>1. Framed(wire'[n][c])
        BY <1>1, <1>3, <2>1 DEF FrameInv, FrameRow
      <3>2. worker'[n][c].pc = "loop"
        BY <1>5, <1>7
      <3>3. worker'[n][c].pc # "body" /\ worker'[n][c].pc # "distribute"
        BY <3>2
      <3> QED
        BY <3>1, <3>3, Zenon DEF FrameRow
    <2>2. \A m \in Nodes, d \in Conns : ~(m = n /\ d = c) => worker'[m][d] = worker[m][d] /\ wire'[m][d] = wire[m][d]
      BY <1>3, <1>7
    <2>3. \A m \in Nodes : torn = {} => got'[m].intact
      BY <1>8, <1>13 DEF FrameInv
    <2> QED
      BY <1>3, <2>1, <2>2, <2>3, WorkFrames
  <1> QED
    BY <1>8, <1>9, <1>10, <1>11, <1>12, <1>13, <1>14 DEF CInv

-----------------------------------------------------------------------------
(* A process ends. *)

LEMMA CrashInv ==
    ASSUME IInv, NEW n \in Nodes, NEW kind, NEW end \in {"closed", "gone"}, Crash(n, kind, end) PROVE IInv'
  <1> USE NodeFact DEF IInv
  <1>0. CInv /\ TypeOK
    BY DEF CInv
  <1>1. UNCHANGED <<rst, used, torn, sent, got>> /\ faults < MaxFaults /\ faults' = faults + 1
    BY DEF Crash
  <1>2. up' \in [Nodes -> BOOLEAN] /\ faults' \in 0 .. MaxFaults
    <2>1. up \in [Nodes -> BOOLEAN] /\ faults \in 0 .. MaxFaults /\ MaxFaults \in Nat
      BY <1>0, TypeParts, ConnFact
    <2>2. up' \in [Nodes -> BOOLEAN]
      BY <2>1 DEF Crash
    <2> QED
      BY <1>1, <2>1, <2>2
  <1>3. /\ registry' \in [Nodes -> ConnOrNone] /\ entry' \in [Nodes -> ConnOrNone]
        /\ registry'[n] = None /\ entry'[n] = None
        /\ \A m \in Nodes : m # n => registry'[m] = registry[m] /\ entry'[m] = entry[m]
    <2>1. registry \in [Nodes -> ConnOrNone] /\ entry \in [Nodes -> ConnOrNone] /\ None \in ConnOrNone
      BY <1>0, TypeParts, ConnFact
    <2>2. registry' = [registry EXCEPT ![n] = None] /\ entry' = [entry EXCEPT ![n] = None]
      BY DEF Crash
    <2> QED
      BY <2>1, <2>2
  <1>4. /\ mon' \in [Nodes -> [pc : MonPc, conn : ConnOrNone]] /\ mon'[n].pc = "sleep"
        /\ \A m \in Nodes : m # n => mon'[m] = mon[m]
    <2>1. MonGoto(n, "sleep", None)
      BY DEF Crash, MonGoto, Idle
    <2>2. None \in ConnOrNone /\ "sleep" \in MonPc
      BY ConnFact DEF MonPc
    <2> QED
      BY <1>0, <2>1, <2>2, MonGotoFact
  <1>5. /\ acc' \in [Nodes -> [pc : AccPc, conn : ConnOrNone]] /\ acc'[n].pc = "accept"
        /\ \A m \in Nodes : m # n => acc'[m] = acc[m]
    <2>1. AccGoto(n, "accept", None)
      BY DEF Crash, AccGoto, Idle
    <2>2. None \in ConnOrNone /\ "accept" \in AccPc
      BY ConnFact DEF AccPc
    <2> QED
      BY <1>0, <2>1, <2>2, AccGotoFact
  <1>6. /\ backlog' \in [Nodes -> Seq(Conns)] /\ backlog'[n] = <<>>
        /\ \A m \in Nodes : m # n => backlog'[m] = backlog[m]
    <2>1. backlog \in [Nodes -> Seq(Conns)] /\ <<>> \in Seq(Conns)
      BY <1>0, TypeParts, EmptySeq
    <2> QED
      BY <2>1 DEF Crash
  <1>7. /\ worker' \in [Nodes -> [Conns -> WorkerRec]]
        /\ \A d \in Conns : worker'[n][d].pc = "none" /\ worker'[n][d].label = 0
        /\ \A m \in Nodes : m # n => worker'[m] = worker[m]
    <2>1. worker \in [Nodes -> [Conns -> WorkerRec]] /\ NoWorker \in WorkerRec
      BY <1>0, TypeParts, WorkerBlank DEF WorkerRec
    <2>0. PICK f : f = [d \in Conns |-> NoWorker]
      OBVIOUS
    <2>2. f \in [Conns -> WorkerRec] /\ \A d \in Conns : f[d] = NoWorker
      BY <2>0, <2>1
    <2>3. worker' = [worker EXCEPT ![n] = f]
      BY <2>0 DEF Crash
    <2>4. worker' \in [Nodes -> [Conns -> WorkerRec]] /\ worker'[n] = f /\ \A m \in Nodes : m # n => worker'[m] = worker[m]
      BY <2>1, <2>2, <2>3
    <2> QED
      BY <2>2, <2>4, WorkerBlank
  <1>8. /\ sock' \in [Nodes -> [Conns -> SockState]]
        /\ \A d \in Conns : sock'[n][d] \notin {"open", "shut"}
        /\ \A m \in Nodes : m # n => sock'[m] = sock[m]
    <2>1. sock \in [Nodes -> [Conns -> SockState]] /\ end \in SockState
      BY <1>0, TypeParts DEF SockState
    <2>2. PICK f : f = [d \in Conns |-> IF HandleValid(n, d) THEN end ELSE sock[n][d]]
      OBVIOUS
    <2>3. f \in [Conns -> SockState] /\ \A d \in Conns : f[d] \notin {"open", "shut"}
      BY <2>1, <2>2 DEF HandleValid
    <2>4. sock' = [sock EXCEPT ![n] = f]
      BY <2>2 DEF Crash
    <2>5. sock' \in [Nodes -> [Conns -> SockState]] /\ sock'[n] = f /\ \A m \in Nodes : m # n => sock'[m] = sock[m]
      BY <2>1, <2>3, <2>4
    <2> QED
      BY <2>3, <2>5
  <1>9. WiresOK' /\ (\A d \in Conns : wire'[n][d] = <<>>) /\ \A m \in Nodes : m # n => wire'[m] = wire[m]
    <2>1. WiresOK /\ wire \in [Nodes -> [Conns -> Seq(Unit)]]
      BY <1>0, TypeParts DEF WiresOK
    <2>0. PICK f : f = [d \in Conns |-> <<>>]
      OBVIOUS
    <2>2. f \in [Conns -> Seq(Unit)] /\ \A d \in Conns : f[d] = <<>>
      BY <2>0, EmptyWire
    <2>3. wire' = [wire EXCEPT ![n] = f]
      BY <2>0 DEF Crash
    <2>4. wire' \in [Nodes -> [Conns -> Seq(Unit)]] /\ wire'[n] = f /\ \A m \in Nodes : m # n => wire'[m] = wire[m]
      BY <2>1, <2>2, <2>3
    <2>5. \A m \in Nodes, d \in Conns : Len(wire'[m][d]) <= Buf
      <3> SUFFICES ASSUME NEW m \in Nodes, NEW d \in Conns PROVE Len(wire'[m][d]) <= Buf
        OBVIOUS
      <3>1. CASE m = n
        <4>1. wire'[m][d] = <<>>
          BY <2>2, <2>4, <3>1
        <4> QED
          BY <4>1, EmptyWire, PeerAssumption
      <3>2. CASE m # n
        BY <2>1, <2>4, <3>2 DEF WiresOK
      <3> QED
        BY <3>1, <3>2
    <2> QED
      BY <2>2, <2>4, <2>5 DEF WiresOK
  <1>10. TypeOK'
    BY <1>0, <1>1, <1>2, <1>3, <1>4, <1>5, <1>6, <1>7, <1>8, <1>9, TypeParts, TypePrime
  <1>11. /\ \A d \in Conns : ~HandleValid(n, d)'
         /\ \A m \in Nodes, d \in Conns : m # n => (HandleValid(m, d)' <=> HandleValid(m, d))
    BY <1>8 DEF HandleValid
  <1>12. /\ InBacklog(n)' = {} /\ Pending(n)' = {} /\ Reading(n)' = {} /\ ~Starting(n)'
         /\ \A m \in Nodes : m # n => /\ InBacklog(m)' = InBacklog(m) /\ Pending(m)' = Pending(m)
                                      /\ Reading(m)' = Reading(m) /\ Starting(m)' = Starting(m)
    <2>1. InBacklog(n)' = {}
      BY <1>6, EmptyWire DEF InBacklog
    <2>2. Pending(n)' = {} /\ Reading(n)' = {} /\ ~Starting(n)'
      BY <1>4, <1>5, <1>7, <2>1 DEF Pending, Reading, Starting
    <2>3. \A m \in Nodes : m # n => InBacklog(m)' = InBacklog(m)
      <3> SUFFICES ASSUME NEW m \in Nodes, m # n PROVE InBacklog(m)' = InBacklog(m)
        OBVIOUS
      <3>1. backlog'[m] = backlog[m]
        BY <1>6
      <3> QED
        BY <3>1 DEF InBacklog
    <2>4. \A m \in Nodes : m # n => /\ Pending(m)' = Pending(m)
                                    /\ Reading(m)' = Reading(m) /\ Starting(m)' = Starting(m)
      BY <1>4, <1>5, <1>7, <2>3 DEF Pending, Reading, Starting
    <2> QED
      BY <2>1, <2>2, <2>3, <2>4
  <1>13. Waiting' = IF n = Lo THEN {} ELSE Waiting
    BY <1>5, <1>12 DEF Waiting
  <1>14. RoleInv'
    BY <1>4, <1>5, <1>6 DEF CInv, RoleInv
  <1>15. PlaceInv'
    <2>1. used \in Nat /\ None <= None /\ None <= used
      BY <1>0, TypeParts, ConnFact DEF None
    <2>2. \A m \in Nodes : entry'[m] <= registry'[m] /\ registry'[m] <= used'
      BY <1>1, <1>3, <2>1 DEF CInv, PlaceInv
    <2>3. CASE n = Lo
      <3>1. Len(backlog'[Lo]) = 0
        BY <1>6, <2>3, EmptyWire
      <3> QED
        BY <1>1, <1>3, <1>4, <1>5, <2>2, <2>3, <3>1 DEF CInv, PlaceInv
    <2>4. CASE n = Hi
      BY <1>1, <1>3, <1>4, <1>5, <1>6, <2>2, <2>4 DEF CInv, PlaceInv
    <2> QED
      BY <2>3, <2>4
  <1>16. WorkerInv'
    BY <1>3, <1>7, <1>12 DEF CInv, WorkerInv
  <1>17. SockInv'
    <2>1. \A m \in Nodes, d \in Conns : ~HandleValid(m, d)' => wire'[m][d] = <<>>
      BY <1>9, <1>11 DEF CInv, SockInv
    <2>2. \A m \in Nodes, d \in Conns : HandleValid(m, d)' => d = registry'[m] \/ d \in Pending(m)'
      BY <1>3, <1>11, <1>12 DEF CInv, SockInv
    <2>3. \A d \in Pending(Lo)' : HandleValid(Lo, d)'
      BY <1>0, <1>11, <1>12, PendingFact
    <2>4. \A d \in Conns : HandleValid(Hi, d)' => d = used'
      BY <1>1, <1>11 DEF CInv, SockInv
    <2>5. mon'[Hi].pc \in {"stop", "join", "connect"} => \A d \in Conns : ~HandleValid(Hi, d)'
      BY <1>4, <1>11 DEF CInv, SockInv
    <2> QED
      BY <2>1, <2>2, <2>3, <2>4, <2>5 DEF SockInv
  <1>18. IdInv'
    <2>1. CASE n = Hi
      BY <1>3, <1>4, <1>9, <1>11, <1>13, <2>1, EmptyWire, ConnFact, IdKept
    <2>2. CASE n = Lo
      <3> SUFFICES ASSUME NEW d \in Conns PROVE IdRow(d)'
        BY DEF IdInv
      <3>1. IdRow(d) /\ wire'[Hi][d] = wire[Hi][d] /\ wire'[Lo][d] = <<>> /\ d \notin Waiting' /\ ~HandleValid(Lo, d)'
        BY <1>9, <1>11, <1>13, <2>2 DEF IdInv
      <3> QED
        BY <3>1, EmptyWire DEF IdRow, NoId
    <2> QED
      BY <2>1, <2>2
  <1>19. OrderInv'
    <2>1. \A m \in Nodes, d \in Conns : HeadsOf(wire'[m][d]) \subseteq HeadsOf(wire[m][d]) /\ Ordered(wire'[m][d])
      BY <1>9, EmptyWire DEF OrderInv, OrderRow
    <2>2. \A m \in Nodes, d \in Conns :
             /\ d \in Reading(m)' => d \in Reading(m) /\ worker'[m][d].label = worker[m][d].label
             /\ worker'[m][d].pc \in {"body", "distribute"} =>
                    worker'[m][d].label = worker[m][d].label /\ worker[m][d].pc \in {"body", "distribute"}
      BY <1>7, <1>12
    <2>3. \A m \in Nodes : registry'[m] \in {registry[m], None} /\ Pending(m)' \subseteq Pending(m)
      BY <1>3, <1>12
    <2> QED
      BY <1>0, <1>1, <1>10, <2>1, <2>2, <2>3, SentSame, OrderKept
  <1>20. FrameInv'
    BY <1>1, <1>7, <1>9, <1>11, FramesMoved
  <1> QED
    BY <1>10, <1>14, <1>15, <1>16, <1>17, <1>18, <1>19, <1>20 DEF CInv

-----------------------------------------------------------------------------
(* The theorems. *)

LEMMA WorkInv ==
    ASSUME IInv, NEW n \in Nodes, NEW c \in Conns, Work(n, c) PROVE IInv'
  BY WorkLoopInv, WorkHeadInv, WorkBodyInv, WorkRecvFailsInv, WorkDistributeInv DEF Work

LEMMA MonitorInv ==
    ASSUME IInv, NEW n \in Nodes, Monitor(n) PROVE IInv'
  BY MonTickInv, MonPingInv, MonDisconnectInv, MonStopInv, MonJoinInv, MonConnectInv, MonConnectFailsInv,
     MonIdentInv, MonIdentFailsInv, MonRegisterInv, MonStartInv DEF Monitor

LEMMA AcceptorInv ==
    ASSUME IInv, NEW n \in Nodes, Acceptor(n) PROVE IInv'
  BY AcceptInv, AccIdentInv, AccIdentFailsInv, AccRegisterInv, AccStartInv DEF Acceptor

LEMMA StutterInv ==
    ASSUME IInv, UNCHANGED vars PROVE IInv'
  <1> USE NodeFact DEF IInv
  <1>0. CInv /\ TypeOK
    BY DEF CInv
  <1>1. UNCHANGED <<up, sock, wire, rst, used, faults, torn, registry, entry, worker, mon, acc, backlog, sent, got>>
    BY DEF vars, net
  <1>2. TypeOK'
    BY <1>0, <1>1, TypeParts, TypePrime DEF WiresOK
  <1>3. QuietControl
    BY <1>0, <1>1, QuietStill DEF HandleValid
  <1> QED
    BY <1>0, <1>1, <1>2, <1>3, QuietSame, SentSame, Quiet

\* Every step preserves the invariant.
LEMMA NextInv == IInv /\ [Next]_vars => IInv'
  <1> SUFFICES ASSUME IInv, [Next]_vars PROVE IInv'
    OBVIOUS
  <1>1. CASE UNCHANGED vars
    BY <1>1, StutterInv
  <1>2. ASSUME NEW n \in Nodes, \/ Monitor(n) \/ Acceptor(n) \/ SendLabel(n) \/ SendPart(n) \/ SendFails(n)
                                \/ Crash(n, "crash", "closed") \/ Crash(n, "vanish", "gone") \/ Restart(n)
                                \/ \E c \in Conns : Work(n, c)
        PROVE  IInv'
    <2>1. CASE Crash(n, "crash", "closed") \/ Crash(n, "vanish", "gone")
      BY <2>1, CrashInv
    <2>2. CASE Restart(n)
      BY <2>2, ResetRestartInv
    <2>3. CASE \E c \in Conns : Work(n, c)
      BY <2>3, WorkInv
    <2>4. CASE SendLabel(n) \/ SendPart(n) \/ SendFails(n)
      BY <2>4, SendLabelInv, SendPartInv, SendFailsInv
    <2> QED
      BY <1>2, <2>1, <2>2, <2>3, <2>4, MonitorInv, AcceptorInv
  <1>3. CASE \E c \in Conns : Reset(c)
    BY <1>3, ResetRestartInv
  <1> QED
    BY <1>1, <1>2, <1>3 DEF Next

\* The inductive invariant: roles, places of connections, workers, sockets,
\* client headers, the order of labels and the frames on the wires.
THEOREM PeerInvariant == Spec => []IInv
  BY InitInv, NextInv, PTL DEF Spec

\* Every variable of the connection manager's model keeps its type: no wire
\* holds more than its buffer, however often connections are replaced.
THEOREM PeerTypes == Spec => []TypeOK
  <1>1. IInv => TypeOK
    BY DEF IInv, CInv
  <1> QED
    BY <1>1, PeerInvariant, PTL

\* "only 1 thread listens to each sockets incoming messages" (tcp_socket.h), for
\* any number of connections, resets, crashes and restarts: the worker in the map
\* is the only one that reads, and not the connection the accept thread reads.
THEOREM SingleReader == Spec => []OneReader
  <1>1. IInv => OneReader
    <2> SUFFICES ASSUME IInv, NEW n \in Nodes
                 PROVE  /\ Reading(n) \subseteq {entry[n]}
                        /\ acc[n].pc = "ident" => acc[n].conn \notin Reading(n)
      BY DEF OneReader
    <2>1. Reading(n) \subseteq {entry[n]}
      BY DEF IInv, CInv, WorkerInv
    <2>2. ASSUME acc[n].pc = "ident", acc[n].conn \in Reading(n) PROVE FALSE
      <3>1. n = Lo
        BY <2>2, NodeFact DEF IInv, CInv, RoleInv
      <3>2. acc[n].conn \in Conns /\ acc[n].conn \in Pending(n)
        BY <2>2 DEF Reading, Pending
      <3>3. acc[n].conn <= registry[n]
        BY <2>2, <3>2 DEF IInv, CInv, WorkerInv, Reading
      <3>4. registry[n] < acc[n].conn /\ registry[n] \in Nat /\ acc[n].conn \in Nat
        BY <3>2, PendingAbove, PendingFact, ConnFact DEF IInv
      <3> QED
        BY <3>3, <3>4
    <2> QED
      BY <2>1, <2>2
  <1> QED
    BY <1>1, PeerInvariant, PTL

\* Labels are handed on in the order in which the peer sent them, none twice, over
\* all reconnections and restarts; and unchanged, unless a send wrote only a part.
THEOREM LabelsInOrder == Spec => InOrder
  <1>1. IInv =>
           [\A n \in Nodes, c \in Conns : WorkDistribute(n, c) =>
               got'[n].label > got[n].label /\ (got'[n].intact \/ torn # {})]_vars
    BY WorkDistributeInv
  <1> QED
    BY <1>1, PeerInvariant, PTL DEF InOrder

-----------------------------------------------------------------------------
(* Who closes a connection. *)

LEMMA HealthyNow ==
    ASSUME IInv, NEW c \in Conns, Healthy(c)
    PROVE  /\ ~rst[c] /\ c \notin torn /\ sock[Lo][c] = "open" /\ sock[Hi][c] = "open"
           /\ \A n \in Nodes : sock[n][c] = "open" /\ Open(n, c) /\ ~AtEof(n, c) /\ ~RecvError(n, c) /\ ~PingFails(n, c)
           /\ c = used
  <1> USE NodeFact
  <1>1. ~rst[c] /\ c \notin torn /\ \A n \in Nodes : sock[n][c] = "open"
    BY DEF Healthy
  <1>2. c = used
    BY <1>1 DEF HandleValid, IInv, CInv, SockInv
  <1>3. \A n \in Nodes : sock[Other(n)][c] = "open"
    BY <1>1
  <1>4. \A n \in Nodes : Open(n, c) /\ ~AtEof(n, c) /\ ~RecvError(n, c) /\ ~PingFails(n, c)
    BY <1>1, <1>3 DEF Open, AtEof, RecvError, PingFails
  <1> QED
    BY <1>1, <1>2, <1>4

LEMMA DisconnectOther ==
    ASSUME IInv, NEW c \in Conns, Healthy(c), NEW n \in Nodes, NEW d, Disconnect(n, d), d # c
    PROVE  \A m \in Nodes : sock'[m][c] = "open"
  BY HealthyNow, DisconnectFact DEF IInv, CInv

LEMMA ShutOther ==
    ASSUME IInv, NEW c \in Conns, Healthy(c), NEW n \in Nodes, NEW d \in Conns, SetShut(n, d), d # c
    PROVE  \A m \in Nodes : sock'[m][c] = "open"
  BY HealthyNow, ShutUpdate DEF IInv, CInv

LEMMA MonitorHealthy ==
    ASSUME IInv, NEW c \in Conns, Healthy(c), NEW n \in Nodes, Monitor(n)
    PROVE  \A m \in Nodes : sock'[m][c] = "open"
  <1> USE NodeFact
  <1>1. CASE MonTick(n) \/ MonPing(n) \/ MonStop(n) \/ MonJoin(n) \/ MonConnectFails(n) \/ MonIdent(n) \/ MonStart(n)
    <2>1. sock' = sock
      BY <1>1 DEF MonTick, MonPing, MonStop, MonJoin, MonConnectFails, MonIdent, MonStart, net
    <2> QED
      BY <2>1, HealthyNow
  <1>2. CASE MonConnect(n)
    <2>1. sock' = [m \in Nodes |-> [sock[m] EXCEPT ![used + 1] = "open"]]
      BY <1>2 DEF MonConnect
    <2>2. sock \in [Nodes -> [Conns -> SockState]]
      BY TypeParts DEF IInv, CInv
    <2>3. \A m \in Nodes : sock'[m][c] = sock[m][c] \/ sock'[m][c] = "open"
      BY <2>1, <2>2
    <2> QED
      BY <2>3, HealthyNow
  <1>3. CASE MonDisconnect(n)
    <2>1. Disconnect(n, mon[n].conn) /\ PingFails(n, mon[n].conn)
      BY <1>3 DEF MonDisconnect
    <2>2. mon[n].conn # c
      BY <2>1, HealthyNow
    <2> QED
      BY <2>1, <2>2, DisconnectOther
  <1>4. CASE MonIdentFails(n)
    <2>1. Disconnect(n, mon[n].conn) /\ rst[mon[n].conn]
      BY <1>4 DEF MonIdentFails
    <2>2. mon[n].conn # c
      BY <2>1, HealthyNow
    <2> QED
      BY <2>1, <2>2, DisconnectOther
  \* upsert_socket closes a connection older than the newest one.
  <1>5. CASE MonRegister(n)
    <2>1. Disconnect(n, registry[n]) /\ mon[n].pc = "register"
      BY <1>5 DEF MonRegister, MonAt, UpsertSocket
    <2>2. n = Hi
      BY <2>1 DEF IInv, CInv, RoleInv
    <2>3. registry[Hi] < mon[Hi].conn /\ mon[Hi].conn = used
      BY <2>1, <2>2 DEF IInv, CInv, PlaceInv
    <2>4. registry[Hi] \in Nat /\ used \in Nat /\ c = used
      BY HealthyNow, PendingFact, ConnFact DEF IInv
    <2>5. registry[n] # c
      BY <2>2, <2>3, <2>4
    <2> QED
      BY <2>1, <2>5, DisconnectOther
  <1> QED
    BY <1>1, <1>2, <1>3, <1>4, <1>5 DEF Monitor

LEMMA AcceptorHealthy ==
    ASSUME IInv, NEW c \in Conns, Healthy(c), NEW n \in Nodes, Acceptor(n)
    PROVE  \A m \in Nodes : sock'[m][c] = "open"
  <1> USE NodeFact
  <1>1. CASE Accept(n) \/ AccStart(n)
    <2>1. sock' = sock
      BY <1>1 DEF Accept, AccStart, net
    <2> QED
      BY <2>1, HealthyNow
  <1>2. CASE AccIdentFails(n)
    <2>1. Disconnect(n, acc[n].conn) /\ (AtEof(n, acc[n].conn) \/ RecvError(n, acc[n].conn))
      BY <1>2 DEF AccIdentFails
    <2>2. acc[n].conn # c
      BY <2>1, HealthyNow
    <2> QED
      BY <2>1, <2>2, DisconnectOther
  \* The first header of a client is its identification.
  <1>3. CASE AccIdent(n)
    <2>1. acc[n].pc = "ident" /\ wire[n][acc[n].conn] # <<>>
      BY <1>3 DEF AccIdent, AccAt, RecvAll
    <2>2. sock' = sock \/ (Disconnect(n, acc[n].conn) /\ Head(wire[n][acc[n].conn]) # IdUnit)
      BY <1>3 DEF AccIdent, IdUnit
    <2>3. CASE sock' = sock
      BY <2>3, HealthyNow
    <2>4. CASE Disconnect(n, acc[n].conn) /\ Head(wire[n][acc[n].conn]) # IdUnit
      <3>1. n = Lo
        BY <2>1 DEF IInv, CInv, RoleInv
      <3>2. acc[Lo].conn = c => c \in Waiting
        BY <2>1, <3>1 DEF Waiting
      <3>3. acc[n].conn # c
        BY <2>1, <2>4, <3>1, <3>2 DEF IInv, IdInv, IdRow
      <3> QED
        BY <2>4, <3>3, DisconnectOther
    <2> QED
      BY <2>2, <2>3, <2>4
  <1>4. CASE AccRegister(n)
    <2>1. Disconnect(n, registry[n]) /\ acc[n].pc = "register"
      BY <1>4 DEF AccRegister, AccAt, UpsertSocket
    <2>2. n = Lo
      BY <2>1 DEF IInv, CInv, RoleInv
    <2>3. registry[Lo] < acc[Lo].conn /\ acc[Lo].conn <= used
      BY <2>1, <2>2 DEF IInv, CInv, PlaceInv
    <2>4. registry[Lo] \in Nat /\ acc[Lo].conn \in Nat /\ used \in Nat /\ c = used
      <3>1. acc[Lo].conn \in ConnOrNone
        BY TypeFact DEF IInv, CInv
      <3> QED
        BY <3>1, HealthyNow, PendingFact, ConnFact DEF IInv
    <2>5. registry[n] # c
      BY <2>2, <2>3, <2>4
    <2> QED
      BY <2>1, <2>5, DisconnectOther
  <1> QED
    BY <1>1, <1>2, <1>3, <1>4 DEF Acceptor

LEMMA WorkHealthy ==
    ASSUME IInv, NEW c \in Conns, Healthy(c), NEW n \in Nodes, NEW d \in Conns, Work(n, d)
    PROVE  \A m \in Nodes : sock'[m][c] = "open"
  <1> USE NodeFact
  <1>1. CASE WorkLoop(n, d) \/ WorkBody(n, d) \/ WorkDistribute(n, d)
    <2>1. sock' = sock
      BY <1>1 DEF WorkLoop, WorkBody, WorkDistribute, net
    <2> QED
      BY <2>1, HealthyNow
  <1>2. CASE WorkRecvFails(n, d)
    <2>1. sock' = sock \/ (AtEof(n, d) /\ SetShut(n, d))
      BY <1>2 DEF WorkRecvFails, SetShut
    <2>2. CASE sock' = sock
      BY <2>2, HealthyNow
    <2>3. CASE AtEof(n, d) /\ SetShut(n, d)
      <3>1. d # c
        BY <2>3, HealthyNow
      <3> QED
        BY <2>3, <3>1, ShutOther
    <2> QED
      BY <2>1, <2>2, <2>3
  \* A header that is not one of a label or a ping comes only after a partial send.
  <1>3. CASE WorkHead(n, d)
    <2>1. worker[n][d].pc = "head" /\ wire[n][d] # <<>> /\ d \in Reading(n)
      BY <1>3 DEF WorkHead, WorkAt, RecvAll, Reading
    <2>2. sock' = sock \/ (Disconnect(n, d) /\ Incoherent(Head(wire[n][d])))
      BY <1>3 DEF WorkHead
    <2>3. CASE sock' = sock
      BY <2>3, HealthyNow
    <2>4. CASE Disconnect(n, d) /\ Incoherent(Head(wire[n][d]))
      <3>1. ASSUME d = c PROVE FALSE
        <4>1. wire[n][d] \in Seq(Unit)
          BY RowFact DEF IInv, CInv
        <4>2. Framed(wire[n][d])
          <5>1. d \in Conns \ torn
            BY <3>1, HealthyNow
          <5> QED
            BY <2>1, <5>1 DEF IInv, FrameInv, FrameRow
        <4>3. NoId(wire[n][d])
          <5>1. CASE n = Hi
            BY <5>1 DEF IInv, IdInv, IdRow
          <5>2. CASE n = Lo
            <6>1. d <= registry[Lo]
              BY <2>1, <5>2 DEF IInv, CInv, WorkerInv
            <6>2. d \in Waiting => registry[Lo] < d
              BY WaitingFact DEF IInv
            <6>3. d \in Nat /\ registry[Lo] \in Nat
              BY PendingFact, ConnFact DEF IInv
            <6>4. d \notin Waiting
              BY <6>1, <6>2, <6>3
            <6> QED
              BY <5>2, <6>4 DEF IInv, IdInv, IdRow
          <5> QED
            BY <5>1, <5>2
        <4>4. Head(wire[n][d]) \in Unit /\ Head(wire[n][d]) # IdUnit /\ Head(wire[n][d])[1] # "body"
          BY <2>1, <4>1, <4>2, <4>3, TailWire
        <4>5. Head(wire[n][d])[1] = "id"
          BY <2>4, <4>4 DEF Incoherent
        <4> QED
          BY <4>4, <4>5, UnitFact
      <3>2. d # c
        BY <3>1
      <3> QED
        BY <2>4, <3>2, DisconnectOther
    <2> QED
      BY <2>2, <2>3, <2>4
  <1> QED
    BY <1>1, <1>2, <1>3 DEF Work

LEMMA SendHealthy ==
    ASSUME IInv, NEW c \in Conns, Healthy(c), NEW n \in Nodes, SendLabel(n) \/ SendPart(n) \/ SendFails(n)
    PROVE  \A m \in Nodes : sock'[m][c] = "open"
  <1>1. NextLabel(n)
    BY DEF SendLabel, SendPart, SendFails
  <1>2. registry[n] \in Conns
    BY <1>1, NextLabelFact
  <1>3. sock' = sock \/ (rst[registry[n]] /\ SetShut(n, registry[n]))
    BY DEF SendLabel, SendPart, SendFails, SetShut
  <1>4. CASE sock' = sock
    BY <1>4, HealthyNow
  <1>5. CASE rst[registry[n]] /\ SetShut(n, registry[n])
    <2>1. registry[n] # c
      BY <1>5, HealthyNow
    <2> QED
      BY <1>2, <1>5, <2>1, ShutOther
  <1> QED
    BY <1>3, <1>4, <1>5

LEMMA NextHealthy ==
    ASSUME IInv, Next, NEW c \in Conns, Healthy(c), faults' = faults
    PROVE  \A n \in Nodes : sock'[n][c] = "open"
  <1>1. ASSUME NEW m \in Nodes, Crash(m, "crash", "closed") \/ Crash(m, "vanish", "gone") PROVE FALSE
    <2>1. faults' = faults + 1
      BY <1>1 DEF Crash
    <2>2. faults \in 0 .. MaxFaults
      BY TypeParts DEF IInv, CInv
    <2> QED
      BY <2>1, <2>2
  <1>2. CASE (\E m \in Nodes : Restart(m)) \/ (\E d \in Conns : Reset(d))
    <2>1. sock' = sock
      BY <1>2 DEF Restart, Reset
    <2> QED
      BY <2>1, HealthyNow
  <1> QED
    BY <1>1, <1>2, MonitorHealthy, AcceptorHealthy, WorkHealthy, SendHealthy DEF Next

\* Nobody disconnects a connection that works: not the monitor that looks at a
\* socket which is being replaced, not upsert_socket, not the accept thread, not a
\* worker, however the threads of the two nodes interleave.
THEOREM HealthyKept == Spec => HealthySurvives
  <1>1. IInv /\ [Next]_vars =>
           [\A c \in Conns : Healthy(c) /\ faults' = faults =>
               \A n \in Nodes : sock'[n][c] = "open"]_vars
    BY NextHealthy
  <1> QED
    BY <1>1, PeerInvariant, PTL DEF Spec, HealthySurvives
=============================================================================
