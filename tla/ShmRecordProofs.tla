-------------------------- MODULE ShmRecordProofs --------------------------
(***************************************************************************)
(* What the ring promises in clean behaviours, for any number of senders,  *)
(* block size, header size, alignment and message sizes.                   *)
(*                                                                         *)
(* Between tail and head lie the records that were reserved and not yet    *)
(* consumed, end to end.  No variable of the program lists them, so the    *)
(* invariant says that such a list exists: a set P of positions and their  *)
(* sizes.  Because they lie within one length of the block, two records    *)
(* never share bytes, and a writer changes its own record only.            *)
(***************************************************************************)
EXTENDS ShmRingProofs

-----------------------------------------------------------------------------
(* The inductive invariant. *)

\* The header at position p, and the message its payload begins with.
At(p) == mem[Offset(p)]
RecMsg(p) == mem[Offset(p) + HdrSize].msg

\* All payload cells of the record at p belong to one message, in order.
Whole(p) ==
    \A a \in PayloadCells(Offset(p), At(p).len) :
        mem[a] = Data(RecMsg(p), a - (Offset(p) + HdrSize))

\* The records of the ring can be relied on: always outside of a re-init,
\* and again once it has reset head and tail.
Active ==
    /\ ~misread /\ ~strayed
    /\ state = "READY" \/ rpc = "ready" \/ (rpc = "zerotail" /\ tail = 0)

\* Records lie end to end between tail and head, and none crosses the end of
\* the block.
RowShape(P, sz, p) ==
    /\ tail <= p /\ p % Align = 0
    /\ HdrSize <= sz[p] /\ p + sz[p] <= head
    /\ Offset(p) <= UsableLimit /\ Offset(p) + sz[p] <= BlockSize
    /\ p + sz[p] \in P \cup {head}
Shape(P, sz) ==
    /\ tail <= head /\ head <= tail + BlockSize
    /\ tail \in P \cup {head}
    /\ \A p \in P : RowShape(P, sz, p)
    /\ \A p, q \in P : p < q => p + sz[p] <= q

\* A header that was written is that of its reservation.
RowMarked(p, n) ==
    /\ At(p).st # "data" /\ At(p).size = n /\ HdrSize + At(p).len <= n
    /\ At(p).st = "wrap" => At(p).len = 0
    /\ At(p).st = "committed" => At(p).len > 0 /\ Whole(p) /\ RecMsg(p) \in published
Marks(P, sz) ==
    /\ unmarked \subseteq P
    /\ \A p \in P : p \notin unmarked => RowMarked(p, sz[p])

\* A sender between its compare-exchange and its last store has a record of
\* its own.
RowOwner(P, sz, s) ==
    /\ shead[s] \in P /\ sz[shead[s]] = Extent(s)
    /\ spc[s] \in {"wraphdr", "check", "write"} => shead[s] \in unmarked
    /\ spc[s] \in {"wrap", "copy", "commit"} =>
          shead[s] \notin unmarked /\ At(shead[s]).st = "writing"
    /\ spc[s] = "wrap" => At(shead[s]).len = 0
    /\ spc[s] \in {"copy", "commit"} => At(shead[s]).len = ssize[s]
    /\ spc[s] = "commit" => RecMsg(shead[s]) = Msg(s) /\ Whole(shead[s])
Owners(P, sz) ==
    /\ \A s \in Senders : Inside(s) => RowOwner(P, sz, s)
    /\ \A s, t \in Senders : Inside(s) /\ Inside(t) /\ shead[s] = shead[t] => s = t

Committed(p) == p \notin unmarked /\ At(p).st = "committed"

\* A sender's messages are in the ring in the order of its sends, after what
\* was delivered and before what it is writing.
Order(P) ==
    /\ \A p, q \in P : Committed(p) /\ Committed(q) /\ p < q /\ RecMsg(p)[1] = RecMsg(q)[1] =>
          RecMsg(p)[2] < RecMsg(q)[2]
    /\ \A p \in P : Committed(p) => \A m \in DeliveredMsgs :
          m[1] = RecMsg(p)[1] => m[2] < RecMsg(p)[2]
    /\ \A p \in P, s \in Senders : Committed(p) /\ Inside(s) /\ RecMsg(p)[1] = s => p < shead[s]

\* What was published is delivered, dropped or in the ring; and the reader
\* does not sleep on a message whose send has returned.
Kept(P) ==
    /\ \A m \in published :
          m \in DeliveredMsgs \/ m \in dropped \/ \E p \in P : Committed(p) /\ RecMsg(p) = m
    /\ rpc = "wait" /\ sem = 0 => \A p \in P : Committed(p) => RecMsg(p) \notin acked
    /\ rpc \in {"zerotail", "ready"} => \A p \in P : ~Committed(p)

\* A wrap record is short: a record and a header did not fit there.
Short(n) == \E k \in MsgSizes : n < Reserved(k) + HdrSize

Wrapped(p) == p \notin unmarked /\ At(p).st = "wrap"

\* Without faults the reader sleeps in front of wrap records and of messages
\* whose sender has not posted yet.
Faultless == crashes = 0 /\ restarts = 0
Wraps(P, sz) ==
    Faultless =>
        /\ \A p \in P : Wrapped(p) => Offset(p) + sz[p] = BlockSize /\ Short(sz[p])
        /\ \A s \in Senders : spc[s] \in {"wraphdr", "wrap"} => Short(sz[shead[s]])
        /\ rpc = "wait" /\ sem = 0 => \A p \in P :
              \/ Wrapped(p)
              \/ \E s \in Senders : Inside(s) /\ shead[s] = p
              \/ Committed(p) /\ \E s \in Senders : spc[s] = "post" /\ RecMsg(p) = Msg(s)

Records(P, sz) ==
    Shape(P, sz) /\ Marks(P, sz) /\ Owners(P, sz) /\ Order(P) /\ Kept(P) /\ Wraps(P, sz)

\* What the reader has seen of the record at tail.
Reader ==
    /\ rpc \in {"inspect", "copy", "advance"} => tail < head
    /\ rpc \in {"copy", "advance"} => Committed(tail)
    /\ rpc = "advance" => rsize = At(tail).size /\ rpayload = {RecMsg(tail)}

\* A sender about to exchange head was admitted against this tail or an
\* earlier one.
Admitted ==
    \A s \in Senders : spc[s] = "cas" => shead[s] + Reserved(ssize[s]) <= tail + BlockSize

RecordsInv ==
    Active => /\ Reader /\ Admitted
              /\ \E P \in SUBSET Nat : \E sz \in [Nat -> Nat] : Records(P, sz)

\* Where the re-init is.
PhaseInv ==
    /\ rpc \in {"bump", "zerohead", "zerotail", "ready"} => state = "INITING"
    /\ rpc \in {"wait", "load", "inspect", "reload", "copy", "advance"} => state = "READY"
    /\ rpc # "exited"

\* Between the two stores of 0 nobody reserves: head is below the old tail.
ZeroInv ==
    ~misread /\ ~strayed /\ rpc = "zerotail" /\ tail > 0 =>
        /\ head = 0 /\ unmarked = {} /\ published \subseteq DeliveredMsgs \cup dropped
        /\ \A s \in Senders : ~Inside(s) /\ (spc[s] = "cas" => tail <= shead[s])

\* During a re-init no sender gets past the check of the state.
RemakeInv ==
    ~misread /\ ~strayed /\ rpc \in {"zerotail", "ready"} =>
        \A s \in Senders : spc[s] \notin {"write", "copy", "commit"}

\* The numbers of a sender's messages.
NumberInv ==
    /\ acked \subseteq published
    /\ \A m \in published : /\ m[2] <= sent[m[1]]
                            /\ spc[m[1]] \notin {"idle", "post"} => m[2] < sent[m[1]]
    /\ \A m \in acked : spc[m[1]] # "idle" => m[2] < sent[m[1]]
    /\ \A s \in Senders : spc[s] = "post" => Msg(s) \in published

\* Until the reader restarts, the block is initialised once.
CalmInv ==
    ~misread /\ ~strayed /\ restarts = 0 =>
        /\ state = "READY" =>
              /\ rpc \notin {"reinit", "down"}
              /\ \A s \in Senders : spc[s] \notin {"idle", "gen"} => sgen[s] = generation
        /\ state # "READY" => head = 0 /\ \A s \in Senders : spc[s] = "idle"

RInv ==
    /\ IInv /\ PhaseInv /\ NumberInv /\ ZeroInv /\ RemakeInv /\ CalmInv
    /\ RecordsInv /\ IntactDelivery /\ SenderFIFO

-----------------------------------------------------------------------------
(* Arithmetic of records. *)

\* Two records within one length of the block do not share bytes.
LEMMA DisjointOffsets ==
    ASSUME NEW p \in Nat, NEW d \in Nat \ {0}, NEW q \in Nat, NEW e \in Nat \ {0},
           p + d <= q, q + e <= p + BlockSize,
           Offset(p) + d <= BlockSize, Offset(q) + e <= BlockSize
    PROVE  Offset(p) + d <= Offset(q) \/ Offset(q) + e <= Offset(p)
  <1>1. PICK i \in Nat : p = BlockSize * i + Offset(p)
    BY Constants, DivMod, Zenon DEF Offset
  <1>2. PICK j \in Nat : q = BlockSize * j + Offset(q)
    BY Constants, DivMod, Zenon DEF Offset
  <1>3. PICK b \in Nat \ {0} : b = BlockSize
    BY Constants
  <1>4. PICK x \in 0 .. (b - 1) : x = Offset(p)
    BY <1>3, OffsetInBlock
  <1>5. PICK y \in 0 .. (b - 1) : y = Offset(q)
    BY <1>3, OffsetInBlock
  <1>6. p = b * i + x /\ q = b * j + y
    BY <1>1, <1>2, <1>3, <1>4, <1>5
  <1>7. i <= j
    <2>1. SUFFICES ASSUME j + 1 <= i PROVE FALSE
      OBVIOUS
    <2>2. b * (j + 1) <= b * i
      BY <2>1, Z3
    <2> QED
      BY <1>6, <2>2, Z3
  <1>8. j <= i + 1
    <2>1. SUFFICES ASSUME i + 2 <= j PROVE FALSE
      OBVIOUS
    <2>2. b * (i + 2) <= b * j
      BY <2>1, Z3
    <2> QED
      BY <1>3, <1>6, <2>2, Z3
  <1>9. CASE j = i
    BY <1>4, <1>5, <1>6, <1>9
  <1>10. CASE j = i + 1
    <2>1. b * (i + 1) = b * i + b
      BY Z3
    <2> QED
      BY <1>3, <1>4, <1>5, <1>6, <1>10, <2>1
  <1> QED
    BY <1>7, <1>8, <1>9, <1>10

\* The space check counts the record; the wrap record that is reserved instead
\* is longer, and yet it does not reach tail, because a wrap header always fits
\* at tail.
LEMMA WrapRoom ==
    ASSUME NEW h \in Nat, NEW t \in Nat, NEW r \in Nat,
           t <= h, h + r <= t + BlockSize, Offset(t) <= UsableLimit, NeedsWrap(h, r)
    PROVE  h + SpaceTilWrap(h) <= t + BlockSize
  <1>1. PICK i \in Nat : h = BlockSize * i + Offset(h)
    BY Constants, DivMod, Zenon DEF Offset
  <1>2. PICK j \in Nat : t = BlockSize * j + Offset(t)
    BY Constants, DivMod, Zenon DEF Offset
  <1>3. PICK b \in Nat \ {0} : b = BlockSize
    BY Constants
  <1>4. PICK x \in 0 .. (b - 1) : x = Offset(h)
    BY <1>3, OffsetInBlock
  <1>5. PICK y \in 0 .. (b - 1) : y = Offset(t)
    BY <1>3, OffsetInBlock
  <1>6. h = b * i + x /\ t = b * j + y
    BY <1>1, <1>2, <1>3, <1>4, <1>5
  <1>7. PICK g \in Nat : g = HdrSize
    BY Constants
  <1>8. y <= b - g /\ x + r > b - g /\ h + r <= t + b
    BY <1>3, <1>4, <1>5, <1>7 DEF NeedsWrap, UsableLimit
  <1>9. i <= j
    <2>1. SUFFICES ASSUME j + 1 <= i PROVE FALSE
      OBVIOUS
    <2>2. b * (j + 1) <= b * i
      BY <2>1, Z3
    <2> QED
      BY <1>6, <1>8, <2>2, Z3
  <1>10. b * i <= b * j
    BY <1>9, Z3
  <1>11. h + (b - x) <= t + b
    BY <1>6, <1>10, Z3
  <1> QED
    BY <1>3, <1>4, <1>11 DEF SpaceTilWrap

-----------------------------------------------------------------------------
(* Frames: what a step leaves alone. *)

LEMMA Basics ==
    ASSUME IInv
    PROVE  /\ head \in Nat /\ tail \in Nat /\ head % Align = 0 /\ tail % Align = 0
           /\ generation \in Nat /\ sem \in Nat
           /\ mem \in [Offsets -> Cells]
           /\ shead \in [Senders -> Nat] /\ ssize \in [Senders -> Nat]
           /\ sgen \in [Senders -> Nat] /\ sent \in [Senders -> 0 .. MaxSends]
           /\ spc \in [Senders -> SenderPCs]
           /\ \A s \in Senders : shead[s] % Align = 0
           /\ \A s \in Senders : spc[s] # "idle" => ssize[s] \in MsgSizes /\ Msg(s) \in Msgs
           /\ Offset(head) <= UsableLimit
           /\ published \subseteq Msgs /\ acked \subseteq Msgs /\ unmarked \subseteq Nat
           /\ misread \in BOOLEAN /\ strayed \in BOOLEAN
  BY DEF IInv, TypeOK, AlignedInv, LocalsInv, HeadUsable, Msg, Msgs

LEMMA RecordFacts ==
    ASSUME NEW P \in SUBSET Nat, NEW sz \in [Nat -> Nat], tail \in Nat, head \in Nat, Shape(P, sz), NEW p \in P
    PROVE  /\ p \in Nat /\ sz[p] \in Nat \ {0} /\ Offset(p) \in Offsets /\ Offset(p) \in Nat
           /\ tail <= p /\ p < head /\ p + sz[p] <= head
           /\ HdrSize < sz[p] => Offset(p) + HdrSize \in Offsets
  <1>1. p \in Nat /\ sz[p] \in Nat /\ RowShape(P, sz, p)
    BY DEF Shape
  <1>2. Offset(p) \in Offsets /\ Offset(p) \in Nat
    BY <1>1, OffsetAligned, OffsetInBlock DEF RowShape
  <1>3. sz[p] # 0 /\ tail <= p /\ p < head /\ p + sz[p] <= head
    BY <1>1, Constants DEF RowShape
  <1>4. ASSUME HdrSize < sz[p] PROVE Offset(p) + HdrSize \in Offsets
    <2>1. Offset(p) % Align = 0 /\ HdrSize % Align = 0 /\ HdrSize \in Nat /\ Align \in Nat \ {0}
      BY <1>2, SizesAssumption DEF Offsets
    <2>2. (Offset(p) + HdrSize) % Align = 0
      BY <1>2, <2>1, MultipleSum
    <2>3. Offset(p) + HdrSize < BlockSize /\ Offset(p) + HdrSize \in Nat
      BY <1>1, <1>2, <1>4, <2>1, Constants DEF RowShape
    <2> QED
      BY <2>2, <2>3, Constants DEF Offsets
  <1> QED
    BY <1>1, <1>2, <1>3, <1>4

\* A record whose bytes are the same.
LEMMA SameRecord ==
    ASSUME IInv, NEW P \in SUBSET Nat, NEW sz \in [Nat -> Nat], Shape(P, sz), NEW p \in P,
           \A a \in Offsets : Offset(p) <= a /\ a < Offset(p) + sz[p] => mem'[a] = mem[a]
    PROVE  /\ At(p)' = At(p)
           /\ HdrSize + At(p).len <= sz[p] /\ At(p).len > 0 =>
                 RecMsg(p)' = RecMsg(p) /\ (Whole(p) => Whole(p)')
  <1>1. /\ p \in Nat /\ sz[p] \in Nat \ {0} /\ Offset(p) \in Offsets /\ Offset(p) \in Nat
        /\ HdrSize < sz[p] => Offset(p) + HdrSize \in Offsets
    BY Basics, RecordFacts
  <1>2. mem'[Offset(p)] = mem[Offset(p)]
    BY <1>1
  <1>3. At(p)' = At(p)
    BY <1>2 DEF At
  <1>4. At(p).len \in Nat
    BY <1>1, Basics DEF At, Cells
  <1>5. ASSUME HdrSize + At(p).len <= sz[p], At(p).len > 0
        PROVE  RecMsg(p)' = RecMsg(p) /\ (Whole(p) => Whole(p)')
    <2>1. HdrSize < sz[p] /\ HdrSize \in Nat
      BY <1>1, <1>4, <1>5, Constants
    <2>2. PICK o \in Offsets : o = Offset(p) + HdrSize
      BY <1>1, <2>1
    <2>3. mem'[o] = mem[o]
      BY <1>1, <2>1, <2>2
    <2>4. RecMsg(p)' = RecMsg(p)
      BY <2>2, <2>3 DEF RecMsg
    <2>5. ASSUME Whole(p), NEW a \in PayloadCells(Offset(p), At(p).len)
          PROVE  mem'[a] = Data(RecMsg(p), a - (Offset(p) + HdrSize))
      <3>1. /\ a \in Offsets /\ a \in Nat /\ Offset(p) + HdrSize <= a
            /\ a < Offset(p) + HdrSize + At(p).len
        BY <2>5 DEF PayloadCells, Offsets
      <3>2. PICK l \in Nat : l = At(p).len
        BY <1>4
      <3>3. Offset(p) <= a /\ a < Offset(p) + sz[p]
        BY <1>1, <1>5, <2>1, <3>1, <3>2
      <3>4. mem'[a] = mem[a]
        BY <3>1, <3>3
      <3> QED
        BY <2>5, <3>4 DEF Whole
    <2>6. ASSUME Whole(p) PROVE Whole(p)'
      <3>1. PICK l : l = At(p).len
        OBVIOUS
      <3>2. PICK m : m = RecMsg(p)
        OBVIOUS
      <3>3. At(p)'.len = l /\ RecMsg(p)' = m
        BY <1>3, <2>4, <3>1, <3>2
      <3>4. \A a \in PayloadCells(Offset(p), l) : mem'[a] = Data(m, a - (Offset(p) + HdrSize))
        BY <2>5, <2>6, <3>1, <3>2
      <3>5. Whole(p)' = (\A a \in PayloadCells(Offset(p), At(p)'.len) :
                            mem'[a] = Data(RecMsg(p)', a - (Offset(p) + HdrSize)))
        BY DEF Whole, PayloadCells, Offset, Data
      <3> QED
        BY <3>3, <3>4, <3>5
    <2> QED
      BY <2>4, <2>6
  <1> QED
    BY <1>3, <1>5

\* A store into the record at h changes no other record.
LEMMA OtherRecord ==
    ASSUME IInv, NEW P \in SUBSET Nat, NEW sz \in [Nat -> Nat], Shape(P, sz),
           NEW h \in P, NEW p \in P, p # h,
           \A a \in Offsets : mem'[a] = mem[a] \/ (Offset(h) <= a /\ a < Offset(h) + sz[h])
    PROVE  \A a \in Offsets : Offset(p) <= a /\ a < Offset(p) + sz[p] => mem'[a] = mem[a]
  <1>1. /\ p \in Nat /\ sz[p] \in Nat \ {0} /\ Offset(p) \in Nat
        /\ h \in Nat /\ sz[h] \in Nat \ {0} /\ Offset(h) \in Nat
        /\ tail <= p /\ p + sz[p] <= head /\ tail <= h /\ h + sz[h] <= head
        /\ tail \in Nat /\ head \in Nat
    BY Basics, RecordFacts
  <1>2. /\ head <= tail + BlockSize
        /\ Offset(p) + sz[p] <= BlockSize /\ Offset(h) + sz[h] <= BlockSize
        /\ p < h => p + sz[p] <= h
        /\ h < p => h + sz[h] <= p
    BY DEF Shape, RowShape
  <1>3. Offset(p) + sz[p] <= Offset(h) \/ Offset(h) + sz[h] <= Offset(p)
    <2>0. PICK d \in Nat \ {0}, e \in Nat \ {0} : d = sz[p] /\ e = sz[h]
      BY <1>1
    <2>1. CASE p < h
      <3>1. p + d <= h /\ h + e <= p + BlockSize
        BY <1>1, <1>2, <2>0, <2>1, Constants
      <3>2. Offset(p) + d <= BlockSize /\ Offset(h) + e <= BlockSize
        BY <1>2, <2>0
      <3>3. Offset(p) + d <= Offset(h) \/ Offset(h) + e <= Offset(p)
        BY <1>1, <3>1, <3>2, DisjointOffsets
      <3> QED
        BY <2>0, <3>3
    <2>2. CASE h < p
      <3>1. h + e <= p /\ p + d <= h + BlockSize
        BY <1>1, <1>2, <2>0, <2>2, Constants
      <3>2. Offset(p) + d <= BlockSize /\ Offset(h) + e <= BlockSize
        BY <1>2, <2>0
      <3>3. Offset(h) + e <= Offset(p) \/ Offset(p) + d <= Offset(h)
        BY <1>1, <3>1, <3>2, DisjointOffsets
      <3> QED
        BY <2>0, <3>3
    <2> QED
      BY <1>1, <2>1, <2>2
  <1> SUFFICES ASSUME NEW a \in Offsets, Offset(p) <= a, a < Offset(p) + sz[p]
               PROVE  mem'[a] = mem[a]
    OBVIOUS
  <1>4. a \in Nat
    BY DEF Offsets
  <1>5. ~(Offset(h) <= a /\ a < Offset(h) + sz[h])
    BY <1>1, <1>3, <1>4
  <1> QED
    BY <1>5

\* The locals of sender t stay as they are.
SameSender(t) ==
    /\ spc'[t] = spc[t] /\ shead'[t] = shead[t] /\ ssize'[t] = ssize[t]
    /\ sent'[t] = sent[t] /\ sgen'[t] = sgen[t]

\* Sender s stores into its own record at h and nowhere else.
OwnStore(P, sz, s, h) ==
    /\ IInv /\ P \in SUBSET Nat /\ sz \in [Nat -> Nat]
    /\ Shape(P, sz) /\ Marks(P, sz) /\ Owners(P, sz)
    /\ s \in Senders /\ Inside(s) /\ h \in P /\ h = shead[s]
    /\ \A t \in Senders \ {s} : SameSender(t)
    /\ \A a \in Offsets : mem'[a] = mem[a] \/ (Offset(h) <= a /\ a < Offset(h) + sz[h])
    /\ unmarked' = unmarked \ {h}
    /\ published \subseteq published'
    /\ UNCHANGED <<head, tail>>

LEMMA OthersKept ==
    ASSUME NEW P, NEW sz, NEW s, NEW h, OwnStore(P, sz, s, h)
    PROVE  /\ \A p \in P \ {h} :
                 /\ p \in unmarked' <=> p \in unmarked
                 /\ p \notin unmarked => RowMarked(p, sz[p])'
                 /\ At(p)' = At(p)
                 /\ Committed(p)' <=> Committed(p)
                 /\ Wrapped(p)' <=> Wrapped(p)
                 /\ Committed(p) => RecMsg(p)' = RecMsg(p)
           /\ \A t \in Senders \ {s} : Inside(t) => RowOwner(P, sz, t)'
  <1>0. /\ IInv /\ P \in SUBSET Nat /\ sz \in [Nat -> Nat]
        /\ Shape(P, sz) /\ Marks(P, sz) /\ Owners(P, sz)
        /\ s \in Senders /\ Inside(s) /\ h \in P /\ h = shead[s]
        /\ \A t \in Senders \ {s} : SameSender(t)
        /\ \A a \in Offsets : mem'[a] = mem[a] \/ (Offset(h) <= a /\ a < Offset(h) + sz[h])
        /\ unmarked' = unmarked \ {h} /\ published \subseteq published'
    BY DEF OwnStore
  <1>1. ASSUME NEW p \in P \ {h}
        PROVE  /\ At(p)' = At(p)
               /\ HdrSize + At(p).len <= sz[p] /\ At(p).len > 0 =>
                     RecMsg(p)' = RecMsg(p) /\ (Whole(p) => Whole(p)')
    <2>1. \A a \in Offsets : Offset(p) <= a /\ a < Offset(p) + sz[p] => mem'[a] = mem[a]
      BY <1>0, <1>1, OtherRecord
    <2> QED
      BY <1>0, <1>1, <2>1, SameRecord
  <1>2. ASSUME NEW p \in P \ {h}, p \notin unmarked
        PROVE  /\ RowMarked(p, sz[p])'
               /\ Committed(p) => RecMsg(p)' = RecMsg(p)
    <2>1. RowMarked(p, sz[p])
      BY <1>0, <1>2 DEF Marks
    <2>2. RowMarked(p, sz[p])'
      BY <1>0, <1>1, <1>2, <2>1 DEF RowMarked
    <2> QED
      BY <1>1, <1>2, <2>1, <2>2 DEF RowMarked, Committed
  <1>3. ASSUME NEW p \in P \ {h}
        PROVE  /\ p \in unmarked' <=> p \in unmarked
               /\ p \notin unmarked => RowMarked(p, sz[p])'
               /\ At(p)' = At(p)
               /\ Committed(p)' <=> Committed(p)
               /\ Wrapped(p)' <=> Wrapped(p)
               /\ Committed(p) => RecMsg(p)' = RecMsg(p)
    <2>1. p \in unmarked' <=> p \in unmarked
      BY <1>0, <1>3
    <2>2. At(p)' = At(p)
      BY <1>1, <1>3
    <2> QED
      BY <1>2, <1>3, <2>1, <2>2 DEF Committed, Wrapped
  <1>4. ASSUME NEW t \in Senders \ {s}, Inside(t)
        PROVE  RowOwner(P, sz, t)'
    <2>1. RowOwner(P, sz, t)
      BY <1>0, <1>4 DEF Owners
    <2>2. PICK k : k = shead[t]
      OBVIOUS
    <2>3. k \in P \ {h}
      BY <1>0, <1>4, <2>1, <2>2 DEF Owners, RowOwner
    <2>4. SameSender(t)
      BY <1>0, <1>4
    <2>5. shead'[t] = k /\ shead[t] = k
      BY <2>2, <2>4 DEF SameSender
    <2>6. Extent(t)' = Extent(t) /\ Msg(t)' = Msg(t)
      BY <2>4 DEF SameSender, Extent, Msg, SpaceTilWrap, Offset, Reserved, AlignUp
    <2>7. /\ At(k)' = At(k) /\ (k \in unmarked' <=> k \in unmarked)
      BY <1>3, <2>3
    <2>8. CASE spc[t] = "commit"
      <3>1. k \notin unmarked /\ At(k).len = ssize[t] /\ RecMsg(k) = Msg(t) /\ Whole(k)
        BY <2>1, <2>2, <2>8 DEF RowOwner
      <3>2. HdrSize + At(k).len <= sz[k]
        BY <1>0, <2>3, <3>1 DEF Marks, RowMarked
      <3>3. At(k).len > 0
        <4>1. ssize[t] \in MsgSizes
          BY <1>0, <1>4, <2>8, Basics
        <4>2. ssize[t] \in Nat \ {0}
          BY <4>1, SizesAssumption
        <4> QED
          BY <3>1, <4>2
      <3>4. RecMsg(k)' = RecMsg(k) /\ Whole(k)'
        BY <1>0, <1>1, <2>3, <3>1, <3>2, <3>3
      <3>5. spc'[t] = "commit" /\ ssize'[t] = ssize[t]
        BY <2>4, <2>8 DEF SameSender
      <3>6. RecMsg(shead[t])' = RecMsg(k)' /\ Whole(shead[t])' = Whole(k)' /\ At(shead[t])' = At(k)'
        BY <2>5 DEF RecMsg, Whole, At
      <3> QED
        <4>1. shead'[t] \in P /\ sz[shead'[t]] = Extent(t)' /\ shead'[t] \notin unmarked'
          BY <2>1, <2>3, <2>5, <2>6, <2>7, <3>1 DEF RowOwner
        <4>2. /\ At(shead[t])'.st = "writing" /\ At(shead[t])'.len = ssize'[t]
              /\ RecMsg(shead[t])' = Msg(t)' /\ Whole(shead[t])'
          BY <2>1, <2>5, <2>6, <2>7, <2>8, <3>1, <3>4, <3>5, <3>6 DEF RowOwner
        <4> QED
          BY <3>5, <4>1, <4>2 DEF RowOwner
    <2>9. CASE spc[t] # "commit"
      <3>1. At(shead[t])' = At(k)'
        BY <2>5 DEF At
      <3> QED
        <4>1. spc'[t] = spc[t] /\ ssize'[t] = ssize[t]
          BY <2>4 DEF SameSender
        <4>2. shead'[t] \in P /\ sz[shead'[t]] = Extent(t)'
          BY <2>1, <2>3, <2>5, <2>6 DEF RowOwner
        <4>3. At(shead[t])' = At(k) /\ (shead'[t] \in unmarked' <=> k \in unmarked)
          BY <2>5, <2>7, <3>1
        <4> QED
          BY <2>1, <2>5, <2>9, <4>1, <4>2, <4>3 DEF RowOwner
    <2> QED
      BY <2>8, <2>9
  <1> QED
    BY <1>3, <1>4

-----------------------------------------------------------------------------
(* Stores of a sender into its own record. *)

LEMMA StoreStructure ==
    ASSUME NEW P, NEW sz, NEW s, NEW h, OwnStore(P, sz, s, h), RowMarked(h, sz[h])',
           Inside(s)' => RowOwner(P, sz, s)' /\ shead'[s] = h
    PROVE  Shape(P, sz)' /\ Marks(P, sz)' /\ Owners(P, sz)'
  <1>0. /\ Shape(P, sz) /\ Marks(P, sz) /\ Owners(P, sz) /\ Inside(s)
        /\ s \in Senders /\ h \in P /\ h = shead[s]
        /\ \A t \in Senders \ {s} : SameSender(t)
        /\ unmarked' = unmarked \ {h} /\ head' = head /\ tail' = tail
    BY DEF OwnStore
  <1>1. Shape(P, sz)'
    BY <1>0 DEF Shape, RowShape
  <1>2. Marks(P, sz)'
    <2>1. \A p \in P : p \notin unmarked' => RowMarked(p, sz[p])'
      BY <1>0, OthersKept
    <2> QED
      BY <1>0, <2>1 DEF Marks
  <1>3. \A t \in Senders \ {s} : (Inside(t)' <=> Inside(t)) /\ shead'[t] = shead[t]
    BY <1>0 DEF SameSender, Inside
  <1>4. \A t \in Senders : Inside(t)' => RowOwner(P, sz, t)'
    BY <1>3, OthersKept
  <1>5. \A t \in Senders : Inside(t)' => Inside(t) /\ shead'[t] = shead[t]
    BY <1>0, <1>3
  <1>6. \A t, u \in Senders : Inside(t)' /\ Inside(u)' /\ shead'[t] = shead'[u] => t = u
    BY <1>0, <1>5 DEF Owners
  <1> QED
    BY <1>1, <1>2, <1>4, <1>6 DEF Owners

\* A store that publishes nothing.
LEMMA StoreQuiet ==
    ASSUME NEW P, NEW sz, NEW s, NEW h, OwnStore(P, sz, s, h), Order(P), Kept(P),
           Inside(s)' => shead'[s] = h, ~Committed(h), ~Committed(h)',
           UNCHANGED <<published, acked, delivered, dropped, sem, rpc>>
    PROVE  Order(P)' /\ Kept(P)'
  <1>0. /\ Inside(s) /\ s \in Senders /\ h \in P /\ h = shead[s]
        /\ \A t \in Senders \ {s} : SameSender(t)
    BY DEF OwnStore
  <1>1. ASSUME NEW p \in P
        PROVE  /\ Committed(p)' <=> Committed(p)
               /\ Committed(p) => RecMsg(p)' = RecMsg(p)
    BY OthersKept
  <1>2. \A t \in Senders : Inside(t)' => Inside(t) /\ shead'[t] = shead[t]
    BY <1>0 DEF SameSender, Inside
  <1>3. DeliveredMsgs' = DeliveredMsgs
    BY DEF DeliveredMsgs
  <1>4. Order(P)'
    BY <1>1, <1>2, <1>3 DEF Order
  <1>5. Kept(P)'
    BY <1>1, <1>3 DEF Kept
  <1> QED
    BY <1>4, <1>5

LEMMA StoreWraps ==
    ASSUME NEW P, NEW sz, NEW s, NEW h, OwnStore(P, sz, s, h), Wraps(P, sz),
           UNCHANGED <<sem, rpc, crashes, restarts>>,
           Faultless /\ Wrapped(h)' => Offset(h) + sz[h] = BlockSize /\ Short(sz[h]),
           Faultless /\ spc'[s] \in {"wraphdr", "wrap"} => Short(sz[shead'[s]]),
           \/ Wrapped(h)'
           \/ Inside(s)' /\ shead'[s] = h
           \/ Committed(h)' /\ spc'[s] = "post" /\ RecMsg(h)' = Msg(s)'
    PROVE  Wraps(P, sz)'
  <1>0. /\ Inside(s) /\ s \in Senders /\ h \in P /\ h = shead[s]
        /\ \A t \in Senders \ {s} : SameSender(t)
    BY DEF OwnStore
  <1> SUFFICES ASSUME Faultless' PROVE Wraps(P, sz)'
    BY DEF Wraps
  <1>1. Faultless
    BY DEF Faultless
  <1>2. ASSUME NEW p \in P, Wrapped(p)' PROVE Offset(p) + sz[p] = BlockSize /\ Short(sz[p])
    BY <1>1, <1>2, OthersKept DEF Wraps
  <1>3. ASSUME NEW t \in Senders, spc'[t] \in {"wraphdr", "wrap"} PROVE Short(sz[shead'[t]])
    BY <1>0, <1>1, <1>3 DEF Wraps, SameSender
  <1>4. ASSUME rpc' = "wait", sem' = 0, NEW p \in P
        PROVE  \/ Wrapped(p)'
               \/ \E t \in Senders : Inside(t)' /\ shead'[t] = p
               \/ Committed(p)' /\ \E t \in Senders : spc'[t] = "post" /\ RecMsg(p)' = Msg(t)'
    <2>1. CASE p = h
      BY <1>0, <2>1
    <2>2. CASE p # h /\ Wrapped(p)
      BY <2>2, OthersKept
    <2>3. CASE p # h /\ \E t \in Senders : Inside(t) /\ shead[t] = p
      <3>1. PICK t \in Senders : Inside(t) /\ shead[t] = p
        BY <2>3
      <3>2. t # s
        BY <1>0, <2>3, <3>1
      <3>3. Inside(t)' /\ shead'[t] = p
        BY <1>0, <3>1, <3>2 DEF SameSender, Inside
      <3> QED
        BY <3>3
    <2>4. CASE p # h /\ Committed(p) /\ \E t \in Senders : spc[t] = "post" /\ RecMsg(p) = Msg(t)
      <3>1. PICK t \in Senders : spc[t] = "post" /\ RecMsg(p) = Msg(t)
        BY <2>4
      <3>2. t # s
        BY <1>0, <3>1 DEF Inside
      <3>3. spc'[t] = "post" /\ Msg(t)' = Msg(t)
        BY <1>0, <3>1, <3>2 DEF SameSender, Msg
      <3>4. Committed(p)' /\ RecMsg(p)' = RecMsg(p)
        BY <2>4, OthersKept
      <3> QED
        BY <3>1, <3>3, <3>4
    <2> QED
      BY <1>1, <1>4, <2>1, <2>2, <2>3, <2>4 DEF Wraps
  <1> QED
    BY <1>2, <1>3, <1>4 DEF Wraps, Short

\* The record the reader looks at is not a writer's.
LEMMA StoreReader ==
    ASSUME NEW P, NEW sz, NEW s, NEW h, OwnStore(P, sz, s, h), Reader, ~Committed(h),
           UNCHANGED <<rpc, rsize, rpayload>>
    PROVE  Reader'
  <1>0. Shape(P, sz) /\ IInv /\ UNCHANGED <<head, tail>> /\ P \in SUBSET Nat
    BY DEF OwnStore
  <1>1. CASE rpc \in {"copy", "advance"}
    <2>1. tail < head /\ Committed(tail) /\ tail \in Nat /\ head \in Nat
      BY <1>0, <1>1, Basics DEF Reader
    <2>2. tail \in P \ {h}
      BY <1>0, <2>1 DEF Shape
    <2>3. PICK p \in P \ {h} : p = tail
      BY <2>2
    <2>4. At(p)' = At(p) /\ Committed(p)' /\ RecMsg(p)' = RecMsg(p)
      BY <2>1, <2>3, OthersKept
    <2>5. tail' = p
      BY <1>0, <2>3
    <2>6. At(tail)' = At(p)' /\ RecMsg(tail)' = RecMsg(p)' /\ (Committed(tail)' <=> Committed(p)')
      BY <2>5 DEF At, RecMsg, Committed
    <2>7. At(tail)' = At(tail) /\ Committed(tail)' /\ RecMsg(tail)' = RecMsg(tail)
      BY <2>3, <2>4, <2>6
    <2> QED
      BY <1>0, <2>1, <2>7 DEF Reader
  <1>2. CASE rpc \notin {"copy", "advance"}
    BY <1>0, <1>2 DEF Reader
  <1> QED
    BY <1>1, <1>2

-----------------------------------------------------------------------------
(* The three kinds of store, cell by cell. *)

LEMMA HeaderStore ==
    ASSUME mem \in [Offsets -> Cells], NEW o \in Offsets, NEW size \in Nat, NEW len \in Nat, NEW epoch \in Nat,
           mem' = WithHeader(o, size, len, epoch)
    PROVE  /\ mem'[o] = Header("writing", size, len, epoch)
           /\ \A a \in Offsets : mem'[a] = mem[a] \/ (o <= a /\ a < o + HdrSize)
  <1>1. o \in Nat /\ \A a \in Offsets : a \in Nat
    BY DEF Offsets
  <1>2. mem' = [a \in Offsets |->
                   IF a = o THEN Header("writing", size, len, epoch)
                   ELSE IF o < a /\ a < o + HdrSize THEN Data(None, a - o) ELSE mem[a]]
    BY DEF WithHeader, MarkedAs
  <1>3. mem'[o] = Header("writing", size, len, epoch)
    BY <1>2
  <1>4. ASSUME NEW a \in Offsets, mem'[a] # mem[a] PROVE o <= a /\ a < o + HdrSize
    <2>1. a = o \/ (o < a /\ a < o + HdrSize)
      BY <1>2, <1>4
    <2> QED
      BY <1>1, <2>1, Constants
  <1> QED
    BY <1>3, <1>4

LEMMA StateStore ==
    ASSUME mem \in [Offsets -> Cells], NEW o \in Offsets, NEW st \in States, mem[o].st # "data",
           mem' = WithState(o, st)
    PROVE  /\ mem'[o] = [mem[o] EXCEPT !.st = st]
           /\ mem'[o].st = st /\ mem'[o].size = mem[o].size /\ mem'[o].len = mem[o].len
           /\ \A a \in Offsets : a # o => mem'[a] = mem[a]
  <1>1. mem'[o] = [mem[o] EXCEPT !.st = st] /\ \A a \in Offsets : a # o => mem'[a] = mem[a]
    BY DEF WithState
  <1>2. mem[o] \in Cells
    OBVIOUS
  <1>3. PICK c \in Cells : c = mem[o]
    BY <1>2
  <1>4. [c EXCEPT !.st = st].st = st /\ [c EXCEPT !.st = st].size = c.size /\ [c EXCEPT !.st = st].len = c.len
    BY <1>3 DEF Cells
  <1> QED
    BY <1>1, <1>3, <1>4

LEMMA PayloadStore ==
    ASSUME mem \in [Offsets -> Cells], NEW o \in Nat, NEW len \in Nat, NEW m, mem' = WithPayload(o, len, m)
    PROVE  /\ \A a \in PayloadCells(o, len) : mem'[a] = Data(m, a - (o + HdrSize))
           /\ \A a \in Offsets : mem'[a] = mem[a] \/ (o + HdrSize <= a /\ a < o + HdrSize + len)
  <1>1. mem' = [a \in Offsets |-> IF a \in PayloadCells(o, len) THEN Data(m, a - (o + HdrSize)) ELSE mem[a]]
    BY DEF WithPayload
  <1>2. PayloadCells(o, len) \subseteq Offsets
    BY DEF PayloadCells
  <1> QED
    BY <1>1, <1>2 DEF PayloadCells

-----------------------------------------------------------------------------
(* The steps of a sender that store into its record keep the invariant. *)

LEMMA Opening ==
    ASSUME RInv, Active
    PROVE  /\ IInv /\ Reader /\ Admitted
           /\ \E P \in SUBSET Nat : \E sz \in [Nat -> Nat] : Records(P, sz)
  BY DEF RInv, RecordsInv

LEMMA Closing ==
    ASSUME NEW P \in SUBSET Nat, NEW sz \in [Nat -> Nat], Reader', Admitted',
           Shape(P, sz)', Marks(P, sz)', Owners(P, sz)', Order(P)', Kept(P)', Wraps(P, sz)'
    PROVE  RecordsInv'
  <1>1. Records(P, sz)'
    BY DEF Records
  <1> QED
    BY <1>1 DEF RecordsInv

LEMMA StillActive ==
    ASSUME UNCHANGED <<state, rpc, tail, misread, strayed>>, Active'
    PROVE  Active
  BY DEF Active

\* tail grows and nobody new is admitted.
LEMMA AdmittedFrame ==
    ASSUME IInv, Admitted, tail' \in Nat, tail <= tail',
           \A t \in Senders : spc'[t] = "cas" => spc[t] = "cas" /\ shead'[t] = shead[t] /\ ssize'[t] = ssize[t]
    PROVE  Admitted'
  <1> SUFFICES ASSUME NEW t \in Senders, spc'[t] = "cas"
               PROVE  shead'[t] + Reserved(ssize'[t]) <= tail' + BlockSize
    BY DEF Admitted, Reserved, AlignUp
  <1>1. spc[t] = "cas" /\ shead'[t] = shead[t] /\ ssize'[t] = ssize[t]
    OBVIOUS
  <1>2. PICK k \in MsgSizes : k = ssize[t]
    BY <1>1, Basics
  <1>3. shead[t] \in Nat /\ Reserved(k) \in Nat /\ tail \in Nat /\ BlockSize \in Nat
    BY <1>2, Basics, ReservedFacts, Constants
  <1>4. shead[t] + Reserved(k) <= tail + BlockSize
    BY <1>1, <1>2 DEF Admitted
  <1> QED
    BY <1>1, <1>2, <1>3, <1>4

LEMMA WriterFacts ==
    ASSUME IInv, NEW P \in SUBSET Nat, NEW sz \in [Nat -> Nat], Shape(P, sz), Owners(P, sz),
           NEW s \in Senders, Inside(s), NEW h, h = shead[s]
    PROVE  /\ h \in P /\ h \in Nat /\ Offset(h) \in Offsets /\ Offset(h) \in Nat /\ h % Align = 0
           /\ sz[h] \in Nat /\ sz[h] = Extent(s) /\ HdrSize <= sz[h]
           /\ RowOwner(P, sz, s) /\ ssize[s] \in MsgSizes /\ sgen[s] \in Nat
  <1>1. RowOwner(P, sz, s) /\ h \in P /\ sz[h] = Extent(s)
    BY DEF Owners, RowOwner
  <1>2. h \in Nat /\ Offset(h) \in Offsets /\ Offset(h) \in Nat /\ sz[h] \in Nat
    BY <1>1, Basics, RecordFacts
  <1>3. HdrSize <= sz[h] /\ h % Align = 0
    BY <1>1 DEF Shape, RowShape
  <1>4. ssize[s] \in MsgSizes /\ sgen[s] \in Nat
    BY Basics DEF Inside
  <1> QED
    BY <1>1, <1>2, <1>3, <1>4

\* Mark: the header of a reservation is written.
LEMMA MarkRec ==
    ASSUME RInv, NEW s \in Senders, Active', Inside(s), NEW len \in Nat, NEW pc,
           Mark(s, Extent(s), len, pc),
           HdrSize + len <= Extent(s),
           \/ spc[s] = "wraphdr" /\ pc = "wrap" /\ len = 0
           \/ spc[s] = "write" /\ pc = "copy" /\ len = ssize[s]
    PROVE  RecordsInv'
  <1>1. /\ UNCHANGED <<state, generation, head, tail, sem, sent, ssize, sgen, shead, stries, result,
                       rpc, rsize, rpayload, crashes, restarts,
                       published, acked, delivered, dropped, misread, strayed>>
        /\ spc' = [spc EXCEPT ![s] = pc] /\ unmarked' = unmarked \ {shead[s]}
        /\ mem' = WithHeader(Offset(shead[s]), Extent(s), len, sgen[s])
    BY DEF Mark, Goto, block, locals, worker, faults
  <1>2. Active
    BY <1>1, StillActive
  <1>3. IInv /\ Reader /\ Admitted
    BY <1>2, Opening
  <1>4. PICK P \in SUBSET Nat, sz \in [Nat -> Nat] : Records(P, sz)
    BY <1>2, Opening
  <1>5. Shape(P, sz) /\ Marks(P, sz) /\ Owners(P, sz) /\ Order(P) /\ Kept(P) /\ Wraps(P, sz)
    BY <1>4 DEF Records
  <1>6. PICK h : h = shead[s]
    OBVIOUS
  <1>7. /\ h \in P /\ h \in Nat /\ Offset(h) \in Offsets /\ Offset(h) \in Nat
        /\ sz[h] \in Nat /\ sz[h] = Extent(s) /\ HdrSize <= sz[h]
        /\ RowOwner(P, sz, s) /\ ssize[s] \in MsgSizes /\ sgen[s] \in Nat
    BY <1>3, <1>5, <1>6, WriterFacts
  <1>8. spc \in [Senders -> SenderPCs] /\ mem \in [Offsets -> Cells]
    BY <1>3, Basics
  <1>9. /\ mem'[Offset(h)] = Header("writing", sz[h], len, sgen[s])
        /\ \A a \in Offsets : mem'[a] = mem[a] \/ (Offset(h) <= a /\ a < Offset(h) + HdrSize)
    <2>1. mem' = WithHeader(Offset(h), sz[h], len, sgen[s])
      BY <1>1, <1>6, <1>7
    <2> QED
      BY <1>7, <1>8, <2>1, HeaderStore
  <1>10. /\ spc'[s] = pc /\ \A t \in Senders \ {s} : SameSender(t)
    BY <1>1, <1>8 DEF SameSender
  <1>11. OwnStore(P, sz, s, h)
    <2>1. \A a \in Offsets : mem'[a] = mem[a] \/ (Offset(h) <= a /\ a < Offset(h) + sz[h])
      <3>1. \A a \in Offsets : a \in Nat
        BY DEF Offsets
      <3> QED
        BY <1>7, <1>9, <3>1, Constants
    <2> QED
      BY <1>1, <1>3, <1>5, <1>6, <1>7, <1>10, <2>1 DEF OwnStore
  <1>12. At(h)' = Header("writing", sz[h], len, sgen[s])
    BY <1>9 DEF At
  <1>13. At(h)'.st = "writing" /\ At(h)'.size = sz[h] /\ At(h)'.len = len
    BY <1>12 DEF Header
  <1>14. RowMarked(h, sz[h])'
    BY <1>7, <1>13 DEF RowMarked
  <1>15. h \notin unmarked' /\ shead'[s] = h /\ ssize'[s] = ssize[s]
    BY <1>1, <1>6
  <1>16. Extent(s)' = Extent(s)
    BY <1>1, <1>10 DEF Extent, SpaceTilWrap, Offset, Reserved, AlignUp
  <1>17. At(shead[s])' = At(h)'
    BY <1>15 DEF At
  <1>18. RowOwner(P, sz, s)'
    BY <1>7, <1>10, <1>13, <1>15, <1>16, <1>17 DEF RowOwner
  <1>19. Inside(s)' /\ ~Committed(h) /\ ~Committed(h)' /\ ~Wrapped(h)'
    BY <1>6, <1>7, <1>10, <1>13 DEF Inside, Committed, Wrapped, RowOwner
  <1>20. Shape(P, sz)' /\ Marks(P, sz)' /\ Owners(P, sz)'
    BY <1>11, <1>14, <1>15, <1>18, StoreStructure
  <1>21. Order(P)' /\ Kept(P)'
    BY <1>1, <1>5, <1>11, <1>15, <1>19, StoreQuiet
  <1>22. Wraps(P, sz)'
    <2>1. Faultless /\ spc'[s] \in {"wraphdr", "wrap"} => Short(sz[shead'[s]])
      BY <1>5, <1>6, <1>10, <1>15 DEF Wraps
    <2> QED
      BY <1>1, <1>5, <1>11, <1>15, <1>19, <2>1, StoreWraps
  <1>23. Reader'
    BY <1>1, <1>3, <1>11, <1>19, StoreReader
  <1>24. Admitted'
    BY <1>1, <1>3, <1>8, Basics, AdmittedFrame
  <1> QED
    BY <1>20, <1>21, <1>22, <1>23, <1>24, Closing

LEMMA WriteWrapHeaderRec ==
    ASSUME RInv, NEW s \in Senders, WriteWrapHeader(s), Active'
    PROVE  RecordsInv'
  <1>1. spc[s] = "wraphdr" /\ Mark(s, Extent(s), 0, "wrap") /\ Inside(s)
    BY DEF WriteWrapHeader, Extent, Inside
  <1>2. HdrSize + 0 <= Extent(s)
    <2>1. IInv
      BY DEF RInv
    <2>2. Offset(shead[s]) <= UsableLimit /\ shead[s] \in Nat
      BY <1>1, <2>1, Basics DEF IInv, LocalsInv
    <2> QED
      BY <1>1, <2>2, OffsetInBlock, Constants DEF Extent, SpaceTilWrap, UsableLimit
  <1> QED
    BY <1>1, <1>2, MarkRec

LEMMA WriteHeaderRec ==
    ASSUME RInv, NEW s \in Senders, WriteHeader(s), Active'
    PROVE  RecordsInv'
  <1>1. spc[s] = "write" /\ Mark(s, Extent(s), ssize[s], "copy") /\ Inside(s)
    BY DEF WriteHeader, Extent, Inside
  <1>2. PICK n \in MsgSizes : n = ssize[s]
    BY <1>1, Basics DEF RInv
  <1>3. Extent(s) = Reserved(n)
    BY <1>1, <1>2 DEF Extent
  <1>4. n \in Nat /\ HdrSize + n <= Extent(s)
    BY <1>3, ReservedFacts, Constants
  <1> QED
    BY <1>1, <1>2, <1>4, MarkRec

LEMMA StoreWrapRec ==
    ASSUME RInv, NEW s \in Senders, StoreWrap(s), Active'
    PROVE  RecordsInv'
  <1>1. /\ UNCHANGED <<state, generation, head, tail, sem, sent, ssize, sgen, result,
                       rpc, rsize, rpayload, crashes, restarts,
                       published, acked, delivered, dropped, unmarked, misread, strayed>>
        /\ spc[s] = "wrap" /\ spc' = [spc EXCEPT ![s] = "tail"]
        /\ shead' = [shead EXCEPT ![s] = @ + SpaceTilWrap(@)]
        /\ mem' = WithState(Offset(shead[s]), "wrap")
    BY DEF StoreWrap, Goto, block, locals, worker, faults, history
  <1>2. Active
    BY <1>1, StillActive
  <1>3. IInv /\ Reader /\ Admitted
    BY <1>2, Opening
  <1>4. PICK P \in SUBSET Nat, sz \in [Nat -> Nat] : Records(P, sz)
    BY <1>2, Opening
  <1>5. Shape(P, sz) /\ Marks(P, sz) /\ Owners(P, sz) /\ Order(P) /\ Kept(P) /\ Wraps(P, sz)
    BY <1>4 DEF Records
  <1>6. PICK h : h = shead[s]
    OBVIOUS
  <1>i. Inside(s)
    BY <1>1 DEF Inside
  <1>7. /\ h \in P /\ h \in Nat /\ Offset(h) \in Offsets /\ Offset(h) \in Nat
        /\ sz[h] \in Nat /\ sz[h] = Extent(s) /\ HdrSize <= sz[h]
        /\ RowOwner(P, sz, s)
    BY <1>3, <1>5, <1>6, <1>i, WriterFacts
  <1>8. /\ spc \in [Senders -> SenderPCs] /\ mem \in [Offsets -> Cells]
        /\ shead \in [Senders -> Nat]
    BY <1>3, Basics
  <1>9. h \notin unmarked /\ At(h).st = "writing" /\ At(h).len = 0
    BY <1>1, <1>6, <1>7 DEF RowOwner
  <1>10. /\ mem'[Offset(h)].st = "wrap" /\ mem'[Offset(h)].size = mem[Offset(h)].size
         /\ mem'[Offset(h)].len = mem[Offset(h)].len
         /\ \A a \in Offsets : a # Offset(h) => mem'[a] = mem[a]
    <2>1. mem' = WithState(Offset(h), "wrap") /\ mem[Offset(h)].st # "data" /\ "wrap" \in States
      BY <1>1, <1>6, <1>9 DEF At, States
    <2> QED
      BY <1>7, <1>8, <2>1, StateStore
  <1>11. spc'[s] = "tail" /\ \A t \in Senders \ {s} : SameSender(t)
    BY <1>1, <1>8 DEF SameSender
  <1>12. OwnStore(P, sz, s, h)
    <2>1. \A a \in Offsets : mem'[a] = mem[a] \/ (Offset(h) <= a /\ a < Offset(h) + sz[h])
      BY <1>7, <1>10, Constants
    <2>2. unmarked' = unmarked \ {h}
      BY <1>1, <1>9
    <2> QED
      BY <1>1, <1>3, <1>5, <1>6, <1>7, <1>11, <2>1, <2>2, <1>i DEF OwnStore
  <1>13. At(h)'.st = "wrap" /\ At(h)'.size = sz[h] /\ At(h)'.len = 0
    <2>1. At(h).size = sz[h]
      BY <1>5, <1>7, <1>9 DEF Marks, RowMarked
    <2> QED
      BY <1>9, <1>10, <2>1 DEF At
  <1>14. RowMarked(h, sz[h])'
    BY <1>7, <1>13, Constants DEF RowMarked
  <1>15. ~Inside(s)' /\ ~Committed(h) /\ ~Committed(h)' /\ Wrapped(h)'
    BY <1>1, <1>9, <1>11, <1>13 DEF Inside, Committed, Wrapped
  <1>16. Shape(P, sz)' /\ Marks(P, sz)' /\ Owners(P, sz)'
    BY <1>12, <1>14, <1>15, StoreStructure
  <1>17. Order(P)' /\ Kept(P)'
    BY <1>1, <1>5, <1>12, <1>15, StoreQuiet
  <1>18. Wraps(P, sz)'
    <2>1. Faultless => Offset(h) + sz[h] = BlockSize /\ Short(sz[h])
      <3>1. Offset(h) + sz[h] = BlockSize
        BY <1>1, <1>6, <1>7, Constants DEF Extent, SpaceTilWrap
      <3> QED
        BY <1>1, <1>5, <1>6, <3>1 DEF Wraps
    <2> QED
      BY <1>1, <1>5, <1>11, <1>12, <1>15, <2>1, StoreWraps
  <1>19. Reader'
    BY <1>1, <1>3, <1>12, <1>15, StoreReader
  <1>20. Admitted'
    <2>1. \A t \in Senders : spc'[t] = "cas" => spc[t] = "cas" /\ shead'[t] = shead[t] /\ ssize'[t] = ssize[t]
      BY <1>11 DEF SameSender
    <2>2. tail' = tail /\ tail \in Nat
      BY <1>1, <1>3, Basics
    <2> QED
      BY <1>3, <2>1, <2>2, AdmittedFrame
  <1> QED
    BY <1>16, <1>17, <1>18, <1>19, <1>20, Closing

LEMMA WritePayloadRec ==
    ASSUME RInv, NEW s \in Senders, WritePayload(s), Active'
    PROVE  RecordsInv'
  <1>1. /\ UNCHANGED <<state, generation, head, tail, sem, sent, ssize, sgen, shead, stries, result,
                       rpc, rsize, rpayload, crashes, restarts,
                       published, acked, delivered, dropped, unmarked, misread, strayed>>
        /\ spc[s] = "copy" /\ spc' = [spc EXCEPT ![s] = "commit"]
        /\ mem' = WithPayload(Offset(shead[s]), ssize[s], Msg(s))
    BY DEF WritePayload, Goto, block, locals, worker, faults, history
  <1>2. Active
    BY <1>1, StillActive
  <1>3. IInv /\ Reader /\ Admitted
    BY <1>2, Opening
  <1>4. PICK P \in SUBSET Nat, sz \in [Nat -> Nat] : Records(P, sz)
    BY <1>2, Opening
  <1>5. Shape(P, sz) /\ Marks(P, sz) /\ Owners(P, sz) /\ Order(P) /\ Kept(P) /\ Wraps(P, sz)
    BY <1>4 DEF Records
  <1>6. PICK h : h = shead[s]
    OBVIOUS
  <1>i. Inside(s)
    BY <1>1 DEF Inside
  <1>7. /\ h \in P /\ h \in Nat /\ Offset(h) \in Offsets /\ Offset(h) \in Nat
        /\ sz[h] \in Nat /\ sz[h] = Extent(s) /\ HdrSize <= sz[h]
        /\ RowOwner(P, sz, s) /\ ssize[s] \in MsgSizes
    <2>1. RowOwner(P, sz, s)
      BY <1>5, <1>i DEF Owners
    <2>2. h \in P /\ sz[h] = Extent(s)
      BY <1>6, <2>1 DEF RowOwner
    <2>3. h \in Nat /\ Offset(h) \in Offsets /\ Offset(h) \in Nat /\ sz[h] \in Nat
      BY <1>3, <1>5, <2>2, Basics, RecordFacts
    <2>4. HdrSize <= sz[h]
      BY <1>5, <2>2 DEF Shape, RowShape
    <2>5. ssize[s] \in MsgSizes
      BY <1>1, <1>3, Basics
    <2> QED
      BY <2>1, <2>2, <2>3, <2>4, <2>5
  <1>8. spc \in [Senders -> SenderPCs] /\ mem \in [Offsets -> Cells]
    BY <1>3, Basics
  <1>9. h \notin unmarked /\ At(h).st = "writing" /\ At(h).len = ssize[s]
    BY <1>1, <1>6, <1>7 DEF RowOwner
  <1>10. At(h).size = sz[h] /\ HdrSize + At(h).len <= sz[h]
    BY <1>5, <1>7, <1>9 DEF Marks, RowMarked
  <1>n. PICK n \in Nat \ {0} : n = ssize[s]
    BY <1>7, SizesAssumption
  <1>m. PICK m : m = Msg(s)
    OBVIOUS
  <1>11. /\ \A a \in PayloadCells(Offset(h), n) : mem'[a] = Data(m, a - (Offset(h) + HdrSize))
         /\ \A a \in Offsets : mem'[a] = mem[a] \/ (Offset(h) + HdrSize <= a /\ a < Offset(h) + HdrSize + n)
    <2>1. mem' = WithPayload(Offset(h), n, m)
      BY <1>1, <1>6, <1>n, <1>m
    <2> QED
      BY <1>7, <1>8, <2>1, PayloadStore
  <1>12. spc'[s] = "commit" /\ \A t \in Senders \ {s} : SameSender(t)
    BY <1>1, <1>8 DEF SameSender
  <1>13. OwnStore(P, sz, s, h)
    <2>1. \A a \in Offsets : mem'[a] = mem[a] \/ (Offset(h) <= a /\ a < Offset(h) + sz[h])
      <3>1. \A a \in Offsets : a \in Nat
        BY DEF Offsets
      <3>2. HdrSize + n <= sz[h]
        BY <1>9, <1>10, <1>n
      <3> QED
        BY <1>7, <1>11, <3>1, <3>2, Constants
    <2>2. unmarked' = unmarked \ {h}
      BY <1>1, <1>9
    <2> QED
      BY <1>1, <1>3, <1>5, <1>6, <1>7, <1>12, <2>1, <2>2, <1>i DEF OwnStore
  <1>14. At(h)' = At(h)
    <2>1. ~(Offset(h) + HdrSize <= Offset(h))
      BY <1>7, Constants
    <2> QED
      BY <1>7, <1>11, <2>1 DEF At
  <1>15. Offset(h) + HdrSize \in PayloadCells(Offset(h), n)
    <2>1. HdrSize < sz[h]
      BY <1>7, <1>9, <1>10, <1>n, Constants
    <2>2. Offset(h) + HdrSize \in Offsets
      BY <1>3, <1>5, <1>7, <2>1, Basics, RecordFacts
    <2> QED
      BY <1>7, <2>2, Constants DEF PayloadCells
  <1>16. RecMsg(h)' = m
    <2>1. mem'[Offset(h) + HdrSize] = Data(m, (Offset(h) + HdrSize) - (Offset(h) + HdrSize))
      BY <1>11, <1>15
    <2> QED
      BY <2>1 DEF RecMsg, Data
  <1>17. Whole(h)'
    <2>1. At(h)'.len = n
      BY <1>9, <1>14, <1>n
    <2>2. Whole(h)' = (\A a \in PayloadCells(Offset(h), At(h)'.len) :
                          mem'[a] = Data(RecMsg(h)', a - (Offset(h) + HdrSize)))
      BY DEF Whole, PayloadCells, Offset, Data
    <2> QED
      BY <1>11, <1>16, <2>1, <2>2
  <1>18. RowMarked(h, sz[h])'
    BY <1>9, <1>10, <1>14 DEF RowMarked
  <1>19. h \notin unmarked' /\ shead'[s] = h /\ ssize'[s] = ssize[s] /\ Msg(s)' = m
    BY <1>1, <1>6, <1>9, <1>m DEF Msg
  <1>20. Extent(s)' = Extent(s)
    BY <1>1, <1>12 DEF Extent, SpaceTilWrap, Offset, Reserved, AlignUp
  <1>21. At(shead[s])' = At(h)' /\ RecMsg(shead[s])' = RecMsg(h)' /\ (Whole(shead[s])' <=> Whole(h)')
    BY <1>19 DEF At, RecMsg, Whole
  <1>22. RowOwner(P, sz, s)'
    BY <1>7, <1>9, <1>12, <1>14, <1>16, <1>17, <1>19, <1>20, <1>21 DEF RowOwner
  <1>23. Inside(s)' /\ ~Committed(h) /\ ~Committed(h)' /\ ~Wrapped(h)'
    BY <1>9, <1>12, <1>14 DEF Inside, Committed, Wrapped
  <1>24. Shape(P, sz)' /\ Marks(P, sz)' /\ Owners(P, sz)'
    BY <1>13, <1>18, <1>19, <1>22, StoreStructure
  <1>25. Order(P)' /\ Kept(P)'
    BY <1>1, <1>5, <1>13, <1>19, <1>23, StoreQuiet
  <1>26. Wraps(P, sz)'
    BY <1>1, <1>5, <1>12, <1>13, <1>19, <1>23, StoreWraps
  <1>27. Reader'
    BY <1>1, <1>3, <1>13, <1>23, StoreReader
  <1>28. Admitted'
    BY <1>1, <1>3, <1>8, Basics, AdmittedFrame
  <1> QED
    BY <1>24, <1>25, <1>26, <1>27, <1>28, Closing

\* The message is published: it is newer than all others of its sender.
LEMMA CommitRec ==
    ASSUME RInv, NEW s \in Senders, Commit(s), Active'
    PROVE  RecordsInv'
  <1>1. /\ UNCHANGED <<state, generation, head, tail, sem, sent, ssize, sgen, shead, stries, result,
                       rpc, rsize, rpayload, crashes, restarts,
                       acked, delivered, dropped, unmarked, misread, strayed>>
        /\ spc[s] = "commit" /\ spc' = [spc EXCEPT ![s] = "post"]
        /\ mem' = WithState(Offset(shead[s]), "committed")
        /\ published' = published \cup {Msg(s)}
    BY DEF Commit, Goto, block, locals, worker, faults
  <1>2. Active
    BY <1>1, StillActive
  <1>3. IInv /\ Reader /\ Admitted /\ NumberInv /\ IntactDelivery /\ RemakeInv
    BY <1>2, Opening DEF RInv
  <1>4. PICK P \in SUBSET Nat, sz \in [Nat -> Nat] : Records(P, sz)
    BY <1>2, Opening
  <1>5. Shape(P, sz) /\ Marks(P, sz) /\ Owners(P, sz) /\ Order(P) /\ Kept(P) /\ Wraps(P, sz)
    BY <1>4 DEF Records
  <1>6. PICK h : h = shead[s]
    OBVIOUS
  <1>i. Inside(s)
    BY <1>1 DEF Inside
  <1>7. /\ h \in P /\ h \in Nat /\ Offset(h) \in Offsets /\ Offset(h) \in Nat
        /\ sz[h] \in Nat /\ sz[h] = Extent(s) /\ HdrSize <= sz[h]
        /\ RowOwner(P, sz, s) /\ ssize[s] \in MsgSizes
    BY <1>3, <1>5, <1>6, <1>i, WriterFacts
  <1>8. spc \in [Senders -> SenderPCs] /\ mem \in [Offsets -> Cells]
    BY <1>3, Basics
  <1>m. PICK m : m = Msg(s)
    OBVIOUS
  <1>9. /\ h \notin unmarked /\ At(h).st = "writing" /\ At(h).len = ssize[s]
        /\ RecMsg(h) = m /\ Whole(h)
    BY <1>1, <1>6, <1>7, <1>m DEF RowOwner
  <1>10. At(h).size = sz[h] /\ HdrSize + At(h).len <= sz[h]
    BY <1>5, <1>7, <1>9 DEF Marks, RowMarked
  <1>n. PICK n \in Nat \ {0} : n = ssize[s]
    BY <1>7, SizesAssumption
  <1>11. /\ mem'[Offset(h)].st = "committed" /\ mem'[Offset(h)].size = mem[Offset(h)].size
         /\ mem'[Offset(h)].len = mem[Offset(h)].len
         /\ \A a \in Offsets : a # Offset(h) => mem'[a] = mem[a]
    <2>1. mem' = WithState(Offset(h), "committed") /\ mem[Offset(h)].st # "data" /\ "committed" \in States
      BY <1>1, <1>6, <1>9 DEF At, States
    <2> QED
      BY <1>7, <1>8, <2>1, StateStore
  <1>12. spc'[s] = "post" /\ \A t \in Senders \ {s} : SameSender(t)
    BY <1>1, <1>8 DEF SameSender
  <1>13. OwnStore(P, sz, s, h)
    <2>1. \A a \in Offsets : mem'[a] = mem[a] \/ (Offset(h) <= a /\ a < Offset(h) + sz[h])
      BY <1>7, <1>11, Constants
    <2>2. unmarked' = unmarked \ {h} /\ published \subseteq published'
      BY <1>1, <1>9
    <2> QED
      BY <1>1, <1>3, <1>5, <1>6, <1>7, <1>12, <2>1, <2>2, <1>i DEF OwnStore
  <1>14. At(h)'.st = "committed" /\ At(h)'.size = sz[h] /\ At(h)'.len = n
    BY <1>9, <1>10, <1>11, <1>n DEF At
  <1>15. RecMsg(h)' = m /\ Whole(h)'
    <2>1. HdrSize < sz[h] /\ HdrSize \in Nat \ {0}
      BY <1>7, <1>9, <1>10, <1>n, Constants
    <2>2. PICK o \in Offsets : o = Offset(h) + HdrSize
      BY <1>3, <1>5, <1>7, <2>1, Basics, RecordFacts
    <2>3. o # Offset(h)
      BY <1>7, <2>1, <2>2
    <2>4. RecMsg(h)' = m
      BY <1>9, <1>11, <2>2, <2>3 DEF RecMsg
    <2>5. \A a \in PayloadCells(Offset(h), n) : mem'[a] = mem[a]
      <3>1. \A a \in PayloadCells(Offset(h), n) : a \in Offsets /\ a \in Nat /\ Offset(h) + HdrSize <= a
        BY DEF PayloadCells, Offsets
      <3> QED
        BY <1>7, <1>11, <2>1, <3>1
    <2>6. Whole(h)' = (\A a \in PayloadCells(Offset(h), At(h)'.len) :
                          mem'[a] = Data(RecMsg(h)', a - (Offset(h) + HdrSize)))
      BY DEF Whole, PayloadCells, Offset, Data
    <2>7. \A a \in PayloadCells(Offset(h), n) : mem[a] = Data(m, a - (Offset(h) + HdrSize))
      BY <1>9, <1>n DEF Whole
    <2> QED
      BY <1>14, <2>4, <2>5, <2>6, <2>7
  <1>16. RowMarked(h, sz[h])'
    BY <1>1, <1>9, <1>10, <1>14, <1>15, <1>m, <1>n DEF RowMarked
  <1>17. ~Inside(s)' /\ ~Committed(h) /\ Committed(h)' /\ ~Wrapped(h)' /\ Msg(s)' = m
    BY <1>1, <1>9, <1>12, <1>14, <1>m DEF Inside, Committed, Wrapped, Msg
  <1>18. Shape(P, sz)' /\ Marks(P, sz)' /\ Owners(P, sz)'
    BY <1>13, <1>16, <1>17, StoreStructure
  <1>19. /\ \A p \in P \ {h} : Committed(p)' <=> Committed(p)
         /\ \A p \in P \ {h} : Committed(p) => RecMsg(p)' = RecMsg(p) /\ RecMsg(p) \in published
    BY <1>5, <1>13, OthersKept DEF Marks, RowMarked, Committed
  <1>20. /\ m[1] = s /\ m[2] = sent[s] /\ sent[s] \in Nat
         /\ \A k \in published : k[1] = s => k[2] < m[2]
         /\ m \notin acked
    <2>1. m = <<s, sent[s]>> /\ sent[s] \in Nat
      BY <1>3, <1>m, Basics, BoundsAssumption DEF Msg
    <2>2. \A k \in published : k[1] = s => k[2] < sent[s]
      BY <1>1, <1>3 DEF NumberInv
    <2>3. m \notin acked
      BY <1>1, <1>3, <2>1, <2>2 DEF NumberInv
    <2> QED
      BY <2>1, <2>2, <2>3
  <1>21. DeliveredMsgs' = DeliveredMsgs /\ DeliveredMsgs \subseteq published
    <2>1. DeliveredMsgs' = DeliveredMsgs
      BY <1>1 DEF DeliveredMsgs
    <2>2. ASSUME NEW k \in DeliveredMsgs PROVE k \in published
      <3>1. PICK i \in DOMAIN delivered : k \in delivered[i]
        BY <2>2 DEF DeliveredMsgs
      <3> QED
        BY <1>2, <1>3, <3>1 DEF IntactDelivery, OnlyPublishedDelivered, Clean, Active
    <2> QED
      BY <2>1, <2>2
  <1>22. Order(P)'
    <2>1. ASSUME NEW p \in P, NEW q \in P, Committed(p)', Committed(q)', p < q, RecMsg(p)'[1] = RecMsg(q)'[1]
          PROVE  RecMsg(p)'[2] < RecMsg(q)'[2]
      <3>1. CASE p # h /\ q # h
        BY <1>5, <1>19, <2>1, <3>1 DEF Order
      <3>2. CASE p # h /\ q = h
        BY <1>15, <1>19, <1>20, <2>1, <3>2
      <3>3. CASE p = h /\ q # h
        <4>1. Committed(q) /\ RecMsg(q)[1] = s
          BY <1>15, <1>19, <1>20, <2>1, <3>3
        <4>2. q < h
          BY <1>5, <1>6, <1>i, <4>1 DEF Order
        <4> QED
          BY <2>1, <3>3, <4>2
      <3>4. CASE p = h /\ q = h
        BY <2>1, <3>4
      <3> QED
        BY <3>1, <3>2, <3>3, <3>4
    <2>2. ASSUME NEW p \in P, Committed(p)', NEW k \in DeliveredMsgs, k[1] = RecMsg(p)'[1]
          PROVE  k[2] < RecMsg(p)'[2]
      <3>1. CASE p # h
        BY <1>5, <1>19, <2>2, <3>1 DEF Order
      <3>2. CASE p = h
        BY <1>15, <1>20, <1>21, <2>2, <3>2
      <3> QED
        BY <3>1, <3>2
    <2>3. ASSUME NEW p \in P, NEW t \in Senders, Committed(p)', Inside(t)', RecMsg(p)'[1] = t
          PROVE  p < shead'[t]
      <3>1. t # s
        BY <1>17, <2>3
      <3>2. Inside(t) /\ shead'[t] = shead[t]
        BY <1>12, <2>3, <3>1 DEF SameSender, Inside
      <3>3. p # h
        BY <1>15, <1>20, <2>3, <3>1
      <3> QED
        BY <1>5, <1>19, <2>3, <3>2, <3>3 DEF Order
    <2> QED
      BY <1>21, <2>1, <2>2, <2>3 DEF Order
  <1>23. Kept(P)'
    <2>1. ASSUME NEW k \in published'
          PROVE  k \in DeliveredMsgs' \/ k \in dropped' \/ \E p \in P : Committed(p)' /\ RecMsg(p)' = k
      <3>1. CASE k = m
        BY <1>7, <1>15, <1>17, <3>1
      <3>2. CASE k # m
        <4>1. k \in published
          BY <1>1, <1>m, <2>1, <3>2
        <4>2. CASE \E p \in P : Committed(p) /\ RecMsg(p) = k
          BY <1>17, <1>19, <4>2
        <4> QED
          BY <1>1, <1>5, <1>21, <4>1, <4>2 DEF Kept
      <3> QED
        BY <3>1, <3>2
    <2>2. ASSUME rpc' = "wait", sem' = 0, NEW p \in P, Committed(p)' PROVE RecMsg(p)' \notin acked'
      <3>1. CASE p = h
        BY <1>1, <1>15, <1>20, <3>1
      <3>2. CASE p # h
        BY <1>1, <1>5, <1>19, <2>2, <3>2 DEF Kept
      <3> QED
        BY <3>1, <3>2
    <2>3. rpc' \notin {"zerotail", "ready"}
      BY <1>1, <1>2, <1>3 DEF RemakeInv, Active
    <2> QED
      BY <2>1, <2>2, <2>3 DEF Kept
  <1>24. Wraps(P, sz)'
    BY <1>1, <1>5, <1>12, <1>13, <1>15, <1>17, StoreWraps
  <1>25. Reader'
    BY <1>1, <1>3, <1>13, <1>17, StoreReader
  <1>26. Admitted'
    BY <1>1, <1>3, <1>8, Basics, AdmittedFrame
  <1> QED
    BY <1>18, <1>22, <1>23, <1>24, <1>25, <1>26, Closing

-----------------------------------------------------------------------------
(* Reservations. *)

LEMMA TailFacts ==
    ASSUME IInv, NEW P \in SUBSET Nat, NEW sz \in [Nat -> Nat], Shape(P, sz)
    PROVE  /\ tail <= head /\ head <= tail + BlockSize /\ Offset(tail) <= UsableLimit
           /\ tail < head => tail \in P
           /\ tail = head => P = {}
           /\ head \notin P
  <1>1. tail \in Nat /\ head \in Nat /\ Offset(head) <= UsableLimit
    BY Basics
  <1>2. \A p \in P : tail <= p /\ p < head /\ Offset(p) <= UsableLimit /\ p \in Nat
    BY <1>1, RecordFacts DEF Shape, RowShape
  <1>3. tail <= head /\ head <= tail + BlockSize /\ tail \in P \cup {head}
    BY DEF Shape
  <1>4. Offset(tail) <= UsableLimit
    BY <1>1, <1>2, <1>3
  <1>5. tail < head => tail \in P
    BY <1>1, <1>3
  <1>6. tail = head => P = {}
    BY <1>1, <1>2
  <1> QED
    BY <1>1, <1>2, <1>3, <1>4, <1>5, <1>6

\* The reserved bytes become a record at the end of the others.
LEMMA ReserveRec ==
    ASSUME RInv, NEW s \in Senders, spc[s] = "cas", HeadIsMine(s), NEW n \in Nat, NEW pc, Reserve(s, n, pc),
           Active', HdrSize <= n, Offset(head) + n <= BlockSize, head + n <= tail + BlockSize,
           \/ pc = "wraphdr" /\ n = SpaceTilWrap(head) /\ Short(n)
           \/ pc = "check" /\ n = Reserved(ssize[s])
    PROVE  RecordsInv'
  <1>1. /\ UNCHANGED <<state, generation, tail, sem, mem, sent, ssize, sgen, shead, stries, result,
                       rpc, rsize, rpayload, crashes, restarts,
                       published, acked, delivered, dropped, misread, strayed>>
        /\ spc' = [spc EXCEPT ![s] = pc] /\ shead[s] = head
        /\ head' = head + n /\ unmarked' = unmarked \cup {head}
    BY DEF Reserve, Goto, HeadIsMine, locals, worker, faults
  <1>2. Active
    BY <1>1, StillActive
  <1>3. IInv /\ Reader /\ Admitted
    BY <1>2, Opening
  <1>4. PICK P \in SUBSET Nat, sz \in [Nat -> Nat] : Records(P, sz)
    BY <1>2, Opening
  <1>5. Shape(P, sz) /\ Marks(P, sz) /\ Owners(P, sz) /\ Order(P) /\ Kept(P) /\ Wraps(P, sz)
    BY <1>4 DEF Records
  <1>6. PICK h \in Nat : h = head
    BY <1>3, Basics
  <1>7. PICK Q \in SUBSET Nat : Q = P \cup {h}
    BY <1>6
  <1>8. PICK z \in [Nat -> Nat] : z = [sz EXCEPT ![h] = n]
    BY <1>6
  <1>9. /\ tail \in Nat /\ h % Align = 0 /\ Offset(h) <= UsableLimit /\ spc \in [Senders -> SenderPCs]
        /\ tail <= h /\ h \notin P /\ HdrSize \in Nat /\ BlockSize \in Nat
    BY <1>3, <1>5, <1>6, Basics, TailFacts, Constants
  <1>10. /\ z[h] = n /\ \A p \in P : z[p] = sz[p] /\ p < h /\ p \in Nat /\ sz[p] \in Nat
    BY <1>3, <1>5, <1>6, <1>8, <1>9, Basics, RecordFacts
  <1>11. spc'[s] = pc /\ \A t \in Senders \ {s} : SameSender(t)
    BY <1>1, <1>9 DEF SameSender
  <1>12. ~Inside(s) /\ Inside(s)' /\ shead[s] = h /\ shead'[s] = h
    BY <1>1, <1>6, <1>11 DEF Inside
  <1>13. \A t \in Senders \ {s} : (Inside(t)' <=> Inside(t)) /\ shead'[t] = shead[t]
    BY <1>11 DEF SameSender, Inside
  <1>14. /\ \A p \in P : /\ p \in unmarked' <=> p \in unmarked
                         /\ At(p)' = At(p) /\ RecMsg(p)' = RecMsg(p) /\ (Whole(p)' <=> Whole(p))
                         /\ Committed(p)' <=> Committed(p)
                         /\ Wrapped(p)' <=> Wrapped(p)
         /\ h \in unmarked' /\ ~Committed(h)' /\ ~Wrapped(h)'
    <2>1. \A p \in P : p \in unmarked' <=> p \in unmarked
      BY <1>1, <1>6, <1>9
    <2>2. \A p \in P : At(p)' = At(p) /\ RecMsg(p)' = RecMsg(p)
      BY <1>1 DEF At, RecMsg
    <2>3. \A p \in P : Whole(p)' <=> Whole(p)
      BY <1>1 DEF Whole, At, RecMsg
    <2> QED
      BY <1>1, <1>6, <2>1, <2>2, <2>3 DEF Committed, Wrapped
  <1>15. Shape(Q, z)'
    <2>1. head' = h + n /\ tail' = tail
      BY <1>1, <1>6
    <2>2. ASSUME NEW p \in P PROVE RowShape(Q, z, p)'
      <3>1. RowShape(P, sz, p)
        BY <1>5 DEF Shape
      <3>2. p + sz[p] <= h + n
        BY <1>6, <1>10, <3>1 DEF RowShape
      <3> QED
        BY <1>6, <1>7, <1>10, <2>1, <3>1, <3>2 DEF RowShape
    <2>3. RowShape(Q, z, h)'
      BY <1>6, <1>9, <1>10, <2>1 DEF RowShape
    <2>4. ASSUME NEW p \in Q, NEW q \in Q, p < q PROVE p + z[p] <= q
      <3>1. CASE p \in P /\ q \in P
        BY <1>5, <1>10, <2>4, <3>1 DEF Shape
      <3>2. CASE p \in P /\ q = h
        BY <1>5, <1>6, <1>10, <3>2 DEF Shape, RowShape
      <3>3. CASE p = h
        BY <1>7, <1>10, <2>4, <3>3
      <3> QED
        BY <1>7, <3>1, <3>2, <3>3
    <2>5. tail' <= head' /\ head' <= tail' + BlockSize /\ tail' \in Q \cup {head'}
      BY <1>5, <1>6, <1>7, <1>9, <2>1 DEF Shape
    <2> QED
      BY <1>7, <2>2, <2>3, <2>4, <2>5 DEF Shape
  <1>16. Marks(Q, z)'
    <2>1. ASSUME NEW p \in Q, p \notin unmarked' PROVE RowMarked(p, z[p])'
      <3>1. p \in P /\ p \notin unmarked
        BY <1>7, <1>14, <2>1
      <3>2. RowMarked(p, sz[p])
        BY <1>5, <3>1 DEF Marks
      <3> QED
        BY <1>1, <1>10, <1>14, <3>1, <3>2 DEF RowMarked
    <2> QED
      BY <1>1, <1>5, <1>6, <1>7, <2>1 DEF Marks
  <1>17. Owners(Q, z)'
    <2>1. ASSUME NEW t \in Senders \ {s}, Inside(t) PROVE RowOwner(Q, z, t)' /\ shead[t] \in P
      <3>1. RowOwner(P, sz, t)
        BY <1>5, <2>1 DEF Owners
      <3>2. PICK k \in P : k = shead[t]
        BY <3>1 DEF RowOwner
      <3>3. SameSender(t)
        BY <1>11, <2>1
      <3>4. shead'[t] = k
        BY <3>2, <3>3 DEF SameSender
      <3>5. Extent(t)' = Extent(t) /\ Msg(t)' = Msg(t)
        BY <3>3 DEF SameSender, Extent, Msg, SpaceTilWrap, Offset, Reserved, AlignUp
      <3>6. At(shead[t])' = At(k)' /\ RecMsg(shead[t])' = RecMsg(k)' /\ (Whole(shead[t])' <=> Whole(k)')
        BY <3>4 DEF At, RecMsg, Whole
      <3>7. shead'[t] \in Q /\ z[shead'[t]] = Extent(t)'
        BY <1>7, <1>10, <3>1, <3>2, <3>4, <3>5 DEF RowOwner
      <3>8. spc'[t] = spc[t] /\ ssize'[t] = ssize[t]
        BY <3>3 DEF SameSender
      <3>9. k \in unmarked' <=> k \in unmarked
        BY <1>14
      <3>10. At(k)' = At(k) /\ RecMsg(k)' = RecMsg(k) /\ (Whole(k)' <=> Whole(k))
        BY <1>14
      <3> QED
        BY <3>1, <3>2, <3>4, <3>5, <3>6, <3>7, <3>8, <3>9, <3>10 DEF RowOwner
    <2>2. RowOwner(Q, z, s)'
      <3>1. Extent(s)' = n
        BY <1>1, <1>6, <1>11, <1>12 DEF Extent, SpaceTilWrap, Offset, Reserved, AlignUp
      <3> QED
        BY <1>7, <1>10, <1>11, <1>12, <1>14, <3>1 DEF RowOwner
    <2>3. \A t \in Senders : Inside(t)' => RowOwner(Q, z, t)'
      BY <1>13, <2>1, <2>2
    <2>4. ASSUME NEW t \in Senders, NEW u \in Senders, Inside(t)', Inside(u)', shead'[t] = shead'[u] PROVE t = u
      <3>1. CASE t # s /\ u # s
        BY <1>5, <1>13, <2>4, <3>1 DEF Owners
      <3>2. CASE t = s /\ u # s
        BY <1>9, <1>12, <1>13, <2>1, <2>4, <3>2
      <3>3. CASE t # s /\ u = s
        BY <1>9, <1>12, <1>13, <2>1, <2>4, <3>3
      <3> QED
        BY <3>1, <3>2, <3>3
    <2> QED
      BY <2>3, <2>4 DEF Owners
  <1>18. DeliveredMsgs' = DeliveredMsgs
    BY <1>1 DEF DeliveredMsgs
  <1>19. Order(Q)'
    <2>1. \A p \in Q : Committed(p)' => p \in P /\ Committed(p) /\ RecMsg(p)' = RecMsg(p)
      BY <1>7, <1>14
    <2>2. \A p \in Q, t \in Senders : Committed(p)' /\ Inside(t)' /\ RecMsg(p)'[1] = t => p < shead'[t]
      BY <1>5, <1>10, <1>12, <1>13, <2>1 DEF Order
    <2>3. \A p, q \in Q : Committed(p)' /\ Committed(q)' /\ p < q /\ RecMsg(p)'[1] = RecMsg(q)'[1] =>
             RecMsg(p)'[2] < RecMsg(q)'[2]
      BY <1>5, <2>1 DEF Order
    <2>4. \A p \in Q : Committed(p)' => \A m \in DeliveredMsgs : m[1] = RecMsg(p)'[1] => m[2] < RecMsg(p)'[2]
      BY <1>5, <2>1 DEF Order
    <2> QED
      BY <1>18, <2>2, <2>3, <2>4 DEF Order
  <1>20. Kept(Q)'
    BY <1>1, <1>5, <1>7, <1>14, <1>18 DEF Kept
  <1>21. Wraps(Q, z)'
    <2> SUFFICES ASSUME Faultless' PROVE Wraps(Q, z)'
      BY DEF Wraps
    <2>1. Faultless
      BY <1>1 DEF Faultless
    <2>2. ASSUME NEW p \in Q, Wrapped(p)' PROVE Offset(p) + z[p] = BlockSize /\ Short(z[p])
      <3>1. p \in P /\ Wrapped(p) /\ z[p] = sz[p]
        BY <1>7, <1>10, <1>14, <2>2
      <3> QED
        BY <1>5, <2>1, <3>1 DEF Wraps
    <2>3. ASSUME NEW t \in Senders, spc'[t] \in {"wraphdr", "wrap"} PROVE Short(z[shead'[t]])
      <3>1. CASE t = s
        BY <1>10, <1>11, <1>12, <2>3, <3>1
      <3>2. CASE t # s
        <4>1. spc[t] \in {"wraphdr", "wrap"} /\ shead'[t] = shead[t]
          BY <1>11, <2>3, <3>2 DEF SameSender
        <4>2. Short(sz[shead[t]]) /\ shead[t] \in P
          BY <1>5, <2>1, <4>1 DEF Wraps, Owners, RowOwner, Inside
        <4> QED
          BY <1>10, <4>1, <4>2
      <3> QED
        BY <3>1, <3>2
    <2>4. ASSUME rpc' = "wait", sem' = 0, NEW p \in Q
          PROVE  \/ Wrapped(p)'
                 \/ \E t \in Senders : Inside(t)' /\ shead'[t] = p
                 \/ Committed(p)' /\ \E t \in Senders : spc'[t] = "post" /\ RecMsg(p)' = Msg(t)'
      <3>1. CASE p = h
        BY <1>12, <3>1
      <3>2. CASE p \in P /\ Wrapped(p)
        BY <1>14, <3>2
      <3>3. CASE p \in P /\ \E t \in Senders : Inside(t) /\ shead[t] = p
        BY <1>12, <1>13, <3>3
      <3>4. CASE p \in P /\ Committed(p) /\ \E t \in Senders : spc[t] = "post" /\ RecMsg(p) = Msg(t)
        <4>1. PICK t \in Senders : spc[t] = "post" /\ RecMsg(p) = Msg(t)
          BY <3>4
        <4>2. spc'[t] = "post" /\ Msg(t)' = Msg(t)
          BY <1>11, <4>1 DEF SameSender, Msg
        <4> QED
          BY <1>14, <3>4, <4>1, <4>2
      <3> QED
        BY <1>1, <1>5, <1>7, <2>1, <2>4, <3>1, <3>2, <3>3, <3>4 DEF Wraps
    <2> QED
      BY <2>2, <2>3, <2>4 DEF Wraps, Short
  <1>22. Reader'
    <2>1. CASE rpc \in {"inspect", "copy", "advance"}
      <3>1. PICK p : p = tail
        OBVIOUS
      <3>2. p \in P /\ tail < head /\ tail' = p
        BY <1>1, <1>3, <1>5, <2>1, <3>1, TailFacts DEF Reader
      <3>3. tail' < head'
        BY <1>1, <1>6, <1>9, <3>2
      <3>4. At(tail)' = At(p)' /\ RecMsg(tail)' = RecMsg(p)' /\ (Committed(tail)' <=> Committed(p)')
        BY <3>2 DEF At, RecMsg, Committed
      <3>5. At(tail)' = At(tail) /\ RecMsg(tail)' = RecMsg(tail) /\ (Committed(tail)' <=> Committed(tail))
        BY <1>14, <3>1, <3>2, <3>4
      <3> QED
        BY <1>1, <1>3, <3>3, <3>5 DEF Reader
    <2>2. CASE rpc \notin {"inspect", "copy", "advance"}
      BY <1>1, <2>2 DEF Reader
    <2> QED
      BY <2>1, <2>2
  <1>23. Admitted'
    <2>1. \A t \in Senders : spc'[t] = "cas" => spc[t] = "cas" /\ shead'[t] = shead[t] /\ ssize'[t] = ssize[t]
      BY <1>11 DEF SameSender
    <2> QED
      BY <1>1, <1>3, <1>9, <2>1, AdmittedFrame
  <1> QED
    BY <1>15, <1>16, <1>17, <1>19, <1>20, <1>21, <1>22, <1>23, Closing

LEMMA CasWrapRec ==
    ASSUME RInv, NEW s \in Senders, CasWrap(s), Active'
    PROVE  RecordsInv'
  <1>1. /\ spc[s] = "cas" /\ HeadIsMine(s) /\ shead[s] = head /\ NeedsWrap(head, Reserved(ssize[s]))
        /\ Reserve(s, SpaceTilWrap(head), "wraphdr")
    BY DEF CasWrap, HeadIsMine
  <1>2. UNCHANGED <<state, rpc, tail, misread, strayed>>
    BY <1>1 DEF Reserve, worker
  <1>3. Active
    BY <1>2, StillActive
  <1>4. IInv /\ Admitted
    BY <1>3, Opening
  <1>5. PICK P \in SUBSET Nat, sz \in [Nat -> Nat] : Shape(P, sz)
    BY <1>3, Opening DEF Records
  <1>6. PICK k \in MsgSizes : k = ssize[s]
    BY <1>1, <1>4, Basics
  <1>7. /\ head \in Nat /\ tail \in Nat /\ Reserved(k) \in Nat /\ Offset(head) \in 0 .. (BlockSize - 1)
        /\ Offset(head) <= UsableLimit
    BY <1>4, <1>6, Basics, ReservedFacts, OffsetInBlock
  <1>8. head + Reserved(k) <= tail + BlockSize
    BY <1>1, <1>4, <1>6 DEF Admitted
  <1>9. tail <= head /\ Offset(tail) <= UsableLimit
    BY <1>4, <1>5, TailFacts
  <1>10. head + SpaceTilWrap(head) <= tail + BlockSize
    BY <1>1, <1>6, <1>7, <1>8, <1>9, WrapRoom
  <1>11. /\ SpaceTilWrap(head) \in Nat /\ HdrSize <= SpaceTilWrap(head)
         /\ Offset(head) + SpaceTilWrap(head) <= BlockSize
    BY <1>7, Constants DEF SpaceTilWrap, UsableLimit
  <1>12. Short(SpaceTilWrap(head))
    <2>1. SpaceTilWrap(head) < Reserved(k) + HdrSize
      BY <1>1, <1>6, <1>7, Constants DEF NeedsWrap, SpaceTilWrap, UsableLimit
    <2> QED
      BY <2>1 DEF Short
  <1> QED
    BY <1>1, <1>10, <1>11, <1>12, ReserveRec

LEMMA CasDataRec ==
    ASSUME RInv, NEW s \in Senders, CasData(s), Active'
    PROVE  RecordsInv'
  <1>1. /\ spc[s] = "cas" /\ HeadIsMine(s) /\ shead[s] = head /\ ~NeedsWrap(head, Reserved(ssize[s]))
        /\ Reserve(s, Reserved(ssize[s]), "check")
    BY DEF CasData, HeadIsMine
  <1>2. UNCHANGED <<state, rpc, tail, misread, strayed>>
    BY <1>1 DEF Reserve, worker
  <1>3. Active
    BY <1>2, StillActive
  <1>4. IInv /\ Admitted
    BY <1>3, Opening
  <1>6. PICK k \in MsgSizes : k = ssize[s]
    BY <1>1, <1>4, Basics
  <1>7. /\ head \in Nat /\ tail \in Nat /\ Reserved(k) \in Nat /\ Offset(head) \in 0 .. (BlockSize - 1)
        /\ k \in Nat /\ k + HdrSize <= Reserved(k)
    BY <1>4, <1>6, Basics, ReservedFacts, OffsetInBlock
  <1>8. head + Reserved(k) <= tail + BlockSize
    BY <1>1, <1>4, <1>6 DEF Admitted
  <1>9. HdrSize <= Reserved(k) /\ Offset(head) + Reserved(k) <= BlockSize
    BY <1>1, <1>6, <1>7, Constants DEF NeedsWrap, UsableLimit
  <1> QED
    BY <1>1, <1>6, <1>7, <1>8, <1>9, ReserveRec

-----------------------------------------------------------------------------
(* Steps that leave the bytes of the ring alone. *)

LEMMA SameBytes ==
    ASSUME UNCHANGED <<mem, unmarked>>, NEW p
    PROVE  /\ At(p)' = At(p) /\ RecMsg(p)' = RecMsg(p) /\ (Whole(p)' <=> Whole(p))
           /\ (Committed(p)' <=> Committed(p)) /\ (Wrapped(p)' <=> Wrapped(p))
  <1>1. At(p)' = At(p) /\ RecMsg(p)' = RecMsg(p)
    BY DEF At, RecMsg
  <1>2. Whole(p)' <=> Whole(p)
    BY DEF Whole, At, RecMsg
  <1> QED
    BY <1>1, <1>2 DEF Committed, Wrapped

\* A sender that is inside send's critical part has not moved, or has passed
\* the check of the generation.
Stays(t) ==
    Inside(t)' => /\ Inside(t) /\ shead'[t] = shead[t] /\ ssize'[t] = ssize[t] /\ sent'[t] = sent[t]
                  /\ spc'[t] = spc[t] \/ (spc[t] = "check" /\ spc'[t] = "write")

LEMMA QuietStructure ==
    ASSUME NEW P, NEW sz, Shape(P, sz), Marks(P, sz), Owners(P, sz),
           UNCHANGED <<head, tail, mem, unmarked, published>>, \A t \in Senders : Stays(t)
    PROVE  Shape(P, sz)' /\ Marks(P, sz)' /\ Owners(P, sz)'
  <1>1. Shape(P, sz)'
    BY DEF Shape, RowShape
  <1>2. ASSUME NEW p \in P, p \notin unmarked' PROVE RowMarked(p, sz[p])'
    <2>1. RowMarked(p, sz[p])
      BY <1>2 DEF Marks
    <2>2. At(p)' = At(p) /\ RecMsg(p)' = RecMsg(p) /\ (Whole(p)' <=> Whole(p))
      BY SameBytes
    <2> QED
      BY <2>1, <2>2 DEF RowMarked
  <1>3. Marks(P, sz)'
    BY <1>2 DEF Marks
  <1>4. ASSUME NEW t \in Senders, Inside(t)' PROVE RowOwner(P, sz, t)'
    <2>1. /\ Inside(t) /\ shead'[t] = shead[t] /\ ssize'[t] = ssize[t] /\ sent'[t] = sent[t]
          /\ spc'[t] = spc[t] \/ (spc[t] = "check" /\ spc'[t] = "write")
      BY <1>4 DEF Stays
    <2>2. RowOwner(P, sz, t)
      BY <2>1 DEF Owners
    <2>3. PICK k : k = shead[t]
      OBVIOUS
    <2>4. At(k)' = At(k) /\ RecMsg(k)' = RecMsg(k) /\ (Whole(k)' <=> Whole(k))
      BY SameBytes
    <2>5. At(shead[t])' = At(k)' /\ RecMsg(shead[t])' = RecMsg(k)' /\ (Whole(shead[t])' <=> Whole(k)')
      BY <2>1, <2>3 DEF At, RecMsg, Whole
    <2>6. Extent(t)' = Extent(t) /\ Msg(t)' = Msg(t)
      BY <2>1 DEF Extent, Msg, SpaceTilWrap, Offset, Reserved, AlignUp
    <2> QED
      BY <2>1, <2>2, <2>3, <2>4, <2>5, <2>6 DEF RowOwner
  <1>5. \A t, u \in Senders : Inside(t)' /\ Inside(u)' /\ shead'[t] = shead'[u] => t = u
    BY DEF Owners, Stays
  <1> QED
    BY <1>1, <1>3, <1>4, <1>5 DEF Owners

LEMMA QuietOrder ==
    ASSUME NEW P, Order(P), UNCHANGED <<mem, unmarked, delivered>>, \A t \in Senders : Stays(t)
    PROVE  Order(P)'
  <1>1. DeliveredMsgs' = DeliveredMsgs
    BY DEF DeliveredMsgs
  <1>2. \A p \in P : (Committed(p)' <=> Committed(p)) /\ RecMsg(p)' = RecMsg(p)
    BY SameBytes
  <1>3. \A t \in Senders : Inside(t)' => Inside(t) /\ shead'[t] = shead[t]
    BY DEF Stays
  <1> QED
    BY <1>1, <1>2, <1>3 DEF Order

LEMMA QuietKept ==
    ASSUME NEW P, Kept(P), UNCHANGED <<mem, unmarked, delivered, published, dropped>>,
           rpc' = "wait" /\ sem' = 0 => \A p \in P : Committed(p) => RecMsg(p) \notin acked',
           rpc' \in {"zerotail", "ready"} => \A p \in P : ~Committed(p)
    PROVE  Kept(P)'
  <1>1. DeliveredMsgs' = DeliveredMsgs
    BY DEF DeliveredMsgs
  <1>2. \A p \in P : (Committed(p)' <=> Committed(p)) /\ RecMsg(p)' = RecMsg(p)
    BY SameBytes
  <1> QED
    BY <1>1, <1>2 DEF Kept

\* Why the reader need not look at p yet.
Excused(p) ==
    \/ Wrapped(p)
    \/ \E s \in Senders : Inside(s) /\ shead[s] = p
    \/ Committed(p) /\ \E s \in Senders : spc[s] = "post" /\ RecMsg(p) = Msg(s)

LEMMA QuietWraps ==
    ASSUME NEW P, NEW sz, Wraps(P, sz), UNCHANGED <<mem, unmarked>>, \A t \in Senders : Stays(t),
           Faultless' => Faultless,
           Faultless' /\ rpc' = "wait" /\ sem' = 0 => \A p \in P : Excused(p)'
    PROVE  Wraps(P, sz)'
  <1> SUFFICES ASSUME Faultless' PROVE Wraps(P, sz)'
    BY DEF Wraps
  <1>1. \A p \in P : Wrapped(p)' <=> Wrapped(p)
    BY SameBytes
  <1>2. \A p \in P : Wrapped(p)' => Offset(p) + sz[p] = BlockSize /\ Short(sz[p])
    BY <1>1 DEF Wraps
  <1>3. \A t \in Senders : spc'[t] \in {"wraphdr", "wrap"} => Short(sz[shead'[t]])
    BY DEF Wraps, Stays, Inside
  <1> QED
    BY <1>2, <1>3 DEF Wraps, Short, Excused

LEMMA QuietReader ==
    ASSUME Reader, UNCHANGED <<mem, unmarked, head, tail, rpc, rsize, rpayload>>
    PROVE  Reader'
  <1>1. PICK p : p = tail
    OBVIOUS
  <1>2. At(p)' = At(p) /\ RecMsg(p)' = RecMsg(p) /\ (Committed(p)' <=> Committed(p))
    BY SameBytes
  <1>3. At(tail)' = At(p)' /\ RecMsg(tail)' = RecMsg(p)' /\ (Committed(tail)' <=> Committed(p)')
    BY <1>1 DEF At, RecMsg, Committed
  <1> QED
    BY <1>1, <1>2, <1>3 DEF Reader

\* A sender that has no record of its own, or passes the check, or leaves.
LEMMA QuietSenderRec ==
    ASSUME RInv, NEW s \in Senders, Active',
           UNCHANGED <<state, head, tail, sem, mem, rpc, rsize, rpayload, restarts,
                       published, acked, delivered, dropped, unmarked, misread, strayed>>,
           \A t \in Senders \ {s} : SameSender(t), Stays(s), Faultless' => Faultless,
           Faultless' => spc[s] # "post" /\ (Inside(s) => Inside(s)'),
           spc'[s] = "cas" => shead'[s] + Reserved(ssize'[s]) <= tail + BlockSize
    PROVE  RecordsInv'
  <1>1. Active
    BY StillActive
  <1>2. IInv /\ Reader /\ Admitted
    BY <1>1, Opening
  <1>3. PICK P \in SUBSET Nat, sz \in [Nat -> Nat] : Records(P, sz)
    BY <1>1, Opening
  <1>4. Shape(P, sz) /\ Marks(P, sz) /\ Owners(P, sz) /\ Order(P) /\ Kept(P) /\ Wraps(P, sz)
    BY <1>3 DEF Records
  <1>5. \A t \in Senders : Stays(t)
    <2>1. ASSUME NEW t \in Senders \ {s} PROVE Stays(t)
      BY <2>1 DEF SameSender, Stays, Inside
    <2> QED
      BY <2>1
  <1>6. Shape(P, sz)' /\ Marks(P, sz)' /\ Owners(P, sz)'
    BY <1>4, <1>5, QuietStructure
  <1>7. Order(P)'
    BY <1>4, <1>5, QuietOrder
  <1>8. Kept(P)'
    <2>1. rpc' = "wait" /\ sem' = 0 => \A p \in P : Committed(p) => RecMsg(p) \notin acked'
      BY <1>4 DEF Kept
    <2>2. rpc' \in {"zerotail", "ready"} => \A p \in P : ~Committed(p)
      BY <1>4 DEF Kept
    <2> QED
      BY <1>4, <2>1, <2>2, QuietKept
  <1>9. ASSUME Faultless', rpc' = "wait", sem' = 0, NEW p \in P PROVE Excused(p)'
    <2>1. Excused(p)
      BY <1>4, <1>9 DEF Wraps, Excused
    <2>2. (Wrapped(p)' <=> Wrapped(p)) /\ (Committed(p)' <=> Committed(p)) /\ RecMsg(p)' = RecMsg(p)
      BY SameBytes
    <2>3. CASE \E t \in Senders : Inside(t) /\ shead[t] = p
      <3>1. PICK t \in Senders : Inside(t) /\ shead[t] = p
        BY <2>3
      <3>2. Inside(t)' /\ shead'[t] = p
        <4>1. CASE t = s
          BY <1>9, <3>1, <4>1 DEF Stays
        <4>2. CASE t # s
          BY <3>1, <4>2 DEF SameSender, Inside
        <4> QED
          BY <4>1, <4>2
      <3> QED
        BY <3>2 DEF Excused
    <2>4. CASE Committed(p) /\ \E t \in Senders : spc[t] = "post" /\ RecMsg(p) = Msg(t)
      <3>1. PICK t \in Senders : spc[t] = "post" /\ RecMsg(p) = Msg(t)
        BY <2>4
      <3>2. t # s
        BY <1>9, <3>1
      <3>3. spc'[t] = "post" /\ Msg(t)' = Msg(t)
        BY <3>1, <3>2 DEF SameSender, Msg
      <3> QED
        BY <2>2, <2>4, <3>1, <3>3 DEF Excused
    <2> QED
      BY <2>1, <2>2, <2>3, <2>4 DEF Excused
  <1>10. Wraps(P, sz)'
    BY <1>4, <1>5, <1>9, QuietWraps
  <1>11. Reader'
    BY <1>2, QuietReader
  <1>12. Admitted'
    <2>1. ASSUME NEW t \in Senders, spc'[t] = "cas"
          PROVE  shead'[t] + Reserved(ssize'[t]) <= tail + BlockSize
      <3>1. CASE t = s
        BY <2>1, <3>1
      <3>2. CASE t # s
        <4>1. SameSender(t)
          BY <3>2
        <4> QED
          BY <1>2, <2>1, <4>1 DEF SameSender, Admitted
      <3> QED
        BY <3>1, <3>2
    <2> QED
      BY <2>1 DEF Admitted, Reserved, AlignUp
  <1> QED
    BY <1>6, <1>7, <1>8, <1>10, <1>11, <1>12, Closing
-----------------------------------------------------------------------------
(* The steps of a sender outside of its stores. *)

LEMMA SendRec ==
    ASSUME RInv, NEW s \in Senders, NEW n \in MsgSizes, Send(s, n), Active'
    PROVE  RecordsInv'
  <1>1. /\ UNCHANGED <<state, head, tail, sem, mem, rpc, rsize, rpayload, restarts, crashes,
                       published, acked, delivered, dropped, unmarked, misread, strayed>>
        /\ spc[s] = "idle"
    BY DEF Send, block, worker, faults, history
  <1>2. /\ spc \in [Senders -> SenderPCs] /\ ssize \in [Senders -> Nat] /\ sent \in [Senders -> 0 .. MaxSends]
    BY Basics DEF RInv
  <1>3. \A t \in Senders \ {s} : SameSender(t)
    BY <1>2 DEF Send, Goto, SameSender
  <1>4. spc'[s] \in {"idle", "gen"}
    BY <1>2 DEF Send, Goto
  <1>5. ~Inside(s) /\ ~Inside(s)' /\ spc'[s] # "cas"
    BY <1>1, <1>4 DEF Inside
  <1>6. Stays(s) /\ (Faultless' => Faultless)
    BY <1>1, <1>5 DEF Stays, Faultless
  <1> QED
    BY <1>1, <1>3, <1>5, <1>6, QuietSenderRec

LEMMA LoadGenerationRec ==
    ASSUME RInv, NEW s \in Senders, LoadGeneration(s), Active'
    PROVE  RecordsInv'
  <1>1. /\ UNCHANGED <<state, head, tail, sem, mem, rpc, rsize, rpayload, restarts, crashes,
                       published, acked, delivered, dropped, unmarked, misread, strayed>>
        /\ spc[s] = "gen"
    BY DEF LoadGeneration, Return, Finish, Goto, block, worker, faults, history
  <1>2. /\ spc \in [Senders -> SenderPCs] /\ ssize \in [Senders -> Nat] /\ sent \in [Senders -> 0 .. MaxSends]
        /\ shead \in [Senders -> Nat] /\ sgen \in [Senders -> Nat]
    BY Basics DEF RInv
  <1>3. spc'[s] \in {"idle", "head"} /\ \A t \in Senders \ {s} : SameSender(t)
    BY <1>2 DEF LoadGeneration, Return, Finish, Goto, locals, SameSender
  <1>5. ~Inside(s) /\ ~Inside(s)' /\ spc'[s] # "cas"
    BY <1>1, <1>3 DEF Inside
  <1>6. Stays(s) /\ (Faultless' => Faultless)
    BY <1>1, <1>5 DEF Stays, Faultless
  <1> QED
    BY <1>1, <1>3, <1>5, <1>6, QuietSenderRec

LEMMA LoadHeadRec ==
    ASSUME RInv, NEW s \in Senders, LoadHead(s), Active'
    PROVE  RecordsInv'
  <1>1. /\ UNCHANGED <<state, head, tail, sem, mem, rpc, rsize, rpayload, restarts, crashes,
                       published, acked, delivered, dropped, unmarked, misread, strayed>>
        /\ spc[s] = "head"
    BY DEF LoadHead, Goto, block, worker, faults, history
  <1>2. /\ spc \in [Senders -> SenderPCs] /\ ssize \in [Senders -> Nat] /\ sent \in [Senders -> 0 .. MaxSends]
        /\ shead \in [Senders -> Nat] /\ sgen \in [Senders -> Nat]
    BY Basics DEF RInv
  <1>3. spc'[s] \in {"tail"} /\ \A t \in Senders \ {s} : SameSender(t)
    BY <1>2 DEF LoadHead, Goto, locals, SameSender
  <1>5. ~Inside(s) /\ ~Inside(s)' /\ spc'[s] # "cas"
    BY <1>1, <1>3 DEF Inside
  <1>6. Stays(s) /\ (Faultless' => Faultless)
    BY <1>1, <1>5 DEF Stays, Faultless
  <1> QED
    BY <1>1, <1>3, <1>5, <1>6, QuietSenderRec

LEMMA ReloadRec ==
    ASSUME RInv, NEW s \in Senders, Reload(s), Active'
    PROVE  RecordsInv'
  <1>1. /\ UNCHANGED <<state, head, tail, sem, mem, rpc, rsize, rpayload, restarts, crashes,
                       published, acked, delivered, dropped, unmarked, misread, strayed>>
        /\ spc[s] = "tail"
    BY DEF Reload, Goto, block, worker, faults, history
  <1>2. /\ spc \in [Senders -> SenderPCs] /\ ssize \in [Senders -> Nat] /\ sent \in [Senders -> 0 .. MaxSends]
        /\ shead \in [Senders -> Nat] /\ sgen \in [Senders -> Nat]
    BY Basics DEF RInv
  <1>3. spc'[s] \in {"head"} /\ \A t \in Senders \ {s} : SameSender(t)
    BY <1>2 DEF Reload, Goto, locals, SameSender
  <1>5. ~Inside(s) /\ ~Inside(s)' /\ spc'[s] # "cas"
    BY <1>1, <1>3 DEF Inside
  <1>6. Stays(s) /\ (Faultless' => Faultless)
    BY <1>1, <1>5 DEF Stays, Faultless
  <1> QED
    BY <1>1, <1>3, <1>5, <1>6, QuietSenderRec

LEMMA RejectRec ==
    ASSUME RInv, NEW s \in Senders, Reject(s), Active'
    PROVE  RecordsInv'
  <1>1. /\ UNCHANGED <<state, head, tail, sem, mem, rpc, rsize, rpayload, restarts, crashes,
                       published, acked, delivered, dropped, unmarked, misread, strayed>>
        /\ spc[s] = "tail"
    BY DEF Reject, Return, Finish, block, worker, faults, history
  <1>2. /\ spc \in [Senders -> SenderPCs] /\ ssize \in [Senders -> Nat] /\ sent \in [Senders -> 0 .. MaxSends]
        /\ shead \in [Senders -> Nat] /\ sgen \in [Senders -> Nat]
    BY Basics DEF RInv
  <1>3. spc'[s] \in {"idle"} /\ \A t \in Senders \ {s} : SameSender(t)
    BY <1>2 DEF Reject, Return, Finish, locals, SameSender
  <1>5. ~Inside(s) /\ ~Inside(s)' /\ spc'[s] # "cas"
    BY <1>1, <1>3 DEF Inside
  <1>6. Stays(s) /\ (Faultless' => Faultless)
    BY <1>1, <1>5 DEF Stays, Faultless
  <1> QED
    BY <1>1, <1>3, <1>5, <1>6, QuietSenderRec

LEMMA CasFailRec ==
    ASSUME RInv, NEW s \in Senders, CasFail(s), Active'
    PROVE  RecordsInv'
  <1>1. /\ UNCHANGED <<state, head, tail, sem, mem, rpc, rsize, rpayload, restarts, crashes,
                       published, acked, delivered, dropped, unmarked, misread, strayed>>
        /\ spc[s] = "cas"
    BY DEF CasFail, Goto, block, worker, faults, history
  <1>2. /\ spc \in [Senders -> SenderPCs] /\ ssize \in [Senders -> Nat] /\ sent \in [Senders -> 0 .. MaxSends]
        /\ shead \in [Senders -> Nat] /\ sgen \in [Senders -> Nat]
    BY Basics DEF RInv
  <1>3. spc'[s] \in {"tail"} /\ \A t \in Senders \ {s} : SameSender(t)
    BY <1>2 DEF CasFail, Goto, locals, SameSender
  <1>5. ~Inside(s) /\ ~Inside(s)' /\ spc'[s] # "cas"
    BY <1>1, <1>3 DEF Inside
  <1>6. Stays(s) /\ (Faultless' => Faultless)
    BY <1>1, <1>5 DEF Stays, Faultless
  <1> QED
    BY <1>1, <1>3, <1>5, <1>6, QuietSenderRec

\* Admission is what Admitted says.
LEMMA Verdicts ==
    ASSUME IInv, NEW s \in Senders, spc[s] = "tail", Verdict(s) = "admit"
    PROVE  tail <= shead[s] /\ shead[s] + Reserved(ssize[s]) <= tail + BlockSize
  <1>1. PICK k \in MsgSizes : k = ssize[s]
    BY Basics
  <1>2. shead[s] \in Nat /\ tail \in Nat /\ Reserved(k) \in Nat /\ BlockSize \in Nat
    BY Basics, ReservedFacts, Constants
  <1>3. ~(shead[s] < tail) /\ ~((shead[s] - tail) + Reserved(k) > BlockSize)
    BY <1>1 DEF Verdict, Admission, Filled
  <1> QED
    BY <1>1, <1>2, <1>3

LEMMA AdmitRec ==
    ASSUME RInv, NEW s \in Senders, Admit(s), Active'
    PROVE  RecordsInv'
  <1>1. /\ UNCHANGED <<state, head, tail, sem, mem, rpc, rsize, rpayload, restarts, crashes,
                       published, acked, delivered, dropped, unmarked, misread, strayed>>
        /\ spc[s] = "tail" /\ Verdict(s) = "admit"
    BY DEF Admit, Continue, block, worker, faults, history
  <1>2. spc \in [Senders -> SenderPCs] /\ IInv
    BY Basics DEF RInv
  <1>3. /\ spc'[s] = "cas" /\ shead'[s] = shead[s] /\ ssize'[s] = ssize[s]
        /\ \A t \in Senders \ {s} : SameSender(t)
    BY <1>2 DEF Admit, Continue, Goto, locals, SameSender
  <1>4. shead'[s] + Reserved(ssize'[s]) <= tail + BlockSize
    BY <1>1, <1>2, <1>3, Verdicts
  <1>5. ~Inside(s) /\ ~Inside(s)'
    BY <1>1, <1>3 DEF Inside
  <1>6. Stays(s) /\ (Faultless' => Faultless)
    BY <1>1, <1>5 DEF Stays, Faultless
  <1> QED
    BY <1>1, <1>3, <1>4, <1>5, <1>6, QuietSenderRec

LEMMA ProceedRec ==
    ASSUME RInv, NEW s \in Senders, Proceed(s), Active'
    PROVE  RecordsInv'
  <1>1. /\ UNCHANGED <<state, head, tail, sem, mem, rpc, rsize, rpayload, restarts, crashes,
                       published, acked, delivered, dropped, unmarked, misread, strayed>>
        /\ spc[s] = "check"
    BY DEF Proceed, Continue, block, worker, faults, history
  <1>2. spc \in [Senders -> SenderPCs]
    BY Basics DEF RInv
  <1>3. /\ spc'[s] = "write" /\ shead'[s] = shead[s] /\ ssize'[s] = ssize[s] /\ sent'[s] = sent[s]
        /\ \A t \in Senders \ {s} : SameSender(t)
    BY <1>2 DEF Proceed, Continue, Goto, locals, SameSender
  <1>5. Inside(s) /\ Inside(s)' /\ spc'[s] # "cas"
    BY <1>1, <1>3 DEF Inside
  <1>6. Stays(s) /\ (Faultless' => Faultless)
    BY <1>1, <1>3, <1>5 DEF Stays, Faultless
  <1> QED
    BY <1>1, <1>3, <1>5, <1>6, QuietSenderRec

\* Without a restart of the reader no sender finds another generation.
LEMMA AbandonRec ==
    ASSUME RInv, NEW s \in Senders, Abandon(s), Active'
    PROVE  RecordsInv'
  <1>1. /\ UNCHANGED <<state, head, tail, sem, mem, rpc, rsize, rpayload, restarts, crashes,
                       published, acked, delivered, dropped, unmarked, misread, strayed>>
        /\ spc[s] = "check" /\ ~SameBlock(s)
    BY DEF Abandon, Return, block, worker, faults, history
  <1>2. /\ spc \in [Senders -> SenderPCs] /\ ssize \in [Senders -> Nat]
        /\ shead \in [Senders -> Nat] /\ sgen \in [Senders -> Nat]
    BY Basics DEF RInv
  <1>3. spc'[s] = "idle" /\ \A t \in Senders \ {s} : SameSender(t)
    BY <1>2 DEF Abandon, Return, Finish, SameSender
  <1>4. ~Faultless'
    BY <1>1 DEF RInv, CalmInv, Faultless, SameBlock, Active
  <1>5. ~Inside(s)' /\ spc'[s] # "cas"
    BY <1>3 DEF Inside
  <1>6. Stays(s)
    BY <1>5 DEF Stays
  <1> QED
    BY <1>1, <1>3, <1>4, <1>5, <1>6, QuietSenderRec

LEMMA SenderCrashRec ==
    ASSUME RInv, NEW s \in Senders, SenderCrash(s), Active'
    PROVE  RecordsInv'
  <1>1. /\ UNCHANGED <<state, head, tail, sem, mem, rpc, rsize, rpayload, restarts,
                       published, acked, delivered, dropped, unmarked, misread, strayed>>
        /\ crashes' = crashes + 1
    BY DEF SenderCrash, block, worker, history
  <1>2. /\ spc \in [Senders -> SenderPCs] /\ ssize \in [Senders -> Nat]
        /\ shead \in [Senders -> Nat] /\ sgen \in [Senders -> Nat] /\ crashes \in Nat
    <2>1. IInv
      BY DEF RInv
    <2>2. crashes \in Nat
      BY <2>1, BoundsAssumption DEF IInv, TypeOK
    <2> QED
      BY <2>1, <2>2, Basics
  <1>3. spc'[s] = "idle" /\ \A t \in Senders \ {s} : SameSender(t)
    BY <1>2 DEF SenderCrash, Finish, SameSender
  <1>4. ~Faultless'
    BY <1>1, <1>2 DEF Faultless
  <1>5. ~Inside(s)' /\ spc'[s] # "cas"
    BY <1>3 DEF Inside
  <1>6. Stays(s)
    BY <1>5 DEF Stays
  <1> QED
    BY <1>1, <1>3, <1>4, <1>5, <1>6, QuietSenderRec

\* A post wakes the reader.
LEMMA PostRec ==
    ASSUME RInv, NEW s \in Senders, Post(s), Active'
    PROVE  RecordsInv'
  <1>1. /\ UNCHANGED <<state, head, tail, mem, rpc, rsize, rpayload, restarts, crashes,
                       published, delivered, dropped, unmarked, misread, strayed>>
        /\ spc[s] = "post" /\ sem' = sem + 1
    BY DEF Post, Posted, worker, faults
  <1>2. Active
    BY <1>1, StillActive
  <1>3. IInv /\ Reader /\ Admitted
    BY <1>2, Opening
  <1>4. PICK P \in SUBSET Nat, sz \in [Nat -> Nat] : Records(P, sz)
    BY <1>2, Opening
  <1>5. Shape(P, sz) /\ Marks(P, sz) /\ Owners(P, sz) /\ Order(P) /\ Kept(P) /\ Wraps(P, sz)
    BY <1>4 DEF Records
  <1>6. /\ spc \in [Senders -> SenderPCs] /\ ssize \in [Senders -> Nat] /\ sem \in Nat /\ tail \in Nat
        /\ shead \in [Senders -> Nat] /\ sgen \in [Senders -> Nat]
    BY <1>3, Basics
  <1>7. spc'[s] = "idle" /\ \A t \in Senders \ {s} : SameSender(t)
    BY <1>6 DEF Post, Finish, SameSender
  <1>8. \A t \in Senders : Stays(t)
    <2>1. ASSUME NEW t \in Senders \ {s} PROVE Stays(t)
      BY <1>7, <2>1 DEF SameSender, Stays, Inside
    <2>2. Stays(s)
      BY <1>7 DEF Stays, Inside
    <2> QED
      BY <2>1, <2>2
  <1>9. sem' # 0
    BY <1>1, <1>6
  <1>10. Shape(P, sz)' /\ Marks(P, sz)' /\ Owners(P, sz)'
    BY <1>1, <1>5, <1>8, QuietStructure
  <1>11. Order(P)'
    BY <1>1, <1>5, <1>8, QuietOrder
  <1>12. Kept(P)'
    <2>1. rpc' \in {"zerotail", "ready"} => \A p \in P : ~Committed(p)
      BY <1>1, <1>5 DEF Kept
    <2> QED
      BY <1>1, <1>5, <1>9, <2>1, QuietKept
  <1>13. Wraps(P, sz)'
    <2>1. Faultless' => Faultless
      BY <1>1 DEF Faultless
    <2> QED
      BY <1>1, <1>5, <1>8, <1>9, <2>1, QuietWraps
  <1>14. Reader'
    BY <1>1, <1>3, QuietReader
  <1>15. Admitted'
    <2>1. \A t \in Senders : spc'[t] = "cas" => spc[t] = "cas" /\ shead'[t] = shead[t] /\ ssize'[t] = ssize[t]
      BY <1>7 DEF SameSender
    <2> QED
      BY <1>1, <1>3, <1>6, <2>1, AdmittedFrame
  <1> QED
    BY <1>10, <1>11, <1>12, <1>13, <1>14, <1>15, Closing
-----------------------------------------------------------------------------
(* The steps of the reader that consume nothing. *)

\* The reader moves on, and goes to sleep only when the ring is empty.
LEMMA LookRec ==
    ASSUME RInv, Active, Reader', Faultless' => Faultless,
           UNCHANGED <<head, tail, mem, unmarked, published, acked, delivered, dropped,
                       spc, sent, ssize, sgen, shead>>,
           rpc' = "wait" => head = tail,
           rpc' \in {"zerotail", "ready"} => rpc \in {"zerotail", "ready"}
    PROVE  RecordsInv'
  <1>1. IInv /\ Admitted
    BY Opening
  <1>2. PICK P \in SUBSET Nat, sz \in [Nat -> Nat] : Records(P, sz)
    BY Opening
  <1>3. Shape(P, sz) /\ Marks(P, sz) /\ Owners(P, sz) /\ Order(P) /\ Kept(P) /\ Wraps(P, sz)
    BY <1>2 DEF Records
  <1>4. \A t \in Senders : Stays(t)
    BY DEF Stays, Inside
  <1>5. Shape(P, sz)' /\ Marks(P, sz)' /\ Owners(P, sz)'
    BY <1>3, <1>4, QuietStructure
  <1>6. Order(P)'
    BY <1>3, <1>4, QuietOrder
  <1>7. rpc' = "wait" => P = {}
    BY <1>1, <1>3, TailFacts
  <1>8. Kept(P)'
    <2>1. rpc' \in {"zerotail", "ready"} => \A p \in P : ~Committed(p)
      BY <1>3 DEF Kept
    <2> QED
      BY <1>3, <1>7, <2>1, QuietKept
  <1>9. Wraps(P, sz)'
    BY <1>3, <1>4, <1>7, QuietWraps
  <1>10. Admitted'
    <2>1. tail \in Nat
      BY <1>1, Basics
    <2> QED
      BY <1>1, <2>1, AdmittedFrame
  <1> QED
    BY <1>5, <1>6, <1>8, <1>9, <1>10, Closing

\* While the reader reads, the block is ready.
LEMMA Reading ==
    ASSUME RInv, rpc \in {"wait", "load", "inspect", "reload", "copy", "advance"}, Active',
           misread => misread', strayed => strayed'
    PROVE  Active /\ state = "READY"
  BY DEF RInv, PhaseInv, Active

LEMMA WaitRec ==
    ASSUME RInv, Wait, Active'
    PROVE  RecordsInv'
  <1>1. /\ UNCHANGED <<head, tail, mem, unmarked, published, acked, delivered, dropped, crashes, restarts,
                       spc, sent, ssize, sgen, shead, misread, strayed>>
        /\ rpc = "wait" /\ rpc' = "load"
    BY DEF Wait, senders, locals, faults, history
  <1>2. Active
    BY <1>1, Reading
  <1>3. Reader' /\ (Faultless' => Faultless)
    BY <1>1 DEF Reader, Faultless
  <1> QED
    BY <1>1, <1>2, <1>3, LookRec

\* recv never finds tail in front of head.
LEMMA RecvLoadStep ==
    ASSUME RInv, RecvLoad, ~misread', ~strayed'
    PROVE  /\ Active /\ RecordsInv' /\ rpc' \in {"wait", "inspect"}
  <1>1. /\ UNCHANGED <<state, head, tail, mem, unmarked, published, acked, delivered, dropped, crashes, restarts,
                       spc, sent, ssize, sgen, shead, misread, strayed>>
        /\ rpc = "load" /\ rpc' = RecvEntry
    BY DEF RecvLoad, Look, block, senders, locals, faults, history
  <1>2. Active /\ state = "READY"
    BY <1>1 DEF RInv, PhaseInv, Active
  <1>3. IInv
    BY DEF RInv
  <1>4. PICK P \in SUBSET Nat, sz \in [Nat -> Nat] : Shape(P, sz)
    BY <1>2, Opening DEF Records
  <1>5. tail <= head /\ tail \in Nat /\ head \in Nat
    BY <1>3, <1>4, TailFacts, Basics
  <1>6. /\ rpc' \in {"wait", "inspect"}
        /\ rpc' = "wait" => head = tail
        /\ rpc' = "inspect" => tail < head
    BY <1>1, <1>2, <1>5 DEF RecvEntry
  <1>7. Reader' /\ (Faultless' => Faultless)
    BY <1>1, <1>6 DEF Reader, Faultless
  <1>8. RecordsInv'
    BY <1>1, <1>2, <1>6, <1>7, LookRec
  <1> QED
    BY <1>2, <1>6, <1>8

LEMMA RetryRec ==
    ASSUME RInv, Retry, Active'
    PROVE  RecordsInv'
  <1>1. /\ UNCHANGED <<head, tail, mem, unmarked, published, acked, delivered, dropped, crashes, restarts,
                       spc, sent, ssize, sgen, shead, misread, strayed>>
        /\ rpc = "inspect" /\ rpc' = "load"
    BY DEF Retry, NotYetPublished, Look, block, senders, locals, faults, history
  <1>2. Active
    BY <1>1, Reading
  <1>3. Reader' /\ (Faultless' => Faultless)
    BY <1>1 DEF Reader, Faultless
  <1> QED
    BY <1>1, <1>2, <1>3, LookRec

LEMMA ReloadHeadRec ==
    ASSUME RInv, ReloadHead, Active'
    PROVE  RecordsInv'
  <1>1. /\ UNCHANGED <<head, tail, mem, unmarked, published, acked, delivered, dropped, crashes, restarts,
                       spc, sent, ssize, sgen, shead, misread, strayed>>
        /\ rpc = "reload" /\ rpc' = IF MoreRecords THEN "inspect" ELSE "wait"
    BY DEF ReloadHead, Look, block, senders, locals, faults, history
  <1>2. Active
    BY <1>1, Reading
  <1>3. PICK P \in SUBSET Nat, sz \in [Nat -> Nat] : Shape(P, sz)
    BY <1>2, Opening DEF Records
  <1>4. tail <= head /\ tail \in Nat /\ head \in Nat
    BY <1>3, TailFacts, Basics DEF RInv
  <1>5. rpc' = "wait" => head = tail
    BY <1>1, <1>4 DEF MoreRecords
  <1>6. rpc' = "inspect" => tail < head
    BY <1>1, <1>4 DEF MoreRecords
  <1>7. Reader' /\ (Faultless' => Faultless)
    BY <1>1, <1>6 DEF Reader, Faultless
  <1> QED
    BY <1>1, <1>2, <1>5, <1>7, LookRec

LEMMA FoundRec ==
    ASSUME RInv, Found, Active'
    PROVE  RecordsInv'
  <1>1. /\ UNCHANGED <<head, tail, mem, unmarked, published, acked, delivered, dropped, crashes, restarts,
                       spc, sent, ssize, sgen, shead, strayed>>
        /\ rpc = "inspect" /\ rpc' = "copy" /\ AtTail.st = "committed" /\ (misread => misread')
        /\ tail \in unmarked => misread'
    BY DEF Found, Trusted, Trust, block, senders, locals, faults
  <1>2. Active
    BY <1>1, Reading
  <1>3. tail \notin unmarked /\ tail < head
    BY <1>1, <1>2, Opening DEF Active, Reader
  <1>4. Reader' /\ (Faultless' => Faultless)
    BY <1>1, <1>3 DEF Reader, Faultless, Committed, At, AtTail
  <1> QED
    BY <1>1, <1>2, <1>4, LookRec

\* What the reader copies from a whole record is its message.
LEMMA WholePayload ==
    ASSUME mem \in [Offsets -> Cells], NEW o \in Offsets, NEW m, NEW n \in Nat \ {0}, o + HdrSize \in Offsets,
           \A a \in PayloadCells(o, n) : mem[a] = Data(m, a - (o + HdrSize))
    PROVE  ReadPayload(o, n) = {m}
  <1>1. PICK b \in Offsets : b = o + HdrSize
    OBVIOUS
  <1>2. b \in Nat /\ o \in Nat /\ HdrSize \in Nat
    BY Constants DEF Offsets
  <1>3. b \in PayloadCells(o, n)
    BY <1>1, <1>2 DEF PayloadCells
  <1>4. mem[b] = Data(m, b - (o + HdrSize))
    BY <1>3
  <1>5. b - (o + HdrSize) = 0
    BY <1>1, <1>2
  <1>6. mem[b].st = "data" /\ mem[b].len = 0 /\ mem[b].msg = m
    BY <1>4, <1>5 DEF Data
  <1>7. ASSUME NEW a \in PayloadCells(o, n) PROVE mem[a].msg = m
    <2>1. mem[a] = Data(m, a - (o + HdrSize))
      OBVIOUS
    <2> QED
      BY <2>1 DEF Data
  <1>8. ReadPayload(o, n) = {mem[a].msg : a \in PayloadCells(o, n)}
    BY <1>1, <1>6 DEF ReadPayload
  <1> QED
    BY <1>3, <1>6, <1>7, <1>8

LEMMA CopyRec ==
    ASSUME RInv, Copy, Active'
    PROVE  RecordsInv'
  <1>1. /\ UNCHANGED <<head, tail, mem, unmarked, published, acked, delivered, dropped, crashes, restarts,
                       spc, sent, ssize, sgen, shead, misread, strayed>>
        /\ rpc = "copy" /\ rpc' = "advance" /\ rsize' = AtTail.size
        /\ rpayload' = ReadPayload(Offset(tail), AtTail.len)
    BY DEF Copy, block, senders, locals, faults, history
  <1>2. Active
    BY <1>1, Reading
  <1>3. IInv /\ Reader
    BY <1>2, Opening
  <1>4. PICK P \in SUBSET Nat, sz \in [Nat -> Nat] : Shape(P, sz) /\ Marks(P, sz)
    BY <1>2, Opening DEF Records
  <1>5. tail < head /\ Committed(tail)
    BY <1>1, <1>3 DEF Reader
  <1>6. PICK p \in P : p = tail
    BY <1>3, <1>4, <1>5, TailFacts
  <1>7. RowMarked(p, sz[p]) /\ At(p).st = "committed"
    BY <1>4, <1>5, <1>6 DEF Marks, Committed
  <1>8. PICK n : n = At(p).len
    OBVIOUS
  <1>9. /\ Offset(p) \in Offsets /\ Offset(p) \in Nat /\ sz[p] \in Nat
        /\ HdrSize < sz[p] => Offset(p) + HdrSize \in Offsets
        /\ mem \in [Offsets -> Cells] /\ tail \in Nat /\ head \in Nat
    BY <1>3, <1>4, <1>6, Basics, RecordFacts
  <1>10. n \in Nat
    BY <1>8, <1>9 DEF At, Cells
  <1>11. n \in Nat \ {0} /\ HdrSize + n <= sz[p] /\ Whole(p)
    BY <1>7, <1>8, <1>10 DEF RowMarked
  <1>12. Offset(p) + HdrSize \in Offsets
    BY <1>9, <1>11, Constants
  <1>13. \A a \in PayloadCells(Offset(p), n) : mem[a] = Data(RecMsg(p), a - (Offset(p) + HdrSize))
    BY <1>8, <1>11 DEF Whole
  <1>14. ReadPayload(Offset(p), n) = {RecMsg(p)}
    BY <1>9, <1>11, <1>12, <1>13, WholePayload
  <1>15. AtTail = At(p) /\ Offset(tail) = Offset(p)
    BY <1>6 DEF AtTail, At
  <1>16. rpayload' = {RecMsg(p)} /\ rsize' = At(p).size
    BY <1>1, <1>8, <1>14, <1>15
  <1>17. Reader'
    <2>1. At(p)' = At(p) /\ RecMsg(p)' = RecMsg(p) /\ (Committed(p)' <=> Committed(p))
      BY <1>1, SameBytes
    <2>2. tail' = p
      BY <1>1, <1>6
    <2>3. At(tail)' = At(p)' /\ RecMsg(tail)' = RecMsg(p)' /\ (Committed(tail)' <=> Committed(p)')
      BY <2>2 DEF At, RecMsg, Committed
    <2> QED
      BY <1>1, <1>5, <1>6, <1>16, <2>1, <2>3 DEF Reader
  <1>18. Faultless' => Faultless
    BY <1>1 DEF Faultless
  <1> QED
    BY <1>1, <1>2, <1>17, <1>18, LookRec

\* A header that was written for its reservation is a valid one.
LEMMA NothingMangled ==
    ASSUME RInv, Corrupted, ~misread', ~strayed'
    PROVE  FALSE
  <1>1. /\ Mangled /\ (misread => misread') /\ strayed' = strayed
        /\ tail \in unmarked => misread'
    BY DEF Corrupted, Trust
  <1>2. rpc \in {"inspect", "copy"}
    BY <1>1 DEF Mangled
  <1>3. Active
    BY <1>1, <1>2 DEF RInv, PhaseInv, Active
  <1>4. IInv /\ Reader
    BY <1>3, Opening
  <1>5. PICK P \in SUBSET Nat, sz \in [Nat -> Nat] : Shape(P, sz) /\ Marks(P, sz)
    BY <1>3, Opening DEF Records
  <1>6. tail < head /\ tail \notin unmarked
    BY <1>1, <1>2, <1>4 DEF Reader
  <1>7. PICK p \in P : p = tail
    BY <1>4, <1>5, <1>6, TailFacts
  <1>8. RowMarked(p, sz[p]) /\ AtTail = At(p)
    BY <1>5, <1>6, <1>7 DEF Marks, AtTail, At
  <1>9. /\ p \in Nat /\ sz[p] \in Nat /\ Offset(p) \in Nat /\ Offset(p) \in Offsets
        /\ head \in Nat /\ head % Align = 0 /\ mem \in [Offsets -> Cells]
    BY <1>4, <1>5, Basics, RecordFacts
  <1>10. RowShape(P, sz, p)
    BY <1>5 DEF Shape
  <1>11. sz[p] % Align = 0
    <2>1. PICK e \in Nat : e = p + sz[p]
      BY <1>9
    <2>2. e % Align = 0
      BY <1>5, <1>9, <1>10, <2>1 DEF Shape, RowShape
    <2>3. p <= e /\ e - p = sz[p]
      BY <1>9, <2>1
    <2>4. p % Align = 0
      BY <1>10 DEF RowShape
    <2>5. (e - p) % Align = 0
      BY <1>9, <2>1, <2>2, <2>3, <2>4, MultipleDiff, Constants
    <2> QED
      BY <2>3, <2>5
  <1>12. ValidSize(At(p))
    BY <1>8, <1>9, <1>10, <1>11, Constants DEF ValidSize, RowMarked, RowShape
  <1>13. CASE rpc = "inspect"
    <2>1. AtTail.st = "data" \/ (Trusted("wrap") /\ ~ValidWrap(AtTail))
      BY <1>1, <1>13 DEF Mangled
    <2>2. At(p).st = "wrap" /\ ~ValidWrap(At(p))
      BY <1>8, <2>1 DEF RowMarked, Trusted
    <2> QED
      BY <1>8, <1>12, <2>2 DEF ValidWrap, RowMarked
  <1>14. CASE rpc = "copy"
    <2>1. ~ValidRecord(AtTail)
      BY <1>1, <1>14 DEF Mangled
    <2>2. At(p).st = "committed"
      BY <1>4, <1>7, <1>14 DEF Reader, Committed
    <2>3. At(p).len # 0
      BY <1>8, <1>9, <2>2 DEF RowMarked, At, Cells
    <2> QED
      BY <1>8, <1>12, <2>1, <2>2, <2>3 DEF ValidRecord
  <1> QED
    BY <1>2, <1>13, <1>14

LEMMA ConsumerCrashRec ==
    ASSUME RInv, ConsumerCrash, Active'
    PROVE  RecordsInv'
  <1>1. /\ UNCHANGED <<state, head, tail, mem, unmarked, published, acked, delivered, dropped, crashes,
                       spc, sent, ssize, sgen, shead, misread, strayed>>
        /\ rpc' = "down" /\ restarts' = restarts + 1
    BY DEF ConsumerCrash, block, senders, locals, history
  <1>2. Active
    BY <1>1 DEF Active
  <1>3. restarts \in Nat
    BY BoundsAssumption DEF RInv, IInv, TypeOK
  <1>4. Reader' /\ ~Faultless'
    BY <1>1, <1>3 DEF Reader, Faultless
  <1> QED
    BY <1>1, <1>2, <1>4, LookRec

LEMMA ConsumerRestartRec ==
    ASSUME RInv, ConsumerRestart, Active'
    PROVE  RecordsInv'
  <1>1. /\ UNCHANGED <<state, head, tail, mem, unmarked, published, acked, delivered, dropped, crashes, restarts,
                       spc, sent, ssize, sgen, shead, misread, strayed>>
        /\ rpc' = "reinit"
    BY DEF ConsumerRestart, Look, block, senders, locals, faults, history
  <1>2. Active
    BY <1>1 DEF Active
  <1>3. Reader' /\ (Faultless' => Faultless)
    BY <1>1 DEF Reader, Faultless
  <1> QED
    BY <1>1, <1>2, <1>3, LookRec
-----------------------------------------------------------------------------
(* The steps of the reader that consume or discard. *)

\* The record at tail was published, and tail moves past it.
Consumed(P, sz) ==
    /\ tail \in P /\ tail' = tail + sz[tail] /\ (Committed(tail) \/ Wrapped(tail))
    /\ UNCHANGED <<head, mem, unmarked, published, acked, dropped, crashes, restarts,
                   spc, sent, ssize, sgen, shead>>
    /\ rpc' \in {"load", "reload"}

LEMMA ConsumeStructure ==
    ASSUME IInv, NEW P \in SUBSET Nat, NEW sz \in [Nat -> Nat], Shape(P, sz), Marks(P, sz), Owners(P, sz),
           Consumed(P, sz), NEW t, t = tail
    PROVE  /\ Shape(P \ {t}, sz)' /\ Marks(P \ {t}, sz)' /\ Owners(P \ {t}, sz)'
           /\ tail' \in Nat /\ tail <= tail' /\ t \in P
           /\ \A s \in Senders : Inside(s) => shead[s] # t
  <1>1. /\ t \in P /\ t \in Nat /\ tail' = t + sz[t] /\ (Committed(t) \/ Wrapped(t)) /\ head \in Nat
        /\ head' = head /\ mem' = mem /\ unmarked' = unmarked /\ published' = published
        /\ spc' = spc /\ sent' = sent /\ ssize' = ssize /\ shead' = shead
    BY Basics DEF Consumed
  <1>2. sz[t] \in Nat \ {0} /\ t + sz[t] <= head /\ RowShape(P, sz, t)
    BY <1>1, Basics, RecordFacts DEF Shape
  <1>3. ASSUME NEW q \in P \ {t}
        PROVE  /\ q \in Nat /\ sz[q] \in Nat \ {0} /\ t < q /\ t + sz[t] <= q /\ RowShape(P, sz, q)
    <2>1. q \in Nat /\ sz[q] \in Nat \ {0} /\ tail <= q /\ RowShape(P, sz, q)
      BY <1>3, Basics, RecordFacts DEF Shape
    <2>2. t < q
      BY <1>1, <1>3, <2>1
    <2> QED
      BY <1>1, <1>3, <2>1, <2>2 DEF Shape
  <1>4. Shape(P \ {t}, sz)'
    <2>1. tail' \in (P \ {t}) \cup {head}
      BY <1>1, <1>2 DEF RowShape
    <2>2. ASSUME NEW q \in P \ {t} PROVE RowShape(P \ {t}, sz, q)'
      <3>1. q + sz[q] \in (P \ {t}) \cup {head}
        BY <1>1, <1>3, <2>2 DEF RowShape
      <3>2. tail' <= q
        BY <1>1, <1>3, <2>2
      <3> QED
        BY <1>1, <1>3, <2>2, <3>1, <3>2 DEF RowShape
    <2>3. tail' <= head' /\ head' <= tail' + BlockSize
      <3>1. head <= t + BlockSize
        BY DEF Shape
      <3> QED
        BY <1>1, <1>2, <3>1, Constants
    <2>4. \A p, q \in P \ {t} : p < q => p + sz[p] <= q
      BY DEF Shape
    <2> QED
      BY <1>1, <2>1, <2>2, <2>3, <2>4 DEF Shape
  <1>5. t \notin unmarked
    BY <1>1 DEF Committed, Wrapped
  <1>6. Marks(P \ {t}, sz)'
    <2>1. ASSUME NEW p \in P \ {t}, p \notin unmarked' PROVE RowMarked(p, sz[p])'
      <3>1. RowMarked(p, sz[p])
        BY <1>1, <2>1 DEF Marks
      <3>2. At(p)' = At(p) /\ RecMsg(p)' = RecMsg(p) /\ (Whole(p)' <=> Whole(p))
        BY <1>1, SameBytes
      <3> QED
        BY <1>1, <3>1, <3>2 DEF RowMarked
    <2>2. unmarked' \subseteq P \ {t}
      BY <1>1, <1>5 DEF Marks
    <2> QED
      BY <2>1, <2>2 DEF Marks
  <1>7. ASSUME NEW s \in Senders, Inside(s) PROVE RowOwner(P, sz, s) /\ shead[s] # t
    <2>1. RowOwner(P, sz, s)
      BY <1>7 DEF Owners
    <2> QED
      BY <1>1, <1>7, <2>1 DEF RowOwner, Inside, Committed, Wrapped
  <1>8. ASSUME NEW s \in Senders, Inside(s)' PROVE RowOwner(P \ {t}, sz, s)'
    <2>1. Inside(s)
      BY <1>1, <1>8 DEF Inside
    <2>2. RowOwner(P, sz, s) /\ shead[s] # t
      BY <1>7, <2>1
    <2>3. PICK k : k = shead[s]
      OBVIOUS
    <2>4. At(k)' = At(k) /\ RecMsg(k)' = RecMsg(k) /\ (Whole(k)' <=> Whole(k))
      BY <1>1, SameBytes
    <2>5. At(shead[s])' = At(k)' /\ RecMsg(shead[s])' = RecMsg(k)' /\ (Whole(shead[s])' <=> Whole(k)')
      BY <1>1, <2>3 DEF At, RecMsg, Whole
    <2>6. Extent(s)' = Extent(s) /\ Msg(s)' = Msg(s)
      BY <1>1 DEF Extent, Msg, SpaceTilWrap, Offset, Reserved, AlignUp
    <2>7. shead'[s] \in P \ {t} /\ sz[shead'[s]] = Extent(s)'
      BY <1>1, <2>2, <2>6 DEF RowOwner
    <2> QED
      BY <1>1, <2>2, <2>3, <2>4, <2>5, <2>6, <2>7 DEF RowOwner
  <1>9. \A s, u \in Senders : Inside(s)' /\ Inside(u)' /\ shead'[s] = shead'[u] => s = u
    BY <1>1 DEF Owners, Inside
  <1>10. Owners(P \ {t}, sz)'
    BY <1>8, <1>9 DEF Owners
  <1> QED
    BY <1>1, <1>2, <1>4, <1>6, <1>7, <1>10

\* The rest of the record invariant: what was consumed was a wrap record or
\* is delivered by this step.
LEMMA ConsumeRec ==
    ASSUME RInv, Active, NEW P \in SUBSET Nat, NEW sz \in [Nat -> Nat], Records(P, sz), Consumed(P, sz),
           DeliveredMsgs \subseteq DeliveredMsgs',
           \A m \in DeliveredMsgs' : m \in DeliveredMsgs \/ (Committed(tail) /\ m = RecMsg(tail)),
           Committed(tail) => RecMsg(tail) \in DeliveredMsgs'
    PROVE  RecordsInv'
  <1>1. IInv /\ Admitted
    BY Opening
  <1>2. Shape(P, sz) /\ Marks(P, sz) /\ Owners(P, sz) /\ Order(P) /\ Kept(P) /\ Wraps(P, sz)
    BY DEF Records
  <1>3. PICK t : t = tail
    OBVIOUS
  <1>4. /\ Shape(P \ {t}, sz)' /\ Marks(P \ {t}, sz)' /\ Owners(P \ {t}, sz)'
        /\ tail' \in Nat /\ tail <= tail' /\ t \in P
        /\ \A s \in Senders : Inside(s) => shead[s] # t
    BY <1>1, <1>2, <1>3, ConsumeStructure
  <1>5. /\ UNCHANGED <<head, mem, unmarked, published, acked, dropped, crashes, restarts,
                       spc, sent, ssize, sgen, shead>>
        /\ rpc' \in {"load", "reload"}
    BY DEF Consumed
  <1>6. \A p \in P : /\ (Committed(p)' <=> Committed(p)) /\ RecMsg(p)' = RecMsg(p)
                     /\ (Wrapped(p)' <=> Wrapped(p))
    BY <1>5, SameBytes
  <1>7. \A p \in P \ {t} : t < p
    <2>1. \A p \in P : p \in Nat /\ tail <= p
      BY <1>1, <1>2, Basics, RecordFacts
    <2> QED
      BY <1>3, <1>4, <2>1
  <1>8. Order(P \ {t})'
    <2>1. ASSUME NEW p \in P \ {t}, NEW q \in P \ {t}, Committed(p)', Committed(q)', p < q,
                 RecMsg(p)'[1] = RecMsg(q)'[1]
          PROVE  RecMsg(p)'[2] < RecMsg(q)'[2]
      BY <1>2, <1>6, <2>1 DEF Order
    <2>2. ASSUME NEW p \in P \ {t}, Committed(p)', NEW m \in DeliveredMsgs', m[1] = RecMsg(p)'[1]
          PROVE  m[2] < RecMsg(p)'[2]
      <3>1. CASE m \in DeliveredMsgs
        BY <1>2, <1>6, <2>2, <3>1 DEF Order
      <3>2. CASE Committed(t) /\ m = RecMsg(t)
        BY <1>2, <1>4, <1>6, <1>7, <2>2, <3>2 DEF Order
      <3> QED
        BY <1>3, <2>2, <3>1, <3>2
    <2>3. ASSUME NEW p \in P \ {t}, NEW s \in Senders, Committed(p)', Inside(s)', RecMsg(p)'[1] = s
          PROVE  p < shead'[s]
      <3>1. Inside(s) /\ shead'[s] = shead[s]
        BY <1>5, <2>3 DEF Inside
      <3> QED
        BY <1>2, <1>6, <2>3, <3>1 DEF Order
    <2> QED
      BY <2>1, <2>2, <2>3 DEF Order
  <1>9. Kept(P \ {t})'
    <2>1. ASSUME NEW m \in published'
          PROVE  m \in DeliveredMsgs' \/ m \in dropped' \/ \E p \in P \ {t} : Committed(p)' /\ RecMsg(p)' = m
      <3>1. m \in DeliveredMsgs \/ m \in dropped \/ \E p \in P : Committed(p) /\ RecMsg(p) = m
        BY <1>2, <1>5, <2>1 DEF Kept
      <3>2. CASE \E p \in P : Committed(p) /\ RecMsg(p) = m
        <4>1. PICK p \in P : Committed(p) /\ RecMsg(p) = m
          BY <3>2
        <4>2. CASE p = t
          BY <1>3, <4>1, <4>2
        <4>3. CASE p # t
          BY <1>6, <4>1, <4>3
        <4> QED
          BY <4>2, <4>3
      <3> QED
        BY <1>5, <3>1, <3>2
    <2> QED
      BY <1>5, <2>1 DEF Kept
  <1>10. Wraps(P \ {t}, sz)'
    <2> SUFFICES ASSUME Faultless' PROVE Wraps(P \ {t}, sz)'
      BY DEF Wraps
    <2>1. Faultless
      BY <1>5 DEF Faultless
    <2>2. \A p \in P \ {t} : Wrapped(p)' => Offset(p) + sz[p] = BlockSize /\ Short(sz[p])
      BY <1>2, <1>6, <2>1 DEF Wraps
    <2>3. \A s \in Senders : spc'[s] \in {"wraphdr", "wrap"} => Short(sz[shead'[s]])
      BY <1>2, <1>5, <2>1 DEF Wraps
    <2> QED
      BY <1>5, <2>2, <2>3 DEF Wraps, Short
  <1>11. Reader'
    BY <1>5 DEF Reader
  <1>12. Admitted'
    BY <1>1, <1>4, <1>5, AdmittedFrame
  <1>13. P \ {t} \in SUBSET Nat
    OBVIOUS
  <1> QED
    BY <1>4, <1>8, <1>9, <1>10, <1>11, <1>12, <1>13, Closing

LEMMA SkipWrapRec ==
    ASSUME RInv, SkipWrap, Active'
    PROVE  RecordsInv'
  <1>1. /\ UNCHANGED <<head, mem, unmarked, published, acked, delivered, dropped, crashes, restarts,
                       spc, sent, ssize, sgen, shead, strayed>>
        /\ rpc = "inspect" /\ rpc' = "reload" /\ AtTail.st = "wrap" /\ tail' = tail + AtTail.size
        /\ (misread => misread') /\ (tail \in unmarked => misread')
    BY DEF SkipWrap, Trusted, Trust, senders, locals, faults
  <1>2. Active
    BY <1>1, Reading
  <1>3. IInv /\ Reader
    BY <1>2, Opening
  <1>4. PICK P \in SUBSET Nat, sz \in [Nat -> Nat] : Records(P, sz)
    BY <1>2, Opening
  <1>5. tail \notin unmarked /\ tail < head
    BY <1>1, <1>3 DEF Active, Reader
  <1>6. tail \in P
    BY <1>3, <1>4, <1>5, TailFacts DEF Records
  <1>7. AtTail = At(tail) /\ At(tail).size = sz[tail]
    BY <1>4, <1>5, <1>6 DEF Records, Marks, RowMarked, AtTail, At
  <1>8. Wrapped(tail) /\ ~Committed(tail)
    BY <1>1, <1>5, <1>7 DEF Wrapped, Committed
  <1>9. Consumed(P, sz)
    BY <1>1, <1>6, <1>7, <1>8 DEF Consumed
  <1>10. DeliveredMsgs' = DeliveredMsgs
    BY <1>1 DEF DeliveredMsgs
  <1> QED
    BY <1>2, <1>4, <1>8, <1>9, <1>10, ConsumeRec

LEMMA DeliveredGrows ==
    ASSUME delivered \in Seq(SUBSET (Msgs \cup {None})), NEW m, {m} \in SUBSET (Msgs \cup {None}),
           delivered' = Append(delivered, {m})
    PROVE  DeliveredMsgs' = DeliveredMsgs \cup {m}
  <1>1. /\ Len(delivered) \in Nat /\ DOMAIN delivered = 1 .. Len(delivered)
        /\ DOMAIN delivered' = 1 .. (Len(delivered) + 1)
        /\ delivered'[Len(delivered) + 1] = {m}
        /\ \A i \in 1 .. Len(delivered) : delivered'[i] = delivered[i]
    OBVIOUS
  <1>2. ASSUME NEW k \in DeliveredMsgs' PROVE k \in DeliveredMsgs \cup {m}
    <2>1. PICK i \in DOMAIN delivered' : k \in delivered'[i]
      BY <1>2 DEF DeliveredMsgs
    <2>2. CASE i = Len(delivered) + 1
      BY <1>1, <2>1, <2>2
    <2>3. CASE i # Len(delivered) + 1
      <3>1. i \in 1 .. Len(delivered)
        BY <1>1, <2>3
      <3>2. k \in delivered[i] /\ i \in DOMAIN delivered
        BY <1>1, <2>1, <3>1
      <3> QED
        BY <3>2 DEF DeliveredMsgs
    <2> QED
      BY <2>2, <2>3
  <1>3. ASSUME NEW k \in DeliveredMsgs \cup {m} PROVE k \in DeliveredMsgs'
    <2>1. CASE k = m
      <3>1. Len(delivered) + 1 \in DOMAIN delivered' /\ k \in delivered'[Len(delivered) + 1]
        BY <1>1, <2>1
      <3> QED
        BY <3>1 DEF DeliveredMsgs
    <2>2. CASE k \in DeliveredMsgs
      <3>1. PICK i \in DOMAIN delivered : k \in delivered[i]
        BY <2>2 DEF DeliveredMsgs
      <3>2. i \in DOMAIN delivered' /\ k \in delivered'[i]
        BY <1>1, <3>1
      <3> QED
        BY <3>2 DEF DeliveredMsgs
    <2> QED
      BY <1>3, <2>1, <2>2
  <1> QED
    BY <1>2, <1>3

\* What Advance hands over is the message at tail.
LEMMA AdvanceStep ==
    ASSUME RInv, Advance, ~misread', ~strayed'
    PROVE  /\ Active /\ RecordsInv'
           /\ RecMsg(tail) \in published /\ delivered' = Append(delivered, {RecMsg(tail)})
           /\ DeliveredMsgs' = DeliveredMsgs \cup {RecMsg(tail)}
           /\ \A m \in DeliveredMsgs : m[1] = RecMsg(tail)[1] => m[2] < RecMsg(tail)[2]
  <1>1. /\ UNCHANGED <<head, mem, unmarked, published, acked, dropped, crashes, restarts,
                       spc, sent, ssize, sgen, shead, misread, strayed>>
        /\ rpc = "advance" /\ rpc' = "load" /\ tail' = tail + rsize
        /\ delivered' = IF rpayload = {} THEN delivered ELSE Append(delivered, rpayload)
    BY DEF Advance, Past, senders, locals, faults
  <1>2. Active
    BY <1>1 DEF RInv, PhaseInv, Active
  <1>3. IInv /\ Reader
    BY <1>2, Opening
  <1>4. PICK P \in SUBSET Nat, sz \in [Nat -> Nat] : Records(P, sz)
    BY <1>2, Opening
  <1>5. tail < head /\ Committed(tail) /\ rsize = At(tail).size /\ rpayload = {RecMsg(tail)}
    BY <1>1, <1>3 DEF Reader
  <1>6. tail \in P
    BY <1>3, <1>4, <1>5, TailFacts DEF Records
  <1>7. At(tail).size = sz[tail] /\ RecMsg(tail) \in published
    BY <1>4, <1>5, <1>6 DEF Records, Marks, RowMarked, Committed
  <1>8. Consumed(P, sz)
    BY <1>1, <1>5, <1>6, <1>7 DEF Consumed
  <1>9. delivered' = Append(delivered, {RecMsg(tail)})
    BY <1>1, <1>5
  <1>10. DeliveredMsgs' = DeliveredMsgs \cup {RecMsg(tail)}
    <2>1. delivered \in Seq(SUBSET (Msgs \cup {None})) /\ published \subseteq Msgs
      BY <1>3 DEF IInv, TypeOK
    <2>2. {RecMsg(tail)} \in SUBSET (Msgs \cup {None})
      BY <1>7, <2>1
    <2>3. PICK m : m = RecMsg(tail)
      OBVIOUS
    <2>4. DeliveredMsgs' = DeliveredMsgs \cup {m}
      BY <1>9, <2>1, <2>2, <2>3, DeliveredGrows
    <2> QED
      BY <2>3, <2>4
  <1>11. RecordsInv'
    BY <1>2, <1>4, <1>5, <1>8, <1>10, ConsumeRec
  <1>12. \A m \in DeliveredMsgs : m[1] = RecMsg(tail)[1] => m[2] < RecMsg(tail)[2]
    BY <1>4, <1>5, <1>6 DEF Records, Order
  <1> QED
    BY <1>2, <1>7, <1>9, <1>10, <1>11, <1>12

\* An empty ring with nobody inside.
LEMMA EmptyRec ==
    ASSUME tail' = head', head' \in Nat, unmarked' = {}, \A s \in Senders : ~Inside(s)', Reader', Admitted',
           published' \subseteq DeliveredMsgs' \cup dropped'
    PROVE  RecordsInv'
  <1>1. PICK sz \in [Nat -> Nat] : sz = [n \in Nat |-> 0]
    OBVIOUS
  <1>2. Shape({}, sz)' /\ Marks({}, sz)'
    <2>1. PICK h \in Nat : h = head'
      OBVIOUS
    <2>2. h <= h /\ h <= h + BlockSize
      BY Constants
    <2>3. tail' <= head' /\ head' <= tail' + BlockSize /\ tail' \in {} \cup {head'}
      BY <2>1, <2>2
    <2>4. Shape({}, sz)'
      BY <2>3 DEF Shape
    <2>5. Marks({}, sz)'
      BY DEF Marks
    <2> QED
      BY <2>4, <2>5
  <1>3. Owners({}, sz)'
    BY DEF Owners
  <1>4. Order({})' /\ Kept({})'
    BY DEF Order, Kept
  <1>5. Wraps({}, sz)'
    BY DEF Wraps, Inside
  <1> QED
    BY <1>2, <1>3, <1>4, <1>5, Closing

LEMMA FlushRec ==
    ASSUME RInv, rpc = "inspect", FlushBacklog, misread => misread', Active'
    PROVE  RecordsInv'
  <1>1. /\ UNCHANGED <<head, published, delivered, spc, ssize, shead>>
        /\ tail' = head /\ rpc' = "wait" /\ unmarked' = {p \in unmarked : p >= head}
        /\ dropped' = dropped \cup ((published \cup {Msg(s) : s \in {s \in Senders : Inside(s) \/ spc[s] = "post"}})
                                      \ DeliveredMsgs)
        /\ strayed' = (strayed \/ Writers # {})
    BY DEF FlushBacklog, Discard, senders, locals
  <1>2. Active
    BY <1>1, Reading
  <1>3. IInv /\ Admitted
    BY <1>2, Opening
  <1>4. PICK P \in SUBSET Nat, sz \in [Nat -> Nat] : Shape(P, sz) /\ Marks(P, sz)
    BY <1>2, Opening DEF Records
  <1>5. tail \in Nat /\ head \in Nat /\ tail <= head
    BY <1>3, <1>4, Basics, TailFacts
  <1>6. unmarked' = {}
    <2>1. \A p \in P : p \in Nat /\ p < head
      BY <1>4, <1>5, RecordFacts
    <2>2. unmarked \subseteq P
      BY <1>4 DEF Marks
    <2>3. \A p \in unmarked : ~(p >= head)
      BY <1>5, <2>1, <2>2
    <2> QED
      BY <1>1, <2>3
  <1>7. \A s \in Senders : ~Inside(s)'
    BY <1>1 DEF Active, Writers, Inside
  <1>8. DeliveredMsgs' = DeliveredMsgs
    BY <1>1 DEF DeliveredMsgs
  <1>9. published' \subseteq DeliveredMsgs' \cup dropped'
    BY <1>1, <1>8
  <1>10. Reader'
    BY <1>1 DEF Reader
  <1>11. Admitted'
    BY <1>1, <1>3, <1>5, AdmittedFrame
  <1> QED
    BY <1>1, <1>5, <1>6, <1>7, <1>9, <1>10, <1>11, EmptyRec
-----------------------------------------------------------------------------
(* The re-init. *)

LEMMA ReinitHeadRec ==
    ASSUME RInv, ReinitHead, ~misread', ~strayed'
    PROVE  RecordsInv' /\ ZeroInv' /\ RemakeInv'
  <1>1. /\ UNCHANGED <<state, tail, published, delivered, spc, ssize, shead, misread>>
        /\ head' = 0 /\ rpc' = "zerotail" /\ unmarked' = {}
        /\ published \subseteq DeliveredMsgs \cup dropped'
        /\ strayed' = (strayed \/ Reservers # {})
    BY DEF ReinitHead, Discard, senders, locals
  <1>2. \A s \in Senders : ~Inside(s) /\ spc[s] # "cas"
    BY <1>1 DEF Reservers
  <1>3. DeliveredMsgs' = DeliveredMsgs /\ \A s \in Senders : ~Inside(s)' /\ spc'[s] # "cas"
    BY <1>1, <1>2 DEF DeliveredMsgs, Inside
  <1>4. RecordsInv'
    <2>1. CASE tail = 0
      <3>1. Reader' /\ Admitted'
        BY <1>1, <1>3 DEF Reader, Admitted
      <3>2. tail' = head' /\ head' \in Nat
        BY <1>1, <2>1
      <3> QED
        BY <1>1, <1>3, <3>1, <3>2, EmptyRec
    <2>2. CASE tail # 0
      <3>1. ~Active'
        BY <1>1, <2>2 DEF Active, RInv, PhaseInv, ReinitHead
      <3> QED
        BY <3>1 DEF RecordsInv
    <2> QED
      BY <2>1, <2>2
  <1>5. ZeroInv'
    BY <1>1, <1>3 DEF ZeroInv
  <1>6. RemakeInv'
    BY <1>1, <1>3 DEF RemakeInv, Inside
  <1> QED
    BY <1>4, <1>5, <1>6

LEMMA ReinitTailRec ==
    ASSUME RInv, ReinitTail, Active'
    PROVE  RecordsInv'
  <1>1. /\ UNCHANGED <<state, head, mem, unmarked, published, acked, delivered, dropped, crashes, restarts,
                       spc, sent, ssize, sgen, shead, misread>>
        /\ tail' = 0 /\ rpc = "zerotail" /\ rpc' = "ready"
        /\ strayed' = (strayed \/ Reservers # {})
    BY DEF ReinitTail, senders, locals, faults
  <1>2. ~misread /\ ~strayed /\ \A s \in Senders : ~Inside(s) /\ spc[s] # "cas"
    BY <1>1 DEF Active, Reservers
  <1>3. tail \in Nat
    BY Basics DEF RInv
  <1>4. Reader' /\ (Faultless' => Faultless)
    BY <1>1 DEF Reader, Faultless
  <1>5. CASE tail = 0
    <2>1. Active
      BY <1>1, <1>2, <1>5 DEF Active
    <2> QED
      BY <1>1, <1>4, <1>5, <2>1, LookRec
  <1>6. CASE tail # 0
    <2>1. head = 0 /\ unmarked = {} /\ published \subseteq DeliveredMsgs \cup dropped
      BY <1>1, <1>2, <1>3, <1>6 DEF RInv, ZeroInv
    <2>2. DeliveredMsgs' = DeliveredMsgs /\ \A s \in Senders : ~Inside(s)' /\ spc'[s] # "cas"
      BY <1>1, <1>2 DEF DeliveredMsgs, Inside
    <2>3. Admitted'
      BY <2>2 DEF Admitted
    <2>4. tail' = head' /\ head' \in Nat
      BY <1>1, <2>1
    <2> QED
      BY <1>1, <1>4, <2>1, <2>2, <2>3, <2>4, EmptyRec
  <1> QED
    BY <1>5, <1>6

LEMMA ReinitReadyRec ==
    ASSUME RInv, ReinitReady, Active'
    PROVE  RecordsInv'
  <1>1. /\ UNCHANGED <<head, tail, sem, mem, unmarked, published, acked, delivered, crashes, restarts,
                       spc, sent, ssize, sgen, shead, misread>>
        /\ rpc = "ready" /\ rpc' = "wait" /\ published \subseteq DeliveredMsgs \cup dropped'
        /\ strayed' = (strayed \/ Reservers # {})
    BY DEF ReinitReady, Discard, senders, locals, faults
  <1>2. Active /\ \A s \in Senders : ~Inside(s) /\ spc[s] # "cas"
    BY <1>1 DEF Active, Reservers
  <1>3. IInv
    BY DEF RInv
  <1>4. PICK P \in SUBSET Nat, sz \in [Nat -> Nat] : Records(P, sz)
    BY <1>2, Opening
  <1>5. Shape(P, sz) /\ Marks(P, sz) /\ Owners(P, sz) /\ Order(P) /\ Kept(P) /\ Wraps(P, sz)
    BY <1>4 DEF Records
  <1>6. \A t \in Senders : Stays(t)
    BY <1>1 DEF Stays, Inside
  <1>7. Shape(P, sz)' /\ Marks(P, sz)' /\ Owners(P, sz)'
    BY <1>1, <1>5, <1>6, QuietStructure
  <1>8. Order(P)'
    BY <1>1, <1>5, <1>6, QuietOrder
  <1>9. Kept(P)'
    <2>1. DeliveredMsgs' = DeliveredMsgs
      BY <1>1 DEF DeliveredMsgs
    <2>2. \A p \in P : ~Committed(p)'
      <3>1. \A p \in P : ~Committed(p)
        BY <1>1, <1>5 DEF Kept
      <3> QED
        BY <1>1, <3>1, SameBytes
    <2> QED
      BY <1>1, <2>1, <2>2 DEF Kept
  <1>10. Wraps(P, sz)'
    <2>1. Faultless' => Faultless
      BY <1>1 DEF Faultless
    <2>2. Faultless => P = {}
      <3>1. Faultless => head = 0
        BY <1>1, <1>2 DEF RInv, PhaseInv, CalmInv, Active, Faultless
      <3>2. tail \in Nat /\ tail <= head /\ (tail = head => P = {})
        BY <1>3, <1>5, Basics, TailFacts
      <3> QED
        BY <3>1, <3>2
    <2> QED
      BY <1>1, <1>5, <1>6, <2>1, <2>2, QuietWraps
  <1>11. Reader' /\ Admitted'
    BY <1>1, <1>2 DEF Reader, Admitted
  <1> QED
    BY <1>7, <1>8, <1>9, <1>10, <1>11, Closing

LEMMA ReinitEarlyRec ==
    ASSUME ReinitBegin \/ (ReinitGeneration /\ PhaseInv)
    PROVE  RecordsInv'
  <1>1. state' = "INITING" /\ rpc' \in {"bump", "zerohead"}
    BY DEF ReinitBegin, ReinitGeneration, PhaseInv
  <1> QED
    BY <1>1 DEF RecordsInv, Active
-----------------------------------------------------------------------------
(* The other parts of the invariant see a step as one of a few moves. *)

\* Sender s moves from one place in send to another.
From(s, here, there) ==
    /\ spc[s] \in here /\ spc'[s] \in there
    /\ \A t \in Senders \ {s} : SameSender(t)
Retains == UNCHANGED <<head, unmarked, published, acked>>

Calls(s) ==
    /\ From(s, {"idle"}, {"idle", "gen"}) /\ Retains /\ sent'[s] = sent[s] + 1
    /\ state # "READY" => spc'[s] = "idle"
Leaves(s) ==
    /\ From(s, SenderPCs \ {"idle"}, {"idle"}) /\ sent'[s] = sent[s]
    /\ UNCHANGED <<head, unmarked, published>>
    /\ acked' = acked \/ (spc[s] = "post" /\ acked' = acked \cup {Msg(s)})
Tries(s) ==
    /\ From(s, {"gen", "head", "tail", "cas"}, {"head", "tail", "cas"}) /\ Retains /\ sent'[s] = sent[s]
    /\ sgen'[s] = sgen[s] \/ (spc[s] = "gen" /\ sgen'[s] = generation)
    /\ spc[s] = "gen" => sgen'[s] = generation
    /\ spc'[s] = "cas" => tail <= shead'[s]
Reserves(s) ==
    /\ From(s, {"cas"}, {"wraphdr", "check"}) /\ head = shead[s]
    /\ UNCHANGED <<published, acked>> /\ sent'[s] = sent[s] /\ sgen'[s] = sgen[s]
Writes(s) ==
    /\ From(s, {"wraphdr", "wrap", "check", "write", "copy"}, {"wrap", "tail", "write", "copy", "commit"})
    /\ UNCHANGED <<head, published, acked>> /\ sent'[s] = sent[s] /\ sgen'[s] = sgen[s]
    /\ spc'[s] = "write" => state = "READY"
    /\ spc[s] \in {"wraphdr", "wrap"} => spc'[s] \in {"wrap", "tail"}
    /\ spc[s] = "check" => spc'[s] = "write"
Publishes(s) ==
    /\ From(s, {"commit"}, {"post"}) /\ sent'[s] = sent[s] /\ sgen'[s] = sgen[s]
    /\ published' = published \cup {Msg(s)} /\ UNCHANGED <<head, acked>>

\* What a sender never touches.
NotMine ==
    UNCHANGED <<state, generation, tail, rpc, rsize, rpayload, restarts, delivered, dropped, misread, strayed>>

LEMMA SenderMoves ==
    ASSUME IInv, NEW s \in Senders,
           (\E n \in MsgSizes : Send(s, n)) \/ SenderStep(s) \/ SenderCrash(s)
    PROVE  /\ NotMine
           /\ Calls(s) \/ Leaves(s) \/ Tries(s) \/ Reserves(s) \/ Writes(s) \/ Publishes(s)
  <1>0. /\ spc \in [Senders -> SenderPCs] /\ ssize \in [Senders -> Nat] /\ sent \in [Senders -> 0 .. MaxSends]
        /\ shead \in [Senders -> Nat] /\ sgen \in [Senders -> Nat]
    BY Basics
  <1>1. ASSUME NEW n \in MsgSizes, Send(s, n) PROVE NotMine /\ Calls(s)
    <2>1. NotMine /\ Retains
      BY <1>1 DEF Send, NotMine, Retains, block, worker, faults, history
    <2>2. From(s, {"idle"}, {"idle", "gen"}) /\ sent'[s] = sent[s] + 1 /\ (state # "READY" => spc'[s] = "idle")
      BY <1>0, <1>1 DEF Send, Goto, From, SameSender
    <2> QED
      BY <2>1, <2>2 DEF Calls
  <1>2. ASSUME LoadGeneration(s) PROVE NotMine /\ (Leaves(s) \/ Tries(s))
    <2>1. CASE Reserved(ssize[s]) > BlockSize
      <3>1. spc[s] = "gen" /\ Return(s, "SizeTooLarge")
        BY <1>2, <2>1 DEF LoadGeneration
      <3>2. NotMine /\ Retains
        BY <3>1 DEF Return, NotMine, Retains, block, worker, faults, history
      <3>3. From(s, SenderPCs \ {"idle"}, {"idle"}) /\ sent'[s] = sent[s]
        BY <1>0, <3>1 DEF Return, Finish, From, SameSender, SenderPCs
      <3> QED
        BY <3>2, <3>3 DEF Leaves, Retains
    <2>2. CASE ~(Reserved(ssize[s]) > BlockSize)
      <3>1. NotMine /\ Retains
        BY <1>2, <2>2 DEF LoadGeneration, NotMine, Retains, block, worker, faults, history
      <3>2. /\ From(s, {"gen", "head", "tail", "cas"}, {"head", "tail", "cas"}) /\ sent'[s] = sent[s]
            /\ sgen'[s] = generation /\ spc[s] = "gen" /\ spc'[s] = "head"
        BY <1>0, <1>2, <2>2 DEF LoadGeneration, Goto, From, SameSender
      <3> QED
        BY <3>1, <3>2 DEF Tries
    <2> QED
      BY <2>1, <2>2
  <1>3. ASSUME LoadHead(s) PROVE NotMine /\ Tries(s)
    <2>1. NotMine /\ Retains
      BY <1>3 DEF LoadHead, NotMine, Retains, block, worker, faults, history
    <2>2. /\ From(s, {"gen", "head", "tail", "cas"}, {"head", "tail", "cas"}) /\ sent'[s] = sent[s]
          /\ sgen'[s] = sgen[s] /\ spc[s] = "head" /\ spc'[s] = "tail"
      BY <1>0, <1>3 DEF LoadHead, Goto, From, SameSender
    <2> QED
      BY <2>1, <2>2 DEF Tries
  <1>4. ASSUME Admit(s) PROVE NotMine /\ Tries(s)
    <2>1. NotMine /\ Retains
      BY <1>4 DEF Admit, Continue, NotMine, Retains, block, worker, faults, history
    <2>2. /\ From(s, {"gen", "head", "tail", "cas"}, {"head", "tail", "cas"}) /\ sent'[s] = sent[s]
          /\ sgen'[s] = sgen[s] /\ spc[s] = "tail" /\ shead'[s] = shead[s]
      BY <1>0, <1>4 DEF Admit, Continue, Goto, locals, From, SameSender
    <2>3. tail <= shead[s]
      BY <1>4, Verdicts DEF Admit
    <2> QED
      BY <2>1, <2>2, <2>3 DEF Tries
  <1>5. ASSUME Reload(s) PROVE NotMine /\ Tries(s)
    <2>1. NotMine /\ Retains
      BY <1>5 DEF Reload, NotMine, Retains, block, worker, faults, history
    <2>2. /\ From(s, {"gen", "head", "tail", "cas"}, {"head", "tail", "cas"}) /\ sent'[s] = sent[s]
          /\ sgen'[s] = sgen[s] /\ spc[s] = "tail" /\ spc'[s] = "head"
      BY <1>0, <1>5 DEF Reload, Goto, From, SameSender
    <2> QED
      BY <2>1, <2>2 DEF Tries
  <1>6. ASSUME CasFail(s) PROVE NotMine /\ Tries(s)
    <2>1. NotMine /\ Retains
      BY <1>6 DEF CasFail, NotMine, Retains, block, worker, faults, history
    <2>2. /\ From(s, {"gen", "head", "tail", "cas"}, {"head", "tail", "cas"}) /\ sent'[s] = sent[s]
          /\ sgen'[s] = sgen[s] /\ spc[s] = "cas" /\ spc'[s] = "tail"
      BY <1>0, <1>6 DEF CasFail, Goto, From, SameSender
    <2> QED
      BY <2>1, <2>2 DEF Tries
  <1>7. ASSUME Reject(s) \/ Abandon(s) PROVE NotMine /\ Leaves(s)
    <2>1. PICK code : Return(s, code) /\ spc[s] \in {"tail", "check"}
      BY <1>7 DEF Reject, Abandon
    <2>2. NotMine /\ Retains
      BY <2>1 DEF Return, NotMine, Retains, block, worker, faults, history
    <2>3. From(s, SenderPCs \ {"idle"}, {"idle"}) /\ sent'[s] = sent[s]
      BY <1>0, <2>1 DEF Return, Finish, From, SameSender, SenderPCs
    <2> QED
      BY <2>2, <2>3 DEF Leaves, Retains
  <1>8. ASSUME CasWrap(s) \/ CasData(s) PROVE NotMine /\ Reserves(s)
    <2>1. PICK n, pc : Reserve(s, n, pc) /\ pc \in {"wraphdr", "check"} /\ spc[s] = "cas" /\ head = shead[s]
      BY <1>8 DEF CasWrap, CasData, HeadIsMine
    <2>2. NotMine /\ UNCHANGED <<published, acked>>
      BY <2>1 DEF Reserve, NotMine, worker, faults
    <2>3. From(s, {"cas"}, {"wraphdr", "check"}) /\ sent'[s] = sent[s] /\ sgen'[s] = sgen[s]
      BY <1>0, <2>1 DEF Reserve, Goto, locals, From, SameSender
    <2> QED
      BY <2>1, <2>2, <2>3 DEF Reserves
  <1>9. ASSUME WriteWrapHeader(s) \/ WriteHeader(s) PROVE NotMine /\ Writes(s)
    <2>1. PICK size, len, pc : /\ Mark(s, size, len, pc)
                               /\ \/ spc[s] = "wraphdr" /\ pc = "wrap"
                                  \/ spc[s] = "write" /\ pc = "copy"
      BY <1>9 DEF WriteWrapHeader, WriteHeader
    <2>2. NotMine /\ UNCHANGED <<head, published, acked>>
      BY <2>1 DEF Mark, NotMine, block, worker, faults
    <2>3. spc'[s] = pc /\ sent'[s] = sent[s] /\ sgen'[s] = sgen[s] /\ \A t \in Senders \ {s} : SameSender(t)
      BY <1>0, <2>1 DEF Mark, Goto, locals, SameSender
    <2> QED
      BY <2>1, <2>2, <2>3 DEF Writes, From
  <1>10. ASSUME StoreWrap(s) PROVE NotMine /\ Writes(s)
    <2>1. NotMine /\ UNCHANGED <<head, published, acked>>
      BY <1>10 DEF StoreWrap, NotMine, block, worker, faults, history
    <2>2. /\ spc[s] = "wrap" /\ spc'[s] = "tail" /\ sent'[s] = sent[s] /\ sgen'[s] = sgen[s]
          /\ \A t \in Senders \ {s} : SameSender(t)
      BY <1>0, <1>10 DEF StoreWrap, Goto, SameSender
    <2> QED
      BY <2>1, <2>2 DEF Writes, From
  <1>11. ASSUME Proceed(s) PROVE NotMine /\ Writes(s)
    <2>1. NotMine /\ UNCHANGED <<head, published, acked>>
      BY <1>11 DEF Proceed, Continue, NotMine, block, worker, faults, history
    <2>2. /\ spc[s] = "check" /\ spc'[s] = "write" /\ sent'[s] = sent[s] /\ sgen'[s] = sgen[s]
          /\ \A t \in Senders \ {s} : SameSender(t)
      BY <1>0, <1>11 DEF Proceed, Continue, Goto, locals, SameSender
    <2>3. state = "READY"
      BY <1>11 DEF Proceed, SameBlock
    <2> QED
      BY <2>1, <2>2, <2>3 DEF Writes, From
  <1>12. ASSUME WritePayload(s) PROVE NotMine /\ Writes(s)
    <2>1. NotMine /\ UNCHANGED <<head, published, acked>>
      BY <1>12 DEF WritePayload, NotMine, block, worker, faults, history
    <2>2. /\ spc[s] = "copy" /\ spc'[s] = "commit" /\ sent'[s] = sent[s] /\ sgen'[s] = sgen[s]
          /\ \A t \in Senders \ {s} : SameSender(t)
      BY <1>0, <1>12 DEF WritePayload, Goto, locals, SameSender
    <2> QED
      BY <2>1, <2>2 DEF Writes, From
  <1>13. ASSUME Commit(s) PROVE NotMine /\ Publishes(s)
    <2>1. NotMine /\ UNCHANGED <<head, acked>> /\ published' = published \cup {Msg(s)}
      BY <1>13 DEF Commit, NotMine, block, worker, faults
    <2>2. From(s, {"commit"}, {"post"}) /\ sent'[s] = sent[s] /\ sgen'[s] = sgen[s]
      BY <1>0, <1>13 DEF Commit, Goto, locals, From, SameSender
    <2> QED
      BY <2>1, <2>2 DEF Publishes
  <1>14. ASSUME Post(s) PROVE NotMine /\ Leaves(s)
    <2>1. NotMine /\ UNCHANGED <<head, unmarked, published>> /\ acked' = acked \cup {Msg(s)} /\ spc[s] = "post"
      BY <1>14 DEF Post, NotMine, worker, faults
    <2>2. From(s, SenderPCs \ {"idle"}, {"idle"}) /\ sent'[s] = sent[s]
      BY <1>0, <1>14 DEF Post, Finish, From, SameSender, SenderPCs
    <2> QED
      BY <2>1, <2>2 DEF Leaves
  <1>15. ASSUME SenderCrash(s) PROVE NotMine /\ Leaves(s)
    <2>1. NotMine /\ Retains
      BY <1>15 DEF SenderCrash, NotMine, Retains, block, worker, history
    <2>2. From(s, SenderPCs \ {"idle"}, {"idle"}) /\ sent'[s] = sent[s]
      BY <1>0, <1>15 DEF SenderCrash, Finish, From, SameSender, SenderPCs
    <2> QED
      BY <2>1, <2>2 DEF Leaves, Retains
  <1> QED
    BY <1>1, <1>2, <1>3, <1>4, <1>5, <1>6, <1>7, <1>8, <1>9, <1>10, <1>11, <1>12, <1>13, <1>14, <1>15
    DEF SenderStep

LEMMA SenderNumbers ==
    ASSUME IInv, NumberInv, NEW s \in Senders,
           Calls(s) \/ Leaves(s) \/ Tries(s) \/ Reserves(s) \/ Writes(s) \/ Publishes(s)
    PROVE  NumberInv'
  <1>0. /\ spc \in [Senders -> SenderPCs] /\ sent \in [Senders -> 0 .. MaxSends] /\ published \subseteq Msgs
        /\ acked \subseteq Msgs /\ MaxSends \in Nat
    BY Basics, BoundsAssumption
  <1>1. /\ \A t \in Senders : sent[t] \in Nat
        /\ \A m \in published : m[1] \in Senders /\ m[2] \in Nat
        /\ \A m \in acked : m \in published
    BY <1>0 DEF NumberInv, Msgs
  <1>2. \A t \in Senders \ {s} : spc'[t] = spc[t] /\ sent'[t] = sent[t]
    BY DEF Calls, Leaves, Tries, Reserves, Writes, Publishes, From, SameSender
  <1>3. Msg(s) = <<s, sent[s]>>
    BY DEF Msg
  <1>4. /\ \A m \in published : m[2] <= sent[m[1]] /\ (spc[m[1]] \notin {"idle", "post"} => m[2] < sent[m[1]])
        /\ \A m \in acked : spc[m[1]] # "idle" => m[2] < sent[m[1]]
        /\ \A t \in Senders : spc[t] = "post" => Msg(t) \in published
        /\ acked \subseteq published
    BY DEF NumberInv
  <1>5. CASE Calls(s)
    <2>1. /\ spc[s] = "idle" /\ spc'[s] \in {"idle", "gen"} /\ sent'[s] = sent[s] + 1
          /\ published' = published /\ acked' = acked
      BY <1>5 DEF Calls, From, Retains
    <2>2. ASSUME NEW m \in published PROVE m[2] <= sent'[m[1]] /\ (spc'[m[1]] # "idle" /\ m[1] = s => m[2] < sent'[m[1]])
      BY <1>1, <1>2, <1>4, <2>1, <2>2
    <2>3. ASSUME NEW t \in Senders, spc'[t] = "post" PROVE Msg(t)' \in published
      BY <1>2, <1>4, <2>1, <2>3 DEF Msg
    <2>4. ASSUME NEW m \in published, spc'[m[1]] \notin {"idle", "post"} PROVE m[2] < sent'[m[1]]
      BY <1>1, <1>2, <1>4, <2>2, <2>4
    <2>5. ASSUME NEW m \in acked, spc'[m[1]] # "idle" PROVE m[2] < sent'[m[1]]
      BY <1>1, <1>2, <1>4, <2>2, <2>5
    <2> QED
      BY <1>4, <2>1, <2>2, <2>3, <2>4, <2>5 DEF NumberInv
  <1>6. CASE Tries(s) \/ Reserves(s) \/ Writes(s)
    <2>1. /\ spc[s] \notin {"idle", "post"} /\ spc'[s] \notin {"idle", "post"} /\ sent'[s] = sent[s]
          /\ published' = published /\ acked' = acked
      BY <1>6 DEF Tries, Reserves, Writes, From, Retains
    <2>2. \A t \in Senders : sent'[t] = sent[t] /\ Msg(t)' = Msg(t)
      BY <1>2, <2>1 DEF Msg
    <2> QED
      BY <1>1, <1>2, <1>4, <2>1, <2>2 DEF NumberInv
  <1>7. CASE Leaves(s)
    <2>1. /\ spc[s] # "idle" /\ spc'[s] = "idle" /\ sent'[s] = sent[s] /\ published' = published
          /\ acked' = acked \/ (spc[s] = "post" /\ acked' = acked \cup {Msg(s)})
      BY <1>7 DEF Leaves, From
    <2>2. \A t \in Senders : sent'[t] = sent[t] /\ Msg(t)' = Msg(t)
      BY <1>2, <2>1 DEF Msg
    <2>3. ASSUME NEW m \in acked', spc'[m[1]] # "idle" PROVE m[2] < sent'[m[1]]
      BY <1>1, <1>2, <1>3, <1>4, <2>1, <2>3
    <2>4. acked' \subseteq published'
      BY <1>4, <2>1
    <2> QED
      BY <1>1, <1>2, <1>4, <2>1, <2>2, <2>3, <2>4 DEF NumberInv
  <1>8. CASE Publishes(s)
    <2>1. /\ spc[s] = "commit" /\ spc'[s] = "post" /\ sent'[s] = sent[s] /\ published' = published \cup {Msg(s)}
          /\ acked' = acked
      BY <1>8 DEF Publishes, From
    <2>2. \A t \in Senders : sent'[t] = sent[t] /\ Msg(t)' = Msg(t)
      BY <1>2, <2>1 DEF Msg
    <2>3. ASSUME NEW m \in published'
          PROVE  m[2] <= sent'[m[1]] /\ (spc'[m[1]] \notin {"idle", "post"} => m[2] < sent'[m[1]])
      <3>1. CASE m \in published
        BY <1>1, <1>2, <1>4, <2>1, <2>2, <3>1
      <3>2. CASE m = Msg(s)
        <4>1. m[1] = s /\ m[2] = sent[s]
          BY <1>3, <3>2
        <4> QED
          BY <1>1, <2>1, <2>2, <4>1
      <3> QED
        BY <2>1, <2>3, <3>1, <3>2
    <2>4. \A m \in acked' : spc'[m[1]] # "idle" => m[2] < sent'[m[1]]
      BY <1>1, <1>2, <1>4, <2>1, <2>2
    <2>5. \A t \in Senders : spc'[t] = "post" => Msg(t)' \in published'
      BY <1>2, <1>4, <2>1, <2>2
    <2> QED
      BY <1>4, <2>1, <2>3, <2>4, <2>5 DEF NumberInv
  <1> QED
    BY <1>5, <1>6, <1>7, <1>8

LEMMA SenderRest ==
    ASSUME RInv, NEW s \in Senders, NotMine,
           Calls(s) \/ Leaves(s) \/ Tries(s) \/ Reserves(s) \/ Writes(s) \/ Publishes(s)
    PROVE  PhaseInv' /\ ZeroInv' /\ RemakeInv' /\ CalmInv' /\ IntactDelivery' /\ SenderFIFO'
  <1>0. UNCHANGED <<state, generation, tail, rpc, restarts, delivered, dropped, misread, strayed>>
    BY DEF NotMine
  <1>1. \A t \in Senders \ {s} : SameSender(t)
    BY DEF Calls, Leaves, Tries, Reserves, Writes, Publishes, From
  <1>2. PhaseInv'
    BY <1>0 DEF RInv, PhaseInv
  <1>3. ASSUME ~misread', ~strayed', rpc' = "zerotail", tail' > 0
        PROVE  /\ head' = 0 /\ unmarked' = {} /\ published' \subseteq DeliveredMsgs' \cup dropped'
               /\ \A t \in Senders : ~Inside(t)' /\ (spc'[t] = "cas" => tail' <= shead'[t])
    <2>1. /\ head = 0 /\ unmarked = {} /\ published \subseteq DeliveredMsgs \cup dropped
          /\ \A t \in Senders : ~Inside(t) /\ (spc[t] = "cas" => tail <= shead[t])
      BY <1>0, <1>3 DEF RInv, ZeroInv
    <2>2. tail \in Nat /\ shead[s] \in Nat
      BY Basics DEF RInv
    <2>3. ~Reserves(s)
      BY <1>0, <1>3, <2>1, <2>2 DEF Reserves, From
    <2>4. ~Writes(s) /\ ~Publishes(s)
      BY <2>1 DEF Writes, Publishes, From, Inside
    <2>5. /\ UNCHANGED <<head, unmarked, published>> /\ ~Inside(s)' /\ (spc'[s] = "cas" => tail <= shead'[s])
      BY <2>3, <2>4 DEF Calls, Leaves, Tries, From, Retains, Inside
    <2>6. \A t \in Senders \ {s} : ~Inside(t)' /\ (spc'[t] = "cas" => tail <= shead'[t])
      BY <1>1, <2>1 DEF SameSender, Inside
    <2>7. DeliveredMsgs' = DeliveredMsgs
      BY <1>0 DEF DeliveredMsgs
    <2> QED
      BY <1>0, <2>1, <2>5, <2>6, <2>7
  <1>4. ZeroInv'
    BY <1>3 DEF ZeroInv
  <1>5. ASSUME ~misread', ~strayed', rpc' \in {"zerotail", "ready"}, NEW t \in Senders
        PROVE  spc'[t] \notin {"write", "copy", "commit"}
    <2>1. spc[t] \notin {"write", "copy", "commit"} /\ spc[s] \notin {"write", "copy", "commit"} /\ state # "READY"
      BY <1>0, <1>5 DEF RInv, RemakeInv, PhaseInv
    <2>2. CASE t = s
      BY <2>1, <2>2 DEF Calls, Leaves, Tries, Reserves, Writes, Publishes, From
    <2>3. CASE t # s
      BY <1>1, <2>1, <2>3 DEF SameSender
    <2> QED
      BY <2>2, <2>3
  <1>6. RemakeInv'
    BY <1>5 DEF RemakeInv
  <1>7. ASSUME ~misread', ~strayed', restarts' = 0, state' = "READY"
        PROVE  /\ rpc' \notin {"reinit", "down"}
               /\ \A t \in Senders : spc'[t] \notin {"idle", "gen"} => sgen'[t] = generation'
    <2>1. /\ rpc \notin {"reinit", "down"}
          /\ \A t \in Senders : spc[t] \notin {"idle", "gen"} => sgen[t] = generation
      BY <1>0, <1>7 DEF RInv, CalmInv
    <2>2. spc'[s] \notin {"idle", "gen"} => sgen'[s] = generation
      BY <2>1 DEF Calls, Leaves, Tries, Reserves, Writes, Publishes, From
    <2>3. \A t \in Senders \ {s} : spc'[t] \notin {"idle", "gen"} => sgen'[t] = generation
      BY <1>1, <2>1 DEF SameSender
    <2> QED
      BY <1>0, <2>1, <2>2, <2>3
  <1>8. ASSUME ~misread', ~strayed', restarts' = 0, state' # "READY"
        PROVE  head' = 0 /\ \A t \in Senders : spc'[t] = "idle"
    <2>1. head = 0 /\ state # "READY" /\ \A t \in Senders : spc[t] = "idle"
      BY <1>0, <1>8 DEF RInv, CalmInv
    <2>2. Calls(s)
      BY <2>1 DEF Leaves, Tries, Reserves, Writes, Publishes, From
    <2>3. head' = 0 /\ spc'[s] = "idle"
      BY <2>1, <2>2 DEF Calls, Retains
    <2> QED
      BY <1>1, <2>1, <2>3 DEF SameSender
  <1>9. CalmInv'
    BY <1>7, <1>8 DEF CalmInv
  <1>10. published \subseteq published'
    BY DEF Calls, Leaves, Tries, Reserves, Writes, Publishes, Retains
  <1>11. IntactDelivery' /\ SenderFIFO'
    <2>1. IntactDelivery'
      BY <1>0, <1>10 DEF RInv, IntactDelivery, OnlyPublishedDelivered, Clean
    <2>2. SenderFIFO'
      BY <1>0 DEF RInv, SenderFIFO, Clean
    <2> QED
      BY <2>1, <2>2
  <1> QED
    BY <1>2, <1>4, <1>6, <1>9, <1>11

\* A step of a sender keeps the invariant.
LEMMA SenderRInv ==
    ASSUME RInv, NEW s \in Senders,
           (\E n \in MsgSizes : Send(s, n)) \/ SenderStep(s) \/ SenderCrash(s)
    PROVE  RInv'
  <1>1. IInv /\ NumberInv
    BY DEF RInv
  <1>2. IInv'
    <2>1. Next
      BY DEF Next
    <2> QED
      BY <1>1, <2>1, NextInv
  <1>3. /\ NotMine
        /\ Calls(s) \/ Leaves(s) \/ Tries(s) \/ Reserves(s) \/ Writes(s) \/ Publishes(s)
    BY <1>1, SenderMoves
  <1>4. NumberInv'
    BY <1>1, <1>3, SenderNumbers
  <1>5. PhaseInv' /\ ZeroInv' /\ RemakeInv' /\ CalmInv' /\ IntactDelivery' /\ SenderFIFO'
    BY <1>3, SenderRest
  <1>6. RecordsInv'
    <2> SUFFICES ASSUME Active' PROVE RecordsInv'
      BY DEF RecordsInv
    <2>1. ASSUME NEW n \in MsgSizes, Send(s, n) PROVE RecordsInv'
      BY <2>1, SendRec
    <2>2. CASE SenderCrash(s)
      BY <2>2, SenderCrashRec
    <2>3. CASE LoadGeneration(s) \/ LoadHead(s) \/ Admit(s) \/ Reload(s) \/ Reject(s)
      BY <2>3, LoadGenerationRec, LoadHeadRec, AdmitRec, ReloadRec, RejectRec
    <2>4. CASE CasFail(s) \/ CasWrap(s) \/ CasData(s) \/ WriteWrapHeader(s) \/ StoreWrap(s)
      BY <2>4, CasFailRec, CasWrapRec, CasDataRec, WriteWrapHeaderRec, StoreWrapRec
    <2>5. CASE Proceed(s) \/ Abandon(s) \/ WriteHeader(s) \/ WritePayload(s) \/ Commit(s) \/ Post(s)
      BY <2>5, ProceedRec, AbandonRec, WriteHeaderRec, WritePayloadRec, CommitRec, PostRec
    <2> QED
      BY <2>1, <2>2, <2>3, <2>4, <2>5 DEF SenderStep
  <1> QED
    BY <1>2, <1>4, <1>5, <1>6 DEF RInv
-----------------------------------------------------------------------------
(* The steps of the reader. *)

\* What the reader never touches.
NotTheirs == UNCHANGED <<spc, sent, ssize, sgen, shead, published, acked, crashes>>

\* A step of the reader outside of a re-init: state, generation and head stay.
ReaderMove(here, there) ==
    /\ rpc \in here /\ rpc' \in there
    /\ NotTheirs /\ UNCHANGED <<state, generation, head, restarts>>
    /\ misread => misread'
    /\ strayed => strayed'

ReadingPCs == {"wait", "load", "inspect", "reload", "copy", "advance"}

\* The parts of the invariant that are not about the records.
Rest == PhaseInv /\ NumberInv /\ ZeroInv /\ RemakeInv /\ CalmInv /\ IntactDelivery /\ SenderFIFO

LEMMA NumbersKept ==
    ASSUME NumberInv, NotTheirs
    PROVE  NumberInv'
  BY DEF NumberInv, NotTheirs, Msg

LEMMA DeliveriesKept ==
    ASSUME IntactDelivery, SenderFIFO, published' = published, delivered' = delivered,
           misread => misread', strayed => strayed'
    PROVE  IntactDelivery' /\ SenderFIFO'
  <1>1. IntactDelivery'
    BY DEF IntactDelivery, OnlyPublishedDelivered, Clean
  <1>2. SenderFIFO'
    BY DEF SenderFIFO, Clean
  <1> QED
    BY <1>1, <1>2

\* A step that reads on.
LEMMA ReaderRest ==
    ASSUME RInv, ReaderMove(ReadingPCs, ReadingPCs), IntactDelivery', SenderFIFO'
    PROVE  Rest'
  <1>1. /\ rpc \in ReadingPCs /\ rpc' \in ReadingPCs /\ NotTheirs
        /\ UNCHANGED <<state, generation, head, restarts, spc, sgen>>
        /\ (misread => misread') /\ (strayed => strayed')
    BY DEF ReaderMove, NotTheirs
  <1>2. state = "READY"
    BY <1>1 DEF RInv, PhaseInv, ReadingPCs
  <1>3. PhaseInv'
    BY <1>1, <1>2 DEF PhaseInv, ReadingPCs
  <1>4. NumberInv'
    BY <1>1, NumbersKept DEF RInv
  <1>5. ZeroInv' /\ RemakeInv'
    BY <1>1 DEF ZeroInv, RemakeInv, ReadingPCs
  <1>6. CalmInv'
    BY <1>1, <1>2 DEF RInv, CalmInv, ReadingPCs
  <1> QED
    BY <1>3, <1>4, <1>5, <1>6 DEF Rest

LEMMA ReaderRInv ==
    ASSUME RInv, Wait \/ RecvLoad \/ Retry \/ TimeoutFlush \/ EpochFlush \/ SkipWrap
                 \/ ReloadHead \/ Found \/ Copy \/ Corrupted \/ Advance
    PROVE  Rest' /\ RecordsInv'
  <1>0. IntactDelivery /\ SenderFIFO
    BY DEF RInv
  <1>1. CASE Wait
    <2>1. ReaderMove(ReadingPCs, ReadingPCs) /\ UNCHANGED <<published, delivered>>
      BY <1>1 DEF Wait, ReaderMove, NotTheirs, ReadingPCs, senders, locals, faults, history
    <2>2. IntactDelivery' /\ SenderFIFO'
      BY <1>0, <2>1, DeliveriesKept DEF ReaderMove
    <2> QED
      BY <1>1, <2>1, <2>2, ReaderRest, WaitRec DEF RecordsInv
  <1>2. CASE RecvLoad
    <2>1. /\ rpc = "load" /\ NotTheirs /\ UNCHANGED <<state, generation, head, restarts, delivered, misread, strayed>>
          /\ rpc' = RecvEntry
      BY <1>2 DEF RecvLoad, Look, NotTheirs, block, senders, locals, faults, history
    <2>2. IntactDelivery' /\ SenderFIFO'
      BY <1>0, <2>1, DeliveriesKept DEF NotTheirs
    <2>3. CASE misread' \/ strayed'
      <3>1. state = "READY"
        BY <2>1 DEF RInv, PhaseInv
      <3>2. rpc' \in {"wait", "inspect", "reinit"}
        BY <2>1, <3>1 DEF RecvEntry
      <3>3. PhaseInv' /\ ZeroInv' /\ RemakeInv' /\ CalmInv' /\ RecordsInv'
        BY <2>1, <2>3, <3>1, <3>2 DEF PhaseInv, ZeroInv, RemakeInv, CalmInv, RecordsInv, Active
      <3>4. NumberInv'
        BY <2>1, NumbersKept DEF RInv
      <3> QED
        BY <2>2, <3>3, <3>4 DEF Rest
    <2>4. CASE ~misread' /\ ~strayed'
      <3>1. RecordsInv' /\ rpc' \in {"wait", "inspect"}
        BY <1>2, <2>4, RecvLoadStep
      <3>2. ReaderMove(ReadingPCs, ReadingPCs)
        BY <2>1, <3>1 DEF ReaderMove, ReadingPCs
      <3> QED
        BY <2>2, <3>1, <3>2, ReaderRest
    <2> QED
      BY <2>3, <2>4
  <1>3. CASE Retry
    <2>1. ReaderMove(ReadingPCs, ReadingPCs) /\ UNCHANGED <<published, delivered>>
      BY <1>3 DEF Retry, NotYetPublished, Look, ReaderMove, NotTheirs, ReadingPCs, block, senders, locals, faults, history
    <2>2. IntactDelivery' /\ SenderFIFO'
      BY <1>0, <2>1, DeliveriesKept DEF ReaderMove
    <2> QED
      BY <1>3, <2>1, <2>2, ReaderRest, RetryRec DEF RecordsInv
  <1>4. CASE TimeoutFlush \/ EpochFlush
    <2>1. rpc = "inspect" /\ FlushBacklog /\ (misread => misread')
      <3>1. CASE TimeoutFlush
        BY <3>1 DEF TimeoutFlush, NotYetPublished
      <3>2. CASE EpochFlush
        <4>1. rpc = "inspect" /\ FlushBacklog /\ Trust
          BY <3>2 DEF EpochFlush
        <4> QED
          BY <4>1 DEF Trust
      <3> QED
        BY <1>4, <3>1, <3>2
    <2>2. ReaderMove(ReadingPCs, ReadingPCs) /\ UNCHANGED <<published, delivered>>
      BY <2>1 DEF FlushBacklog, Discard, ReaderMove, NotTheirs, ReadingPCs, senders, locals, faults
    <2>3. IntactDelivery' /\ SenderFIFO'
      BY <1>0, <2>2, DeliveriesKept DEF ReaderMove
    <2> QED
      BY <2>1, <2>2, <2>3, ReaderRest, FlushRec DEF RecordsInv
  <1>5. CASE SkipWrap
    <2>1. ReaderMove(ReadingPCs, ReadingPCs) /\ UNCHANGED <<published, delivered>>
      BY <1>5 DEF SkipWrap, Trusted, Trust, ReaderMove, NotTheirs, ReadingPCs, senders, locals, faults
    <2>2. IntactDelivery' /\ SenderFIFO'
      BY <1>0, <2>1, DeliveriesKept DEF ReaderMove
    <2> QED
      BY <1>5, <2>1, <2>2, ReaderRest, SkipWrapRec DEF RecordsInv
  <1>6. CASE ReloadHead
    <2>1. ReaderMove(ReadingPCs, ReadingPCs) /\ UNCHANGED <<published, delivered>>
      BY <1>6 DEF ReloadHead, Look, ReaderMove, NotTheirs, ReadingPCs, block, senders, locals, faults, history
    <2>2. IntactDelivery' /\ SenderFIFO'
      BY <1>0, <2>1, DeliveriesKept DEF ReaderMove
    <2> QED
      BY <1>6, <2>1, <2>2, ReaderRest, ReloadHeadRec DEF RecordsInv
  <1>7. CASE Found
    <2>1. ReaderMove(ReadingPCs, ReadingPCs) /\ UNCHANGED <<published, delivered>>
      BY <1>7 DEF Found, Trusted, Trust, ReaderMove, NotTheirs, ReadingPCs, block, senders, locals, faults
    <2>2. IntactDelivery' /\ SenderFIFO'
      BY <1>0, <2>1, DeliveriesKept DEF ReaderMove
    <2> QED
      BY <1>7, <2>1, <2>2, ReaderRest, FoundRec DEF RecordsInv
  <1>8. CASE Copy
    <2>1. ReaderMove(ReadingPCs, ReadingPCs) /\ UNCHANGED <<published, delivered>>
      BY <1>8 DEF Copy, ReaderMove, NotTheirs, ReadingPCs, block, senders, locals, faults, history
    <2>2. IntactDelivery' /\ SenderFIFO'
      BY <1>0, <2>1, DeliveriesKept DEF ReaderMove
    <2> QED
      BY <1>8, <2>1, <2>2, ReaderRest, CopyRec DEF RecordsInv
  <1>9. CASE Corrupted
    <2>1. misread' \/ strayed'
      BY <1>9, NothingMangled
    <2>2. /\ rpc \in {"inspect", "copy"} /\ rpc' = "reinit" /\ NotTheirs /\ UNCHANGED <<state, delivered>>
          /\ (misread => misread') /\ (strayed => strayed')
      BY <1>9 DEF Corrupted, Mangled, Trust, NotTheirs, block, senders, locals, faults
    <2>3. IntactDelivery' /\ SenderFIFO'
      BY <1>0, <2>2, DeliveriesKept DEF NotTheirs
    <2>4. PhaseInv' /\ ZeroInv' /\ RemakeInv' /\ CalmInv' /\ RecordsInv'
      BY <2>1, <2>2 DEF PhaseInv, ZeroInv, RemakeInv, CalmInv, RecordsInv, Active
    <2>5. NumberInv'
      BY <2>2, NumbersKept DEF RInv
    <2> QED
      BY <2>3, <2>4, <2>5 DEF Rest
  <1>10. CASE Advance
    <2>1. ReaderMove(ReadingPCs, ReadingPCs) /\ published' = published
      BY <1>10 DEF Advance, ReaderMove, NotTheirs, ReadingPCs, senders, locals, faults
    <2>2. CASE misread' \/ strayed'
      <3>1. IntactDelivery' /\ SenderFIFO' /\ RecordsInv'
        BY <2>2 DEF IntactDelivery, SenderFIFO, Clean, RecordsInv, Active
      <3> QED
        BY <2>1, <3>1, ReaderRest
    <2>3. CASE ~misread' /\ ~strayed'
      <3>1. PICK m : m = RecMsg(tail)
        OBVIOUS
      <3>2. /\ Active /\ RecordsInv' /\ m \in published /\ delivered' = Append(delivered, {m})
            /\ \A k \in DeliveredMsgs : k[1] = m[1] => k[2] < m[2]
        BY <1>10, <2>3, <3>1, AdvanceStep
      <3>3. /\ delivered \in Seq(SUBSET (Msgs \cup {None})) /\ {m} \in SUBSET (Msgs \cup {None})
        BY <3>2 DEF RInv, IInv, TypeOK
      <3>4. /\ Len(delivered) \in Nat /\ DOMAIN delivered = 1 .. Len(delivered)
            /\ DOMAIN delivered' = 1 .. (Len(delivered) + 1)
            /\ delivered'[Len(delivered) + 1] = {m}
            /\ \A i \in 1 .. Len(delivered) : delivered'[i] = delivered[i]
        BY <3>2, <3>3
      <3>5. Clean
        BY <3>2 DEF Active, Clean
      <3>6. IntactDelivery'
        <4>1. ASSUME NEW i \in DOMAIN delivered' PROVE \E k \in published' : delivered'[i] = {k}
          <5>1. CASE i = Len(delivered) + 1
            BY <2>1, <3>2, <3>4, <5>1
          <5>2. CASE i # Len(delivered) + 1
            <6>1. i \in DOMAIN delivered /\ delivered'[i] = delivered[i]
              BY <3>4, <4>1, <5>2
            <6> QED
              BY <1>0, <2>1, <3>5, <6>1 DEF IntactDelivery, OnlyPublishedDelivered
          <5> QED
            BY <5>1, <5>2
        <4> QED
          BY <4>1 DEF IntactDelivery, OnlyPublishedDelivered
      <3>7. SenderFIFO'
        <4>1. ASSUME NEW i \in DOMAIN delivered', NEW j \in DOMAIN delivered',
                     NEW a \in delivered'[i], NEW b \in delivered'[j], i < j, a # None, b # None, a[1] = b[1]
              PROVE  a[2] < b[2]
          <5>1. i \in 1 .. Len(delivered) /\ i \in DOMAIN delivered /\ a \in delivered[i]
            BY <3>4, <4>1
          <5>2. CASE j = Len(delivered) + 1
            <6>1. b = m
              BY <3>4, <4>1, <5>2
            <6>2. a \in DeliveredMsgs
              BY <5>1 DEF DeliveredMsgs
            <6> QED
              BY <3>2, <4>1, <6>1, <6>2
          <5>3. CASE j # Len(delivered) + 1
            <6>1. j \in DOMAIN delivered /\ b \in delivered[j]
              BY <3>4, <4>1, <5>3
            <6> QED
              BY <1>0, <3>5, <4>1, <5>1, <6>1 DEF SenderFIFO
          <5> QED
            BY <5>2, <5>3
        <4> QED
          BY <4>1 DEF SenderFIFO
      <3> QED
        BY <2>1, <3>2, <3>6, <3>7, ReaderRest
    <2> QED
      BY <2>2, <2>3
  <1> QED
    BY <1>1, <1>2, <1>3, <1>4, <1>5, <1>6, <1>7, <1>8, <1>9, <1>10

LEMMA ReinitRInv ==
    ASSUME RInv, ReinitStep
    PROVE  Rest' /\ RecordsInv'
  <1>0. IntactDelivery /\ SenderFIFO /\ NumberInv /\ PhaseInv
    BY DEF RInv
  <1>1. CASE ReinitBegin
    <2>1. /\ NotTheirs /\ UNCHANGED <<generation, head, restarts, delivered, misread, strayed, spc>>
          /\ rpc = "reinit" /\ rpc' = "bump" /\ state' = "INITING"
      BY <1>1 DEF ReinitBegin, NotTheirs, senders, locals, faults, history
    <2>2. IntactDelivery' /\ SenderFIFO' /\ NumberInv'
      BY <1>0, <2>1, DeliveriesKept, NumbersKept DEF NotTheirs
    <2>3. PhaseInv' /\ ZeroInv' /\ RemakeInv'
      BY <2>1 DEF PhaseInv, ZeroInv, RemakeInv
    <2>4. CalmInv'
      BY <2>1 DEF RInv, CalmInv
    <2> QED
      BY <1>1, <2>2, <2>3, <2>4, ReinitEarlyRec DEF Rest
  <1>2. CASE ReinitGeneration
    <2>1. /\ NotTheirs /\ UNCHANGED <<state, head, restarts, delivered, misread, strayed, spc>>
          /\ rpc = "bump" /\ rpc' = "zerohead"
      BY <1>2 DEF ReinitGeneration, NotTheirs, senders, locals, faults, history
    <2>2. IntactDelivery' /\ SenderFIFO' /\ NumberInv'
      BY <1>0, <2>1, DeliveriesKept, NumbersKept DEF NotTheirs
    <2>3. PhaseInv' /\ ZeroInv' /\ RemakeInv'
      BY <1>0, <2>1 DEF PhaseInv, ZeroInv, RemakeInv
    <2>4. CalmInv'
      BY <1>0, <2>1 DEF RInv, CalmInv, PhaseInv
    <2> QED
      BY <1>0, <1>2, <2>2, <2>3, <2>4, ReinitEarlyRec DEF Rest
  <1>3. CASE ReinitHead
    <2>1. /\ NotTheirs /\ UNCHANGED <<state, generation, restarts, delivered, misread, spc>>
          /\ (strayed => strayed') /\ head' = 0 /\ rpc = "zerohead" /\ rpc' = "zerotail"
      BY <1>3 DEF ReinitHead, Discard, NotTheirs, senders, locals, faults
    <2>2. IntactDelivery' /\ SenderFIFO' /\ NumberInv'
      BY <1>0, <2>1, DeliveriesKept, NumbersKept DEF NotTheirs
    <2>3. PhaseInv'
      BY <1>0, <2>1 DEF PhaseInv
    <2>4. CalmInv'
      BY <1>0, <2>1 DEF RInv, CalmInv, PhaseInv
    <2>5. ZeroInv' /\ RemakeInv' /\ RecordsInv'
      <3>1. CASE misread' \/ strayed'
        BY <3>1 DEF ZeroInv, RemakeInv, RecordsInv, Active
      <3>2. CASE ~misread' /\ ~strayed'
        BY <1>3, <3>2, ReinitHeadRec
      <3> QED
        BY <3>1, <3>2
    <2> QED
      BY <2>2, <2>3, <2>4, <2>5 DEF Rest
  <1>4. CASE ReinitTail
    <2>1. /\ NotTheirs /\ UNCHANGED <<state, generation, head, restarts, delivered, misread, spc>>
          /\ (strayed => strayed') /\ rpc = "zerotail" /\ rpc' = "ready"
      BY <1>4 DEF ReinitTail, NotTheirs, senders, locals, faults
    <2>2. IntactDelivery' /\ SenderFIFO' /\ NumberInv'
      BY <1>0, <2>1, DeliveriesKept, NumbersKept DEF NotTheirs
    <2>3. PhaseInv' /\ ZeroInv'
      BY <1>0, <2>1 DEF PhaseInv, ZeroInv
    <2>4. RemakeInv'
      BY <2>1 DEF RInv, RemakeInv
    <2>5. CalmInv'
      BY <1>0, <2>1 DEF RInv, CalmInv, PhaseInv
    <2> QED
      BY <1>4, <2>2, <2>3, <2>4, <2>5, ReinitTailRec DEF Rest, RecordsInv
  <1>5. CASE ReinitReady
    <2>1. /\ NotTheirs /\ UNCHANGED <<generation, head, restarts, delivered, misread, spc, sgen>>
          /\ (strayed => strayed') /\ rpc = "ready" /\ rpc' = "wait" /\ state' = "READY"
      BY <1>5 DEF ReinitReady, Discard, NotTheirs, senders, locals, faults
    <2>2. IntactDelivery' /\ SenderFIFO' /\ NumberInv'
      BY <1>0, <2>1, DeliveriesKept, NumbersKept DEF NotTheirs
    <2>3. PhaseInv' /\ ZeroInv' /\ RemakeInv'
      BY <2>1 DEF PhaseInv, ZeroInv, RemakeInv
    <2>4. CalmInv'
      BY <1>0, <2>1 DEF RInv, CalmInv, PhaseInv
    <2> QED
      BY <1>5, <2>2, <2>3, <2>4, ReinitReadyRec DEF Rest, RecordsInv
  <1> QED
    BY <1>1, <1>2, <1>3, <1>4, <1>5 DEF ReinitStep

LEMMA RestartRInv ==
    ASSUME RInv, ConsumerCrash \/ ConsumerRestart
    PROVE  Rest' /\ RecordsInv'
  <1>0. IntactDelivery /\ SenderFIFO /\ NumberInv /\ PhaseInv
    BY DEF RInv
  <1>1. /\ NotTheirs /\ UNCHANGED <<state, generation, head, delivered, misread, strayed, spc, sgen>>
        /\ rpc' \in {"down", "reinit"}
    BY DEF ConsumerCrash, ConsumerRestart, Look, NotTheirs, block, senders, locals, faults, history
  <1>2. IntactDelivery' /\ SenderFIFO' /\ NumberInv'
    BY <1>0, <1>1, DeliveriesKept, NumbersKept DEF NotTheirs
  <1>3. PhaseInv' /\ ZeroInv' /\ RemakeInv'
    BY <1>1 DEF PhaseInv, ZeroInv, RemakeInv
  <1>4. CalmInv'
    <2>1. CASE ConsumerCrash
      <3>1. restarts' = restarts + 1 /\ restarts \in Nat
        BY <2>1, BoundsAssumption DEF ConsumerCrash, RInv, IInv, TypeOK
      <3>2. restarts' # 0
        BY <3>1
      <3> QED
        BY <3>2 DEF CalmInv
    <2>2. CASE ConsumerRestart
      <3>1. rpc = "down" /\ restarts' = restarts
        BY <2>2 DEF ConsumerRestart, Look, faults
      <3> QED
        BY <1>1, <3>1 DEF RInv, CalmInv
    <2> QED
      BY <2>1, <2>2
  <1>5. RecordsInv'
    BY ConsumerCrashRec, ConsumerRestartRec DEF RecordsInv
  <1> QED
    BY <1>2, <1>3, <1>4, <1>5 DEF Rest

-----------------------------------------------------------------------------
(* The invariant holds, and what follows from it. *)

LEMMA InitRInv == Init => RInv
  <1> SUFFICES ASSUME Init PROVE RInv
    OBVIOUS
  <1>1. IInv
    BY InitInv
  <1>2. /\ state = "INITING" /\ rpc = "reinit" /\ head = 0 /\ published = {} /\ acked = {} /\ delivered = <<>>
        /\ \A s \in Senders : spc[s] = "idle"
    BY DEF Init
  <1>3. PhaseInv /\ ZeroInv /\ RemakeInv /\ CalmInv
    BY <1>2 DEF PhaseInv, ZeroInv, RemakeInv, CalmInv
  <1>4. NumberInv
    BY <1>2 DEF NumberInv
  <1>5. RecordsInv
    BY <1>2 DEF RecordsInv, Active
  <1>6. IntactDelivery /\ SenderFIFO
    BY <1>2 DEF IntactDelivery, OnlyPublishedDelivered, SenderFIFO
  <1> QED
    BY <1>1, <1>3, <1>4, <1>5, <1>6 DEF RInv

LEMMA StutterRInv ==
    ASSUME RInv, UNCHANGED vars
    PROVE  RInv'
  <1>1. /\ UNCHANGED <<state, generation, head, tail, sem, mem, spc, sent, ssize, sgen, shead, rpc, rsize, rpayload>>
        /\ UNCHANGED <<crashes, restarts, published, acked, delivered, dropped, unmarked, misread, strayed>>
    BY DEF vars, block, senders, locals, worker, faults, history
  <1>2. IInv'
    BY NextInv DEF RInv
  <1>3. PhaseInv' /\ RemakeInv' /\ CalmInv'
    BY <1>1 DEF RInv, PhaseInv, RemakeInv, CalmInv
  <1>4. ZeroInv'
    BY <1>1 DEF RInv, ZeroInv, Inside, DeliveredMsgs
  <1>5. NumberInv'
    BY <1>1, NumbersKept DEF RInv, NotTheirs
  <1>6. IntactDelivery' /\ SenderFIFO'
    BY <1>1, DeliveriesKept DEF RInv
  <1>7. ASSUME Active' PROVE RecordsInv'
    <2>1. Active
      BY <1>1, <1>7, StillActive
    <2>2. Reader /\ Admitted
      BY <2>1, Opening
    <2>3. PICK P \in SUBSET Nat, sz \in [Nat -> Nat] : Records(P, sz)
      BY <2>1, Opening
    <2>4. Shape(P, sz) /\ Marks(P, sz) /\ Owners(P, sz) /\ Order(P) /\ Kept(P) /\ Wraps(P, sz)
      BY <2>3 DEF Records
    <2>5. \A t \in Senders : Stays(t)
      BY <1>1 DEF Stays, Inside
    <2>6. Shape(P, sz)' /\ Marks(P, sz)' /\ Owners(P, sz)' /\ Order(P)'
      BY <1>1, <2>4, <2>5, QuietStructure, QuietOrder
    <2>7. Kept(P)'
      <3>1. rpc' = "wait" /\ sem' = 0 => \A p \in P : Committed(p) => RecMsg(p) \notin acked'
        BY <1>1, <2>4 DEF Kept
      <3>2. rpc' \in {"zerotail", "ready"} => \A p \in P : ~Committed(p)
        BY <1>1, <2>4 DEF Kept
      <3> QED
        BY <1>1, <2>4, <3>1, <3>2, QuietKept
    <2>8. Wraps(P, sz)'
      <3>1. \A p \in P : Excused(p) => Excused(p)'
        <4>1. ASSUME NEW p \in P, Excused(p) PROVE Excused(p)'
          <5>1. (Wrapped(p)' <=> Wrapped(p)) /\ (Committed(p)' <=> Committed(p)) /\ RecMsg(p)' = RecMsg(p)
            BY <1>1, SameBytes
          <5>2. \A t \in Senders : (Inside(t)' <=> Inside(t)) /\ shead'[t] = shead[t] /\ spc'[t] = spc[t] /\ Msg(t)' = Msg(t)
            BY <1>1 DEF Inside, Msg
          <5> QED
            BY <4>1, <5>1, <5>2 DEF Excused
        <4> QED
          BY <4>1
      <3>2. Faultless' => Faultless
        BY <1>1 DEF Faultless
      <3>3. ASSUME Faultless', rpc' = "wait", sem' = 0, NEW p \in P PROVE Excused(p)
        BY <1>1, <2>4, <3>2, <3>3 DEF Wraps, Excused
      <3> QED
        BY <1>1, <2>4, <2>5, <3>1, <3>2, <3>3, QuietWraps
    <2>9. Reader'
      BY <1>1, <2>2, QuietReader
    <2>10. Admitted'
      BY <1>1, <2>2 DEF Admitted, Reserved, AlignUp
    <2> QED
      BY <2>6, <2>7, <2>8, <2>9, <2>10, Closing
  <1>8. RecordsInv'
    BY <1>7 DEF RecordsInv
  <1> QED
    BY <1>2, <1>3, <1>4, <1>5, <1>6, <1>8 DEF RInv

LEMMA NextRInv == RInv /\ [Next]_vars => RInv'
  <1> SUFFICES ASSUME RInv, [Next]_vars PROVE RInv'
    OBVIOUS
  <1>1. IInv'
    BY NextInv DEF RInv
  <1>2. CASE \E s \in Senders : (\E n \in MsgSizes : Send(s, n)) \/ SenderStep(s) \/ SenderCrash(s)
    BY <1>2, SenderRInv
  <1>3. CASE WorkerStep \/ ConsumerCrash \/ ConsumerRestart
    <2>1. Rest' /\ RecordsInv'
      BY <1>3, ReaderRInv, ReinitRInv, RestartRInv DEF WorkerStep
    <2> QED
      BY <1>1, <2>1 DEF RInv, Rest
  <1>4. CASE Done \/ UNCHANGED vars
    BY <1>4, StutterRInv DEF Done
  <1> QED
    BY <1>2, <1>3, <1>4 DEF Next

\* The records between tail and head, their writers, their order and their
\* fate are as the invariant says in every state, whatever the interleaving of
\* senders, reader, crashes, flushes and re-inits.
THEOREM RingInvariant == Spec => []RInv
  BY InitRInv, NextRInv, PTL DEF Spec

LEMMA ReadyRecords ==
    ASSUME RInv, Clean, state = "READY"
    PROVE  \E P \in SUBSET Nat : \E sz \in [Nat -> Nat] : Records(P, sz)
  <1>1. Active
    BY DEF Active, Clean
  <1> QED
    BY <1>1, Opening

LEMMA OccupancyHolds == RInv => Occupancy
  <1> SUFFICES ASSUME RInv, Clean, state = "READY" PROVE tail <= head /\ head <= tail + BlockSize
    BY DEF Occupancy
  <1> QED
    BY ReadyRecords DEF Records, Shape

LEMMA WritersExclusiveHolds == RInv => WritersExclusive
  <1> SUFFICES ASSUME RInv, Clean, state = "READY"
               PROVE  /\ \A s \in Writers : tail <= shead[s] /\ shead[s] + Extent(s) <= head
                      /\ \A s, t \in Writers :
                            s # t => \/ shead[s] + Extent(s) <= shead[t]
                                     \/ shead[t] + Extent(t) <= shead[s]
    BY DEF WritersExclusive
  <1>1. PICK P \in SUBSET Nat, sz \in [Nat -> Nat] : Shape(P, sz) /\ Owners(P, sz)
    BY ReadyRecords DEF Records
  <1>2. \A s \in Writers : s \in Senders /\ Inside(s)
    BY DEF Writers
  <1>3. ASSUME NEW s \in Writers
        PROVE  shead[s] \in P /\ sz[shead[s]] = Extent(s) /\ shead[s] \in Nat
    BY <1>1, <1>2, <1>3 DEF Owners, RowOwner
  <1>4. \A s \in Writers : tail <= shead[s] /\ shead[s] + Extent(s) <= head
    BY <1>1, <1>3 DEF Shape, RowShape
  <1>5. ASSUME NEW s \in Writers, NEW t \in Writers, s # t
        PROVE  shead[s] + Extent(s) <= shead[t] \/ shead[t] + Extent(t) <= shead[s]
    <2>1. shead[s] # shead[t]
      BY <1>1, <1>2, <1>5 DEF Owners
    <2>2. shead[s] < shead[t] \/ shead[t] < shead[s]
      BY <1>3, <2>1
    <2> QED
      BY <1>1, <1>3, <2>2 DEF Shape
  <1> QED
    BY <1>4, <1>5

LEMMA NoSilentLossHolds == RInv => NoSilentLoss
  <1> SUFFICES ASSUME RInv, Drained, Clean, NEW m \in acked PROVE m \in DeliveredMsgs \cup dropped
    BY DEF NoSilentLoss
  <1>1. rpc = "wait" /\ sem = 0 /\ state = "READY"
    BY DEF Drained, RInv, PhaseInv
  <1>2. PICK P \in SUBSET Nat, sz \in [Nat -> Nat] : Kept(P)
    BY <1>1, ReadyRecords DEF Records
  <1>3. m \in published
    BY DEF RInv, NumberInv
  <1> QED
    BY <1>1, <1>2, <1>3 DEF Kept

\* When nobody sends and the reader sleeps, at most one record is left, a
\* wrap record at tail.
LEMMA NeverWedgedHolds == RInv => NeverWedged
  <1> SUFFICES ASSUME RInv, Drained, Clean, crashes = 0, restarts = 0, NEW n \in MsgSizes
               PROVE  (head - tail) + Reserved(n) <= BlockSize
    BY DEF NeverWedged
  <1>1. rpc = "wait" /\ sem = 0 /\ state = "READY" /\ \A s \in Senders : spc[s] = "idle"
    BY DEF Drained, Idle, RInv, PhaseInv
  <1>2. IInv /\ Faultless
    BY DEF RInv, Faultless
  <1>3. PICK P \in SUBSET Nat, sz \in [Nat -> Nat] : Shape(P, sz) /\ Wraps(P, sz)
    BY <1>1, ReadyRecords DEF Records
  <1>4. ASSUME NEW p \in P PROVE Offset(p) + sz[p] = BlockSize /\ Short(sz[p])
    <2>1. Wrapped(p)
      BY <1>1, <1>2, <1>3, <1>4 DEF Wraps, Inside
    <2> QED
      BY <1>2, <1>3, <1>4, <2>1 DEF Wraps
  <1>5. /\ head \in Nat /\ tail \in Nat /\ tail <= head /\ BlockSize \in Nat /\ HdrSize \in Nat
        /\ tail < head => tail \in P
    BY <1>2, <1>3, Basics, TailFacts, Constants
  <1>6. Reserved(n) \in Nat /\ 2 * Reserved(n) + HdrSize <= BlockSize
    BY ReservedFacts, BlockAssumption
  <1>7. CASE tail = head
    BY <1>5, <1>6, <1>7
  <1>8. CASE tail < head
    <2>1. PICK d \in Nat : d = sz[tail]
      BY <1>3, <1>5
    <2>2. tail \in P /\ Offset(tail) + d = BlockSize /\ Short(d)
      BY <1>4, <1>5, <1>8, <2>1
    <2>3. Offset(tail) \in Nat
      BY <1>5, OffsetInBlock
    <2>4. d = SpaceTilWrap(tail)
      BY <1>5, <2>2, <2>3 DEF SpaceTilWrap
    <2>5. PICK q \in Nat : q = tail + d
      BY <1>5, <2>1
    <2>6. Offset(q) = 0
      BY <1>5, <2>4, <2>5, OffsetWrap
    <2>7. q \notin P
      <3> SUFFICES ASSUME q \in P PROVE FALSE
        OBVIOUS
      <3>1. Offset(q) + sz[q] = BlockSize /\ Short(sz[q]) /\ sz[q] \in Nat
        BY <1>3, <1>4
      <3>2. Short(BlockSize)
        BY <2>6, <3>1
      <3>3. PICK k \in MsgSizes : BlockSize < Reserved(k) + HdrSize
        BY <3>2 DEF Short
      <3>4. Reserved(k) \in Nat /\ 2 * Reserved(k) + HdrSize <= BlockSize
        BY ReservedFacts, BlockAssumption
      <3> QED
        BY <1>5, <3>3, <3>4
    <2>8. q = head
      BY <1>3, <2>1, <2>2, <2>5, <2>7 DEF Shape, RowShape
    <2>9. PICK k \in MsgSizes : d < Reserved(k) + HdrSize
      BY <2>2 DEF Short
    <2>10. Reserved(k) \in Nat /\ 2 * Reserved(k) + HdrSize <= BlockSize
      BY ReservedFacts, BlockAssumption
    <2> QED
      BY <1>5, <1>6, <2>5, <2>8, <2>9, <2>10
  <1> QED
    BY <1>5, <1>7, <1>8

LEMMA NoNeedlessReinit ==
    ASSUME RInv, [Next]_vars, Clean', rpc' \in {"reinit", "exited"}
    PROVE  rpc \in {"down", rpc'}
  <1>0. ~misread' /\ ~strayed' /\ IInv
    BY DEF Clean, RInv
  <1>1. CASE \E s \in Senders : (\E n \in MsgSizes : Send(s, n)) \/ SenderStep(s) \/ SenderCrash(s)
    <2>1. rpc' = rpc
      BY <1>0, <1>1, SenderMoves DEF NotMine
    <2> QED
      BY <2>1
  <1>2. ~RecvLoad /\ ~Corrupted
    BY <1>0, RecvLoadStep, NothingMangled
  <1>3. CASE WorkerStep
    <2>1. ~(Wait \/ Retry \/ TimeoutFlush \/ EpochFlush \/ SkipWrap)
      BY DEF Wait, Retry, Look, TimeoutFlush, EpochFlush, FlushBacklog, SkipWrap
    <2>2. ~(ReloadHead \/ Found \/ Copy \/ Advance)
      BY DEF ReloadHead, Look, Found, Copy, Advance
    <2>3. ~ReinitStep
      BY DEF ReinitStep, ReinitBegin, ReinitGeneration, ReinitHead, ReinitTail, ReinitReady
    <2> QED
      BY <1>2, <1>3, <2>1, <2>2, <2>3 DEF WorkerStep
  <1>4. CASE ConsumerCrash \/ ConsumerRestart
    BY <1>4 DEF ConsumerCrash, ConsumerRestart
  <1>5. CASE Done \/ UNCHANGED vars
    BY <1>5 DEF Done, vars, worker
  <1> QED
    BY <1>1, <1>3, <1>4, <1>5 DEF Next

\* The reader never overtakes the writers and the writers never lap the
\* reader, for every number of senders and every geometry of the block:
\* although send's space check ignores the bytes that a wrap record skips, a
\* wrap header always fits at tail, so the skip ends at or before the lap.
THEOREM NobodyLapped == Spec => []Occupancy
  BY RingInvariant, OccupancyHolds, PTL

\* Senders that write at the same time write disjoint bytes that the reader
\* has not consumed.
THEOREM WritersApart == Spec => []WritersExclusive
  BY RingInvariant, WritersExclusiveHolds, PTL

\* What the worker hands to the router is always one whole message that its
\* sender had published before.
THEOREM DeliveredIntact == Spec => []IntactDelivery
  <1>1. RInv => IntactDelivery
    BY DEF RInv
  <1> QED
    BY <1>1, RingInvariant, PTL

\* The messages of a sender are delivered at most once and in the order of its
\* sends, across wraps, flushes and re-inits.
THEOREM DeliveredInOrder == Spec => []SenderFIFO
  <1>1. RInv => SenderFIFO
    BY DEF RInv
  <1> QED
    BY <1>1, RingInvariant, PTL

\* When nobody sends and the worker sleeps on an empty semaphore, a message
\* whose send returned None was delivered, or a flush or a re-init dropped it.
THEOREM NothingForgotten == Spec => []NoSilentLoss
  BY RingInvariant, NoSilentLossHolds, PTL

\* The wrap record the worker may sleep in front of never keeps the largest
\* message out of the ring.
THEOREM SleeperCanBeWoken == Spec => []NeverWedged
  BY RingInvariant, NeverWedgedHolds, PTL

\* All promises of a clean ring at once.
THEOREM CleanRing == Spec => []CleanGuarantees
  <1>1. RInv => CleanGuarantees
    BY OccupancyHolds, WritersExclusiveHolds, NoSilentLossHolds DEF RInv, CleanGuarantees
  <1> QED
    BY <1>1, RingInvariant, PTL

\* No step of a clean ring makes the worker re-initialise the block or stop:
\* recv never finds tail in front of head, nor a header that is none.
THEOREM NoReinitUndamaged == Spec => ReinitOnlyAfterDamage
  <1>1. RInv /\ [Next]_vars =>
           [Clean' /\ rpc' \in {"reinit", "exited"} => rpc \in {"down", rpc'}]_vars
    BY NoNeedlessReinit
  <1> QED
    BY <1>1, RingInvariant, PTL DEF Spec, ReinitOnlyAfterDamage
=============================================================================
