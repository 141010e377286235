--------------------------- MODULE ShmRingProofs ---------------------------
(***************************************************************************)
(* What ShmRing guarantees for every number of senders, block size, header *)
(* size, alignment and set of message sizes: types, the usable zone of     *)
(* head, and that every header in memory describes bytes of the block.     *)
(***************************************************************************)
EXTENDS ShmRing, TLAPS

-----------------------------------------------------------------------------
(* Arithmetic of positions. *)

LEMMA DivMod ==
    ASSUME NEW a \in Nat, NEW b \in Nat \ {0}
    PROVE  /\ a % b \in 0..(b - 1) /\ a \div b \in Nat
           /\ a = b * (a \div b) + (a % b)
  BY Z3

LEMMA ModUnique ==
    ASSUME NEW a \in Nat, NEW b \in Nat \ {0}, NEW q \in Nat, NEW r \in 0..(b - 1),
           a = b * q + r
    PROVE  a % b = r
  BY Z3

LEMMA ModZero ==
    ASSUME NEW a \in Nat, NEW b \in Nat \ {0}, NEW q \in Nat, a = b * q
    PROVE  a % b = 0
  BY Z3

\* Multiples of b are closed under addition.
LEMMA MultipleSum ==
    ASSUME NEW b \in Nat \ {0}, NEW x \in Nat, NEW y \in Nat, x % b = 0, y % b = 0
    PROVE  (x + y) % b = 0
  <1> DEFINE q == (x \div b) + (y \div b)
  <1>1. x = b * (x \div b) /\ y = b * (y \div b) /\ x \div b \in Nat /\ y \div b \in Nat
    BY DivMod
  <1>2. q \in Nat /\ x + y \in Nat /\ x + y = b * q
    BY <1>1, Z3
  <1> QED
    <2> HIDE DEF q
    <2> QED BY <1>2, ModZero

LEMMA MultipleDiff ==
    ASSUME NEW b \in Nat \ {0}, NEW x \in Nat, NEW y \in Nat, x % b = 0, y % b = 0,
           y <= x
    PROVE  (x - y) % b = 0
  <1> DEFINE q == (x \div b) - (y \div b)
  <1>1. x = b * (x \div b) /\ y = b * (y \div b) /\ x \div b \in Nat /\ y \div b \in Nat
    BY DivMod
  <1>2. x - y \in Nat /\ q \in Int /\ x - y = b * q
    BY <1>1, Z3
  <1>3. q \in Nat
    BY <1>1, Z3
  <1> QED
    <2> HIDE DEF q
    <2> QED BY <1>2, <1>3, ModZero

LEMMA MultipleProduct ==
    ASSUME NEW b \in Nat \ {0}, NEW x \in Nat, NEW k \in Nat, x % b = 0
    PROVE  (x * k) % b = 0
  <1> DEFINE q == (x \div b) * k
  <1>1. x = b * (x \div b) /\ x \div b \in Nat
    BY DivMod
  <1>2. q \in Nat /\ x * k \in Nat /\ x * k = b * q
    BY <1>1, Z3
  <1> QED
    <2> HIDE DEF q
    <2> QED BY <1>2, ModZero

\* An aligned position stays aligned inside the block.
LEMMA MultipleMod ==
    ASSUME NEW b \in Nat \ {0}, NEW c \in Nat \ {0}, NEW x \in Nat,
           x % b = 0, c % b = 0
    PROVE  (x % c) % b = 0
  <1>1. PICK k \in Nat : x = c * k + (x % c)
    BY DivMod
  <1>2. x % c \in Nat /\ c \in Nat
    BY DivMod
  <1>3. (c * k) % b = 0
    BY <1>2, MultipleProduct, Zenon
  <1>4. c * k \in Nat
    BY <1>2, Z3
  <1>5. PICK m \in Nat : m = c * k /\ m % b = 0
    BY <1>3, <1>4, Zenon
  <1>6. x = m + (x % c)
    BY <1>1, <1>5, Zenon
  <1>7. PICK r \in Nat : r = x % c
    BY <1>2
  <1>8. m <= x /\ r = x - m
    BY <1>6, <1>7
  <1>9. (x - m) % b = 0
    BY <1>5, <1>8, MultipleDiff
  <1> QED
    BY <1>7, <1>8, <1>9, Zenon

LEMMA Constants ==
    /\ BlockSize \in Nat \ {0} /\ HdrSize \in Nat \ {0} /\ Align \in Nat \ {0}
    /\ HdrSize < BlockSize /\ UsableLimit \in Nat /\ UsableLimit < BlockSize
    /\ BlockSize % Align = 0
  BY SizesAssumption DEF UsableLimit

\* Positions map into the block; aligned positions to aligned offsets.
LEMMA OffsetInBlock ==
    ASSUME NEW p \in Nat
    PROVE  Offset(p) \in 0..(BlockSize - 1)
  BY SizesAssumption, DivMod DEF Offset

LEMMA OffsetAligned ==
    ASSUME NEW p \in Nat, p % Align = 0
    PROVE  Offset(p) \in Offsets
  <1>1. Offset(p) \in 0..(BlockSize - 1)
    BY OffsetInBlock
  <1>2. (p % BlockSize) % Align = 0
    BY Constants, MultipleMod, Zenon
  <1> QED
    BY <1>1, <1>2 DEF Offset, Offsets

\* A reservation that ends before the end of the block moves the offset by
\* its size; one that reaches the end brings it back to 0.
LEMMA OffsetAdvance ==
    ASSUME NEW p \in Nat, NEW r \in Nat, Offset(p) + r < BlockSize
    PROVE  Offset(p + r) = Offset(p) + r
  <1>1. PICK q \in Nat : p = BlockSize * q + Offset(p)
    BY Constants, DivMod, Zenon DEF Offset
  <1>2. BlockSize \in Nat \ {0} /\ Offset(p) \in Nat
    BY SizesAssumption, OffsetInBlock
  <1>3. PICK f \in 0..(BlockSize - 1) : f = Offset(p) + r
    BY <1>2
  <1>4. p + r \in Nat /\ p + r = BlockSize * q + f
    BY <1>1, <1>2, <1>3, Z3
  <1>5. (p + r) % BlockSize = f
    BY <1>2, <1>4, ModUnique
  <1> QED
    BY <1>3, <1>5 DEF Offset

LEMMA OffsetWrap ==
    ASSUME NEW p \in Nat
    PROVE  /\ SpaceTilWrap(p) \in Nat
           /\ Offset(p + SpaceTilWrap(p)) = 0
  <1>1. PICK q \in Nat : p = BlockSize * q + Offset(p)
    BY Constants, DivMod, Zenon DEF Offset
  <1>2. BlockSize \in Nat \ {0} /\ Offset(p) \in 0..(BlockSize - 1)
    BY SizesAssumption, OffsetInBlock
  <1>3. /\ SpaceTilWrap(p) \in Nat /\ p + SpaceTilWrap(p) \in Nat
        /\ p + SpaceTilWrap(p) = BlockSize * (q + 1)
    BY <1>1, <1>2, Z3 DEF SpaceTilWrap
  <1>4. (p + SpaceTilWrap(p)) % BlockSize = 0
    <2>1. PICK k \in Nat : k = q + 1
      OBVIOUS
    <2> QED
      BY <1>2, <1>3, <2>1, ModZero
  <1> QED
    BY <1>3, <1>4 DEF Offset

LEMMA SpaceAligned ==
    ASSUME NEW p \in Nat, p % Align = 0
    PROVE  /\ SpaceTilWrap(p) % Align = 0
           /\ (p + SpaceTilWrap(p)) % Align = 0
  <1>1. /\ Offset(p) \in Nat /\ Offset(p) <= BlockSize /\ Offset(p) % Align = 0
        /\ BlockSize \in Nat /\ BlockSize % Align = 0 /\ Align \in Nat \ {0}
    BY OffsetAligned, OffsetInBlock, SizesAssumption DEF Offsets
  <1>2. SpaceTilWrap(p) % Align = 0
    BY <1>1, MultipleDiff DEF SpaceTilWrap
  <1> QED
    BY <1>1, <1>2, OffsetWrap, MultipleSum

\* What align_up makes of a payload size.
LEMMA ReservedFacts ==
    ASSUME NEW n \in MsgSizes
    PROVE  /\ n \in Nat \ {0} /\ Reserved(n) \in Nat /\ n + HdrSize <= Reserved(n)
           /\ Reserved(n) % Align = 0 /\ Reserved(n) <= UsableLimit
  <1>1. n \in Nat \ {0} /\ HdrSize \in Nat /\ Align \in Nat \ {0}
    BY SizesAssumption
  <1>2. PICK x \in Nat : x = (n + HdrSize) + (Align - 1)
    BY <1>1
  <1>3. PICK q \in Nat : q = x \div Align /\ x = Align * q + (x % Align)
    BY <1>1, DivMod
  <1>4. x % Align \in 0..(Align - 1)
    BY <1>1, DivMod
  <1>5. Reserved(n) = q * Align
    BY <1>2, <1>3 DEF Reserved, AlignUp
  <1>6. PICK z \in Nat : z = Align * q /\ z = q * Align
    BY <1>1, Z3
  <1>7. Reserved(n) = z /\ n + HdrSize <= z
    BY <1>1, <1>2, <1>3, <1>4, <1>5, <1>6
  <1>8. z % Align = 0
    BY <1>1, <1>6, ModZero
  <1>9. 2 * z + HdrSize <= BlockSize
    BY <1>7, BlockAssumption
  <1> QED
    BY <1>1, <1>7, <1>8, <1>9, SizesAssumption DEF UsableLimit

-----------------------------------------------------------------------------
(* The inductive invariant. *)

\* Every position and every size is a multiple of the alignment.
AlignedInv ==
    /\ head % Align = 0 /\ tail % Align = 0 /\ rsize % Align = 0
    /\ \A s \in Senders : shead[s] % Align = 0
    /\ \A o \in Offsets : mem[o].size % Align = 0

\* What a sender knows about its local head, by how far it has come.
LocalsInv ==
    \A s \in Senders :
        /\ spc[s] # "idle" => ssize[s] \in MsgSizes /\ sent[s] \in 1..MaxSends
        /\ spc[s] \in {"tail", "cas", "wraphdr", "wrap"} => Offset(shead[s]) <= UsableLimit
        /\ spc[s] \in {"check", "write", "copy", "commit"} =>
              Offset(shead[s]) + Reserved(ssize[s]) <= UsableLimit

\* A cell is payload, or still zero, or a header that fits.
Fits(o, c) ==
    \/ c.st = "data"
    \/ c.st = "writing" /\ c.size = 0
    \/ HdrSize <= c.size /\ o + c.size <= BlockSize /\ HdrSize + c.len <= c.size

\* The state word is stored only where a header was written before.
MemInv ==
    /\ \A o \in Offsets : Fits(o, mem[o])
    /\ \A s \in Senders : spc[s] \in {"wrap", "copy", "commit"} =>
          \/ mem[Offset(shead[s])].st = "data"
          \/ mem[Offset(shead[s])].size # 0

IInv == TypeOK /\ AlignedInv /\ HeadUsable /\ LocalsInv /\ MemInv

-----------------------------------------------------------------------------
(* The invariant holds initially and is kept by every step. *)

States == {"writing", "committed", "wrap", "data"}

\* The cells that senders store.
LEMMA CellTypes ==
    /\ \A st \in States, size, len, epoch \in Nat : Header(st, size, len, epoch) \in Cells
    /\ \A m \in Msgs \cup {None}, k \in Nat : Data(m, k) \in Cells
    /\ Zero \in Cells
  BY DEF States, Header, Data, Zero, Cells, None

\* The three kinds of store keep memory well typed.
LEMMA WithHeaderType ==
    ASSUME mem \in [Offsets -> Cells], NEW o \in Nat, NEW size \in Nat, NEW len \in Nat,
           NEW epoch \in Nat
    PROVE  WithHeader(o, size, len, epoch) \in [Offsets -> Cells]
  <1> SUFFICES ASSUME NEW a \in Offsets
               PROVE  WithHeader(o, size, len, epoch)[a] \in Cells
    BY DEF WithHeader
  <1>1. CASE a = o
    BY <1>1, CellTypes DEF WithHeader, MarkedAs, States
  <1>2. CASE o < a /\ a < o + HdrSize
    <2>1. a - o \in Nat /\ a # o
      BY <1>2 DEF Offsets
    <2> QED
      BY <1>2, <2>1, CellTypes DEF WithHeader
  <1>3. CASE a # o /\ ~(o < a /\ a < o + HdrSize)
    BY <1>3 DEF WithHeader
  <1> QED
    BY <1>1, <1>2, <1>3

LEMMA WithStateType ==
    ASSUME mem \in [Offsets -> Cells], NEW o \in Offsets, NEW st \in States
    PROVE  WithState(o, st) \in [Offsets -> Cells]
  <1>1. [mem[o] EXCEPT !.msg = None] \in Cells /\ [mem[o] EXCEPT !.st = st] \in Cells
    <2>1. mem[o] \in Cells
      OBVIOUS
    <2> QED
      BY <2>1 DEF Cells, None, States
  <1> QED
    BY <1>1 DEF WithState

LEMMA WithPayloadCells ==
    ASSUME mem \in [Offsets -> Cells], NEW o \in Nat, NEW len \in Nat, NEW m \in Msgs,
           NEW a \in Offsets
    PROVE  LET c == WithPayload(o, len, m)[a] IN
           c = mem[a] \/ (c \in Cells /\ c.st = "data" /\ c.size = 0)
  <1>1. CASE a \in PayloadCells(o, len)
    <2>1. a - (o + HdrSize) \in Nat
      BY <1>1, Constants DEF PayloadCells, Offsets
    <2>2. Data(m, a - (o + HdrSize)) \in Cells
      BY <2>1, CellTypes
    <2> QED
      BY <1>1, <2>2 DEF WithPayload, Data
  <1>2. CASE a \notin PayloadCells(o, len)
    BY <1>2 DEF WithPayload
  <1> QED
    BY <1>1, <1>2

LEMMA InitInv == Init => IInv
  <1> SUFFICES ASSUME Init PROVE IInv
    OBVIOUS
  <1> USE Constants, BoundsAssumption DEF Init
  <1>1. Offset(0) = 0 /\ 0 % Align = 0
    BY ModZero DEF Offset
  <1>2. TypeOK
    <2>1. mem \in [Offsets -> Cells]
      BY CellTypes
    <2>2. delivered \in Seq(SUBSET (Msgs \cup {None}))
      OBVIOUS
    <2>3. /\ sent \in [Senders -> 0..MaxSends]
          /\ crashes \in 0..MaxCrashes /\ restarts \in 0..MaxRestarts
      OBVIOUS
    <2>4. spc \in [Senders -> SenderPCs] /\ result \in [Senders -> Results]
      BY DEF SenderPCs, Results
    <2> QED
      BY <2>1, <2>2, <2>3, <2>4 DEF TypeOK, WorkerPCs
  <1>3. AlignedInv
    BY <1>1 DEF AlignedInv, Zero, Header
  <1>4. HeadUsable
    BY <1>1 DEF HeadUsable
  <1>5. LocalsInv
    BY DEF LocalsInv
  <1>6. MemInv
    BY DEF MemInv, Fits, Zero, Header
  <1> QED
    BY <1>2, <1>3, <1>4, <1>5, <1>6 DEF IInv

LEMMA SendInv ==
    ASSUME IInv, NEW s \in Senders, NEW n \in MsgSizes, Send(s, n)
    PROVE  IInv'
  <1> USE Constants DEF IInv, Send, Goto, block, locals, senders, worker, faults, history
  <1>0. n \in Nat /\ sent[s] + 1 \in 1..MaxSends
    BY SizesAssumption, BoundsAssumption DEF TypeOK
  <1>1. TypeOK'
    <2>1. sent' \in [Senders -> 0..MaxSends]
      BY <1>0 DEF TypeOK
    <2>2. CASE state = "READY"
      BY <1>0, <2>1, <2>2, ZenonT(90) DEF TypeOK, SenderPCs
    <2>3. CASE state # "READY"
      BY <2>1, <2>3 DEF TypeOK, Results
    <2> QED
      BY <2>2, <2>3
  <1>2. AlignedInv'
    BY DEF AlignedInv, TypeOK
  <1>3. HeadUsable'
    BY DEF HeadUsable, TypeOK
  <1>4. LocalsInv'
    BY <1>0, ZenonT(60) DEF LocalsInv, TypeOK
  <1>5. MemInv'
    BY SMTT(40) DEF MemInv, TypeOK
  <1> QED
    BY <1>1, <1>2, <1>3, <1>4, <1>5

LEMMA LoadGenerationInv ==
    ASSUME IInv, NEW s \in Senders, LoadGeneration(s)
    PROVE  IInv'
  <1> USE Constants DEF IInv, LoadGeneration, Goto, block, locals, senders, worker, faults, history
  <1>0. ~(Reserved(ssize[s]) > BlockSize)
    BY ReservedFacts DEF LocalsInv
  <1>1. TypeOK'
    BY <1>0, ZenonT(60) DEF TypeOK, SenderPCs
  <1>2. AlignedInv'
    BY <1>0 DEF AlignedInv, TypeOK
  <1>3. HeadUsable'
    BY <1>0 DEF HeadUsable, TypeOK
  <1>4. LocalsInv'
    BY <1>0 DEF LocalsInv, TypeOK
  <1>5. MemInv'
    BY <1>0 DEF MemInv, TypeOK
  <1> QED
    BY <1>1, <1>2, <1>3, <1>4, <1>5

LEMMA LoadHeadInv ==
    ASSUME IInv, NEW s \in Senders, LoadHead(s)
    PROVE  IInv'
  <1> USE Constants DEF IInv, LoadHead, Goto, block, locals, senders, worker, faults, history
  <1>1. TypeOK'
    BY DEF TypeOK, SenderPCs, WorkerPCs, Results
  <1>2. AlignedInv'
    BY DEF AlignedInv, TypeOK
  <1>3. HeadUsable'
    BY DEF HeadUsable, TypeOK
  <1>4. LocalsInv'
    BY DEF LocalsInv, HeadUsable, TypeOK
  <1>5. MemInv'
    BY DEF MemInv, TypeOK
  <1> QED
    BY <1>1, <1>2, <1>3, <1>4, <1>5

LEMMA AdmitInv ==
    ASSUME IInv, NEW s \in Senders, Admit(s)
    PROVE  IInv'
  <1> USE Constants DEF IInv, Admit, Continue, Goto, block, locals, senders, worker, faults, history
  <1>1. TypeOK'
    BY DEF TypeOK, SenderPCs, WorkerPCs, Results
  <1>2. AlignedInv'
    BY DEF AlignedInv, TypeOK
  <1>3. HeadUsable'
    BY DEF HeadUsable, TypeOK
  <1>4. LocalsInv'
    BY DEF LocalsInv, TypeOK
  <1>5. MemInv'
    BY DEF MemInv, TypeOK
  <1> QED
    BY <1>1, <1>2, <1>3, <1>4, <1>5

LEMMA ReloadInv ==
    ASSUME IInv, NEW s \in Senders, Reload(s)
    PROVE  IInv'
  <1> USE Constants DEF IInv, Reload, Goto, NextTry, block, locals, senders, worker, faults, history
  <1>1. TypeOK'
    BY SMTT(40) DEF TypeOK, SenderPCs, WorkerPCs, Results
  <1>2. AlignedInv'
    BY DEF AlignedInv, TypeOK
  <1>3. HeadUsable'
    BY DEF HeadUsable, TypeOK
  <1>4. LocalsInv'
    BY DEF LocalsInv, TypeOK
  <1>5. MemInv'
    BY DEF MemInv, TypeOK
  <1> QED
    BY <1>1, <1>2, <1>3, <1>4, <1>5

\* Where the allocator's corruption check is shown to be unreachable.
LEMMA RejectInv ==
    ASSUME IInv, NEW s \in Senders, Reject(s)
    PROVE  IInv'
  <1> USE Constants DEF IInv, Reject, Return, Finish, block, locals, senders, worker, faults, history
  <1>0. 0 % Align = 0
    BY ModZero
  <1>o. Offset(shead[s]) <= UsableLimit /\ Offset(shead[s]) \in 0..(BlockSize - 1)
    BY OffsetInBlock DEF LocalsInv, TypeOK
  <1>v. Verdict(s) # "AllocatorCorrupted"
    BY <1>o DEF Verdict, Admission
  <1>1. TypeOK'
    BY SMTT(40) DEF TypeOK, SenderPCs, WorkerPCs, Results
  <1>2. AlignedInv'
    BY <1>0 DEF AlignedInv, TypeOK
  <1>3. HeadUsable'
    BY <1>v DEF HeadUsable, TypeOK
  <1>4. LocalsInv'
    BY DEF LocalsInv, TypeOK
  <1>5. MemInv'
    BY DEF MemInv, TypeOK
  <1> QED
    BY <1>1, <1>2, <1>3, <1>4, <1>5

LEMMA CasFailInv ==
    ASSUME IInv, NEW s \in Senders, CasFail(s)
    PROVE  IInv'
  <1> USE Constants DEF IInv, CasFail, Goto, NextTry, block, locals, senders, worker, faults, history
  <1>1. TypeOK'
    BY SMTT(40) DEF TypeOK, SenderPCs, WorkerPCs, Results
  <1>2. AlignedInv'
    BY DEF AlignedInv, TypeOK
  <1>3. HeadUsable'
    BY DEF HeadUsable, TypeOK
  <1>4. LocalsInv'
    BY DEF LocalsInv, HeadUsable, TypeOK
  <1>5. MemInv'
    BY DEF MemInv, TypeOK
  <1> QED
    BY <1>1, <1>2, <1>3, <1>4, <1>5

\* A wrap reservation brings head to offset 0.
LEMMA CasWrapInv ==
    ASSUME IInv, NEW s \in Senders, CasWrap(s)
    PROVE  IInv'
  <1> USE Constants DEF IInv, CasWrap, Reserve, Goto, HeadIsMine, block, locals, senders, worker, faults, history
  <1>0. head \in Nat /\ head % Align = 0 /\ shead[s] = head
    BY DEF TypeOK, AlignedInv
  <1>w. /\ SpaceTilWrap(head) \in Nat /\ Offset(head + SpaceTilWrap(head)) = 0
        /\ (head + SpaceTilWrap(head)) % Align = 0
    BY <1>0, OffsetWrap, SpaceAligned
  <1>h. head' = head + SpaceTilWrap(head) /\ result' = result
    BY <1>0, Zenon
  <1>1. TypeOK'
    <2>1. head' \in Nat
      <3> HIDE DEF IInv, CasWrap
      <3> QED BY <1>0, <1>w, <1>h
    <2>2. unmarked' \subseteq Nat
      BY <1>0, Zenon DEF TypeOK
    <2> QED
      BY <2>1, <2>2 DEF TypeOK, SenderPCs
  <1>2. AlignedInv'
    BY <1>0, <1>w DEF AlignedInv, TypeOK
  <1>3. HeadUsable'
    <2>1. Offset(head') = 0 /\ 0 <= UsableLimit
      <3> HIDE DEF IInv, CasWrap
      <3> QED BY <1>w, <1>h
    <2>2. Offset(head)' = Offset(head')
      BY DEF Offset
    <2> QED
      BY <1>h, <2>1, <2>2, Zenon DEF HeadUsable
  <1>4. LocalsInv'
    BY DEF LocalsInv, TypeOK
  <1>5. MemInv'
    BY DEF MemInv, TypeOK
  <1> QED
    BY <1>1, <1>2, <1>3, <1>4, <1>5

\* A data reservation leaves head inside the usable zone.
LEMMA CasDataInv ==
    ASSUME IInv, NEW s \in Senders, CasData(s)
    PROVE  IInv'
  <1> USE Constants DEF IInv, CasData, Reserve, Goto, HeadIsMine, block, locals, senders, worker, faults, history
  <1>0. /\ shead[s] \in Nat /\ shead[s] % Align = 0 /\ sgen[s] \in Nat
        /\ ssize[s] \in MsgSizes
    BY DEF TypeOK, AlignedInv, LocalsInv
  <1>r. /\ ssize[s] \in Nat \ {0} /\ Reserved(ssize[s]) \in Nat
        /\ ssize[s] + HdrSize <= Reserved(ssize[s]) /\ Reserved(ssize[s]) % Align = 0
    BY <1>0, ReservedFacts
  <1>h. head \in Nat /\ head % Align = 0 /\ shead[s] = head
    BY DEF TypeOK, AlignedInv
  <1>l. Offset(head) \in 0..(BlockSize - 1) /\ Offset(head) + Reserved(ssize[s]) <= UsableLimit
    BY <1>h, <1>r, OffsetInBlock DEF NeedsWrap
  <1>n. /\ Offset(head + Reserved(ssize[s])) = Offset(head) + Reserved(ssize[s])
        /\ (head + Reserved(ssize[s])) % Align = 0
    <2>1. Offset(head) + Reserved(ssize[s]) < BlockSize
      BY <1>l, <1>r
    <2> QED
      BY <1>h, <1>r, <2>1, OffsetAdvance, MultipleSum, Zenon
  <1>1. TypeOK'
    <2>1. head' \in Nat
      BY <1>h, <1>r, SMTT(40) DEF TypeOK
    <2>2. unmarked' \subseteq Nat
      BY <1>h, Zenon DEF TypeOK
    <2> QED
      BY <2>1, <2>2 DEF TypeOK, SenderPCs
  <1>2. AlignedInv'
    BY <1>h, <1>n DEF AlignedInv, TypeOK
  <1>3. HeadUsable'
    BY <1>h, <1>l, <1>n DEF HeadUsable, TypeOK
  <1>4. LocalsInv'
    BY <1>h, <1>l DEF LocalsInv, TypeOK
  <1>5. MemInv'
    BY DEF MemInv, TypeOK
  <1> QED
    BY <1>1, <1>2, <1>3, <1>4, <1>5

LEMMA WriteWrapHeaderInv ==
    ASSUME IInv, NEW s \in Senders, WriteWrapHeader(s)
    PROVE  IInv'
  <1> USE Constants DEF IInv, WriteWrapHeader, Mark, Goto, block, locals, senders, worker, faults, history
  <1>0. /\ shead[s] \in Nat /\ shead[s] % Align = 0 /\ sgen[s] \in Nat
        /\ ssize[s] \in MsgSizes
    BY DEF TypeOK, AlignedInv, LocalsInv
  <1>r. /\ ssize[s] \in Nat \ {0} /\ Reserved(ssize[s]) \in Nat
        /\ ssize[s] + HdrSize <= Reserved(ssize[s]) /\ Reserved(ssize[s]) % Align = 0
    BY <1>0, ReservedFacts
  <1>o. Offset(shead[s]) \in Offsets /\ Offset(shead[s]) \in 0..(BlockSize - 1)
    BY <1>0, OffsetAligned, OffsetInBlock
  <1>w. /\ SpaceTilWrap(shead[s]) \in Nat /\ SpaceTilWrap(shead[s]) % Align = 0
        /\ HdrSize <= SpaceTilWrap(shead[s])
        /\ Offset(shead[s]) + SpaceTilWrap(shead[s]) = BlockSize
    <2>1. SpaceTilWrap(shead[s]) % Align = 0
      BY <1>0, SpaceAligned
    <2> QED
      BY <1>o, <2>1 DEF LocalsInv, SpaceTilWrap, UsableLimit
  <1>1. TypeOK'
    <2>1. mem' \in [Offsets -> Cells]
      <3>1. /\ Offset(shead[s]) \in Nat /\ sgen[s] \in Nat /\ ssize[s] \in Nat /\ 0 \in Nat
            /\ Reserved(ssize[s]) \in Nat /\ mem \in [Offsets -> Cells]
        BY <1>0, <1>r, <1>o DEF TypeOK
      <3> QED
        BY <3>1, <1>w, WithHeaderType, Zenon
    <2> QED
      BY <2>1 DEF TypeOK, SenderPCs
  <1>2. AlignedInv'
    <2>1. \A o \in Offsets : mem'[o].size % Align = 0
      BY <1>0, <1>r, <1>w, ModZero DEF WithHeader, AlignedInv, Header, Data
    <2> QED
      BY <2>1 DEF AlignedInv, TypeOK
  <1>3. HeadUsable'
    BY DEF HeadUsable, TypeOK
  <1>4. LocalsInv'
    BY DEF LocalsInv, TypeOK
  <1>5. MemInv'
    <2>1. \A o \in Offsets : Fits(o, mem'[o])
      BY <1>0, <1>r, <1>w, <1>o DEF MemInv, LocalsInv, Fits, WithHeader, Header, Data, UsableLimit
    <2>2. ASSUME NEW t \in Senders, spc'[t] \in {"wrap", "copy", "commit"}
          PROVE  \/ mem'[Offset(shead[t])].st = "data"
                 \/ mem'[Offset(shead[t])].size # 0
      <3>1. Offset(shead[t]) \in Offsets
        BY OffsetAligned DEF TypeOK, AlignedInv
      <3>2. CASE Offset(shead[t]) = Offset(shead[s])
        BY <1>0, <1>r, <1>w, <3>1, <3>2 DEF WithHeader, Header
      <3>3. CASE Offset(shead[t]) # Offset(shead[s])
        <4>1. t # s
          BY <3>3
        <4>2. spc[t] \in {"wrap", "copy", "commit"}
          BY <2>2, <4>1 DEF TypeOK
        <4> QED
          BY <4>2, <3>1, <3>3 DEF MemInv, WithHeader, Data
      <3> QED
        BY <3>2, <3>3
    <2> QED
      BY <2>1, <2>2 DEF MemInv, TypeOK
  <1> QED
    BY <1>1, <1>2, <1>3, <1>4, <1>5

LEMMA StoreWrapInv ==
    ASSUME IInv, NEW s \in Senders, StoreWrap(s)
    PROVE  IInv'
  <1> USE Constants DEF IInv, StoreWrap, Goto, NextTry, block, locals, senders, worker, faults, history
  <1>0. /\ shead[s] \in Nat /\ shead[s] % Align = 0 /\ sgen[s] \in Nat
        /\ ssize[s] \in MsgSizes
    BY DEF TypeOK, AlignedInv, LocalsInv
  <1>r. /\ ssize[s] \in Nat \ {0} /\ Reserved(ssize[s]) \in Nat
        /\ ssize[s] + HdrSize <= Reserved(ssize[s]) /\ Reserved(ssize[s]) % Align = 0
    BY <1>0, ReservedFacts
  <1>o. Offset(shead[s]) \in Offsets /\ Offset(shead[s]) \in 0..(BlockSize - 1)
    BY <1>0, OffsetAligned, OffsetInBlock
  <1>w. /\ SpaceTilWrap(shead[s]) \in Nat
        /\ shead[s] + SpaceTilWrap(shead[s]) \in Nat
        /\ Offset(shead[s] + SpaceTilWrap(shead[s])) = 0
        /\ (shead[s] + SpaceTilWrap(shead[s])) % Align = 0
    <2>1. SpaceTilWrap(shead[s]) \in Nat
      BY <1>0, OffsetWrap
    <2>2. shead[s] + SpaceTilWrap(shead[s]) \in Nat
      BY <1>0, <2>1
    <2> QED
      BY <1>0, <2>1, <2>2, OffsetWrap, SpaceAligned, Zenon
  <1>1. TypeOK'
    <2>1. mem' \in [Offsets -> Cells]
      BY <1>o, WithStateType DEF TypeOK, States
    <2>2. shead' \in [Senders -> Nat] /\ stries' \in [Senders -> Nat]
      BY <1>0, <1>w, SMTT(40) DEF TypeOK
    <2> QED
      BY <2>1, <2>2 DEF TypeOK, SenderPCs
  <1>2. AlignedInv'
    <2>1. \A o \in Offsets : mem'[o].size % Align = 0
      BY <1>o DEF WithState, AlignedInv, TypeOK, Cells
    <2> QED
      BY <2>1, <1>w DEF AlignedInv, TypeOK
  <1>3. HeadUsable'
    BY DEF HeadUsable, TypeOK
  <1>4. LocalsInv'
    BY <1>w, SMTT(40) DEF LocalsInv, TypeOK
  <1>5. MemInv'
    <2>1. \A o \in Offsets : Fits(o, mem'[o])
      BY <1>o, ZenonT(60) DEF MemInv, Fits, WithState, TypeOK, Cells
    <2>2. \A o \in Offsets : /\ mem[o].st = "data" => mem'[o].st = "data"
                             /\ mem[o].size = mem'[o].size
      BY <1>o DEF WithState, TypeOK, Cells
    <2>3. ASSUME NEW t \in Senders, spc'[t] \in {"wrap", "copy", "commit"}
          PROVE  \/ mem'[Offset(shead'[t])].st = "data"
                 \/ mem'[Offset(shead'[t])].size # 0
      <3>1. shead'[t] = shead[t] /\ spc[t] \in {"wrap", "copy", "commit"}
        BY <2>3 DEF TypeOK
      <3>2. Offset(shead[t]) \in Offsets
        BY OffsetAligned DEF TypeOK, AlignedInv
      <3> QED
        BY <2>2, <3>1, <3>2 DEF MemInv
    <2> QED
      BY <2>1, <2>3 DEF MemInv, TypeOK
  <1> QED
    BY <1>1, <1>2, <1>3, <1>4, <1>5

LEMMA ProceedInv ==
    ASSUME IInv, NEW s \in Senders, Proceed(s)
    PROVE  IInv'
  <1> USE Constants DEF IInv, Proceed, Continue, Goto, block, locals, senders, worker, faults, history
  <1>1. TypeOK'
    BY DEF TypeOK, SenderPCs, WorkerPCs, Results
  <1>2. AlignedInv'
    BY DEF AlignedInv, TypeOK
  <1>3. HeadUsable'
    BY DEF HeadUsable, TypeOK
  <1>4. LocalsInv'
    BY DEF LocalsInv, TypeOK
  <1>5. MemInv'
    BY DEF MemInv, TypeOK
  <1> QED
    BY <1>1, <1>2, <1>3, <1>4, <1>5

LEMMA AbandonInv ==
    ASSUME IInv, NEW s \in Senders, Abandon(s)
    PROVE  IInv'
  <1> USE Constants DEF IInv, Abandon, Return, Finish, block, locals, senders, worker, faults, history
  <1>0. 0 % Align = 0
    BY ModZero
  <1>1. TypeOK'
    BY DEF TypeOK, SenderPCs, WorkerPCs, Results
  <1>2. AlignedInv'
    BY <1>0 DEF AlignedInv, TypeOK
  <1>3. HeadUsable'
    BY DEF HeadUsable, TypeOK
  <1>4. LocalsInv'
    BY DEF LocalsInv, TypeOK
  <1>5. MemInv'
    BY DEF MemInv, TypeOK
  <1> QED
    BY <1>1, <1>2, <1>3, <1>4, <1>5

LEMMA WriteHeaderInv ==
    ASSUME IInv, NEW s \in Senders, WriteHeader(s)
    PROVE  IInv'
  <1> USE Constants DEF IInv, WriteHeader, Mark, Goto, block, locals, senders, worker, faults, history
  <1>0. /\ shead[s] \in Nat /\ shead[s] % Align = 0 /\ sgen[s] \in Nat
        /\ ssize[s] \in MsgSizes
    BY DEF TypeOK, AlignedInv, LocalsInv
  <1>r. /\ ssize[s] \in Nat \ {0} /\ Reserved(ssize[s]) \in Nat
        /\ ssize[s] + HdrSize <= Reserved(ssize[s]) /\ Reserved(ssize[s]) % Align = 0
    BY <1>0, ReservedFacts
  <1>o. Offset(shead[s]) \in Offsets /\ Offset(shead[s]) \in 0..(BlockSize - 1)
    BY <1>0, OffsetAligned, OffsetInBlock
  <1>w. Offset(shead[s]) + Reserved(ssize[s]) <= UsableLimit
    BY DEF LocalsInv
  <1>1. TypeOK'
    <2>1. mem' \in [Offsets -> Cells]
      <3>1. /\ Offset(shead[s]) \in Nat /\ sgen[s] \in Nat /\ ssize[s] \in Nat /\ 0 \in Nat
            /\ Reserved(ssize[s]) \in Nat /\ mem \in [Offsets -> Cells]
        BY <1>0, <1>r, <1>o DEF TypeOK
      <3> QED
        BY <3>1, <1>w, WithHeaderType, Zenon
    <2> QED
      BY <2>1 DEF TypeOK, SenderPCs
  <1>2. AlignedInv'
    <2>1. \A o \in Offsets : mem'[o].size % Align = 0
      BY <1>0, <1>r, <1>w, ModZero DEF WithHeader, AlignedInv, Header, Data
    <2> QED
      BY <2>1 DEF AlignedInv, TypeOK
  <1>3. HeadUsable'
    BY DEF HeadUsable, TypeOK
  <1>4. LocalsInv'
    BY DEF LocalsInv, TypeOK
  <1>5. MemInv'
    <2>1. \A o \in Offsets : Fits(o, mem'[o])
      BY <1>0, <1>r, <1>w, <1>o DEF MemInv, LocalsInv, Fits, WithHeader, Header, Data, UsableLimit
    <2>2. ASSUME NEW t \in Senders, spc'[t] \in {"wrap", "copy", "commit"}
          PROVE  \/ mem'[Offset(shead[t])].st = "data"
                 \/ mem'[Offset(shead[t])].size # 0
      <3>1. Offset(shead[t]) \in Offsets
        BY OffsetAligned DEF TypeOK, AlignedInv
      <3>2. CASE Offset(shead[t]) = Offset(shead[s])
        BY <1>0, <1>r, <1>w, <3>1, <3>2 DEF WithHeader, Header
      <3>3. CASE Offset(shead[t]) # Offset(shead[s])
        <4>1. t # s
          BY <3>3
        <4>2. spc[t] \in {"wrap", "copy", "commit"}
          BY <2>2, <4>1 DEF TypeOK
        <4> QED
          BY <4>2, <3>1, <3>3 DEF MemInv, WithHeader, Data
      <3> QED
        BY <3>2, <3>3
    <2> QED
      BY <2>1, <2>2 DEF MemInv, TypeOK
  <1> QED
    BY <1>1, <1>2, <1>3, <1>4, <1>5

LEMMA WritePayloadInv ==
    ASSUME IInv, NEW s \in Senders, WritePayload(s)
    PROVE  IInv'
  <1> USE Constants DEF IInv, WritePayload, Goto, block, locals, senders, worker, faults, history
  <1>0. /\ shead[s] \in Nat /\ shead[s] % Align = 0 /\ sgen[s] \in Nat
        /\ ssize[s] \in MsgSizes
    BY DEF TypeOK, AlignedInv, LocalsInv
  <1>r. /\ ssize[s] \in Nat \ {0} /\ Reserved(ssize[s]) \in Nat
        /\ ssize[s] + HdrSize <= Reserved(ssize[s]) /\ Reserved(ssize[s]) % Align = 0
    BY <1>0, ReservedFacts
  <1>o. Offset(shead[s]) \in Offsets /\ Offset(shead[s]) \in 0..(BlockSize - 1)
    BY <1>0, OffsetAligned, OffsetInBlock
  <1>m. Msg(s) \in Msgs
    BY DEF LocalsInv, TypeOK, Msg, Msgs
  <1>c. \A o \in Offsets :
          \/ mem'[o] = mem[o]
          \/ mem'[o] \in Cells /\ mem'[o].st = "data" /\ mem'[o].size = 0
    BY <1>o, <1>r, <1>m, WithPayloadCells, SMTT(40) DEF TypeOK
  <1>1. TypeOK'
    <2>1. mem' \in [Offsets -> Cells]
      BY <1>c DEF WithPayload, TypeOK
    <2> QED
      BY <2>1 DEF TypeOK, SenderPCs
  <1>2. AlignedInv'
    <2>1. 0 % Align = 0
      BY ModZero
    <2>2. \A o \in Offsets : mem'[o].size % Align = 0
      BY <1>c, <2>1 DEF AlignedInv
    <2> QED
      BY <2>2 DEF AlignedInv, TypeOK
  <1>3. HeadUsable'
    BY DEF HeadUsable, TypeOK
  <1>4. LocalsInv'
    BY DEF LocalsInv, TypeOK
  <1>5. MemInv'
    <2>1. \A o \in Offsets : Fits(o, mem'[o])
      BY <1>c DEF MemInv, Fits
    <2>2. ASSUME NEW t \in Senders, spc'[t] \in {"wrap", "copy", "commit"}
          PROVE  \/ mem'[Offset(shead[t])].st = "data"
                 \/ mem'[Offset(shead[t])].size # 0
      <3>1. Offset(shead[t]) \in Offsets /\ spc[t] \in {"wrap", "copy", "commit"}
        BY <2>2, OffsetAligned DEF TypeOK, AlignedInv
      <3> QED
        BY <1>c, <3>1 DEF MemInv
    <2> QED
      BY <2>1, <2>2 DEF MemInv, TypeOK
  <1> QED
    BY <1>1, <1>2, <1>3, <1>4, <1>5

LEMMA CommitInv ==
    ASSUME IInv, NEW s \in Senders, Commit(s)
    PROVE  IInv'
  <1> USE Constants DEF IInv, Commit, Goto, block, locals, senders, worker, faults, history
  <1>0. /\ shead[s] \in Nat /\ shead[s] % Align = 0 /\ sgen[s] \in Nat
        /\ ssize[s] \in MsgSizes
    BY DEF TypeOK, AlignedInv, LocalsInv
  <1>r. /\ ssize[s] \in Nat \ {0} /\ Reserved(ssize[s]) \in Nat
        /\ ssize[s] + HdrSize <= Reserved(ssize[s]) /\ Reserved(ssize[s]) % Align = 0
    BY <1>0, ReservedFacts
  <1>o. Offset(shead[s]) \in Offsets /\ Offset(shead[s]) \in 0..(BlockSize - 1)
    BY <1>0, OffsetAligned, OffsetInBlock
  <1>m. Msg(s) \in Msgs
    BY DEF LocalsInv, TypeOK, Msg, Msgs
  <1>1. TypeOK'
    <2>1. mem' \in [Offsets -> Cells]
      BY <1>o, WithStateType DEF TypeOK, States
    <2>2. shead' \in [Senders -> Nat] /\ stries' \in [Senders -> Nat]
      BY <1>0 DEF TypeOK
    <2> QED
      BY <2>1, <2>2, <1>m DEF TypeOK, SenderPCs
  <1>2. AlignedInv'
    <2>1. \A o \in Offsets : mem'[o].size % Align = 0
      BY <1>o DEF WithState, AlignedInv, TypeOK, Cells
    <2> QED
      BY <2>1 DEF AlignedInv, TypeOK
  <1>3. HeadUsable'
    BY DEF HeadUsable, TypeOK
  <1>4. LocalsInv'
    BY DEF LocalsInv, TypeOK
  <1>5. MemInv'
    <2>1. \A o \in Offsets : Fits(o, mem'[o])
      BY <1>o, ZenonT(60) DEF MemInv, Fits, WithState, TypeOK, Cells
    <2>2. \A o \in Offsets : /\ mem[o].st = "data" => mem'[o].st = "data"
                             /\ mem[o].size = mem'[o].size
      BY <1>o DEF WithState, TypeOK, Cells
    <2>3. ASSUME NEW t \in Senders, spc'[t] \in {"wrap", "copy", "commit"}
          PROVE  \/ mem'[Offset(shead'[t])].st = "data"
                 \/ mem'[Offset(shead'[t])].size # 0
      <3>1. shead'[t] = shead[t] /\ spc[t] \in {"wrap", "copy", "commit"}
        BY <2>3 DEF TypeOK
      <3>2. Offset(shead[t]) \in Offsets
        BY OffsetAligned DEF TypeOK, AlignedInv
      <3> QED
        BY <2>2, <3>1, <3>2 DEF MemInv
    <2> QED
      BY <2>1, <2>3 DEF MemInv, TypeOK
  <1> QED
    BY <1>1, <1>2, <1>3, <1>4, <1>5

LEMMA PostInv ==
    ASSUME IInv, NEW s \in Senders, Post(s)
    PROVE  IInv'
  <1> USE Constants DEF IInv, Post, Finish, Posted, block, locals, senders, worker, faults, history
  <1>0. Msg(s) \in Msgs
    BY DEF LocalsInv, TypeOK, Msg, Msgs
  <1>z. 0 % Align = 0
    BY ModZero
  <1>1. TypeOK'
    BY <1>0, SMTT(40) DEF TypeOK, SenderPCs, Results
  <1>2. AlignedInv'
    BY <1>z DEF AlignedInv, TypeOK
  <1>3. HeadUsable'
    BY DEF HeadUsable, TypeOK
  <1>4. LocalsInv'
    BY DEF LocalsInv, TypeOK
  <1>5. MemInv'
    BY DEF MemInv, TypeOK
  <1> QED
    BY <1>1, <1>2, <1>3, <1>4, <1>5

LEMMA SenderCrashInv ==
    ASSUME IInv, NEW s \in Senders, SenderCrash(s)
    PROVE  IInv'
  <1> USE Constants DEF IInv, SenderCrash, Finish, block, locals, senders, worker, faults, history
  <1>0. 0 % Align = 0
    BY ModZero
  <1>1. TypeOK'
    BY BoundsAssumption, SMTT(40) DEF TypeOK, SenderPCs, Results
  <1>2. AlignedInv'
    BY <1>0 DEF AlignedInv, TypeOK
  <1>3. HeadUsable'
    BY DEF HeadUsable, TypeOK
  <1>4. LocalsInv'
    BY DEF LocalsInv, TypeOK
  <1>5. MemInv'
    BY DEF MemInv, TypeOK
  <1> QED
    BY <1>1, <1>2, <1>3, <1>4, <1>5

LEMMA WaitInv ==
    ASSUME IInv, Wait
    PROVE  IInv'
  <1> USE Constants DEF IInv, Wait, Signalled, block, locals, senders, worker, faults, history
  <1>1. TypeOK'
    BY DEF TypeOK, SenderPCs, WorkerPCs, Results
  <1>2. AlignedInv'
    BY DEF AlignedInv, TypeOK
  <1>3. HeadUsable'
    BY DEF HeadUsable, TypeOK
  <1>4. LocalsInv'
    BY DEF LocalsInv, TypeOK
  <1>5. MemInv'
    BY DEF MemInv, TypeOK
  <1> QED
    BY <1>1, <1>2, <1>3, <1>4, <1>5

LEMMA RecvLoadInv ==
    ASSUME IInv, RecvLoad
    PROVE  IInv'
  <1> USE Constants DEF IInv, RecvLoad, Look, RecvEntry, block, locals, senders, worker, faults, history
  <1>1. TypeOK'
    BY DEF TypeOK, SenderPCs, WorkerPCs, Results
  <1>2. AlignedInv'
    BY DEF AlignedInv, TypeOK
  <1>3. HeadUsable'
    BY DEF HeadUsable, TypeOK
  <1>4. LocalsInv'
    BY DEF LocalsInv, TypeOK
  <1>5. MemInv'
    BY DEF MemInv, TypeOK
  <1> QED
    BY <1>1, <1>2, <1>3, <1>4, <1>5

LEMMA RetryInv ==
    ASSUME IInv, Retry
    PROVE  IInv'
  <1> USE Constants DEF IInv, Retry, Look, block, locals, senders, worker, faults, history
  <1>1. TypeOK'
    BY DEF TypeOK, SenderPCs, WorkerPCs, Results
  <1>2. AlignedInv'
    BY DEF AlignedInv, TypeOK
  <1>3. HeadUsable'
    BY DEF HeadUsable, TypeOK
  <1>4. LocalsInv'
    BY DEF LocalsInv, TypeOK
  <1>5. MemInv'
    BY DEF MemInv, TypeOK
  <1> QED
    BY <1>1, <1>2, <1>3, <1>4, <1>5

LEMMA TimeoutFlushInv ==
    ASSUME IInv, TimeoutFlush
    PROVE  IInv'
  <1> USE Constants DEF IInv, TimeoutFlush, NotYetPublished, FlushBacklog, Discard, block, locals, senders, worker, faults, history
  <1>0. \A t \in Senders : spc[t] # "idle" => Msg(t) \in Msgs
    BY DEF LocalsInv, TypeOK, Msg, Msgs
  <1>1. TypeOK'
    <2>1. dropped' \subseteq Msgs
      BY <1>0, Zenon DEF TypeOK, Inside
    <2>2. strayed' \in BOOLEAN
      BY Zenon DEF TypeOK
    <2> QED
      BY <2>1, <2>2 DEF TypeOK, SenderPCs, WorkerPCs
  <1>2. AlignedInv'
    BY DEF AlignedInv, TypeOK
  <1>3. HeadUsable'
    BY DEF HeadUsable, TypeOK
  <1>4. LocalsInv'
    BY DEF LocalsInv, TypeOK
  <1>5. MemInv'
    BY DEF MemInv, TypeOK
  <1> QED
    BY <1>1, <1>2, <1>3, <1>4, <1>5

LEMMA EpochFlushInv ==
    ASSUME IInv, EpochFlush
    PROVE  IInv'
  <1> USE Constants DEF IInv, EpochFlush, FlushBacklog, Discard, block, locals, senders, worker, faults, history
  <1>0. \A t \in Senders : spc[t] # "idle" => Msg(t) \in Msgs
    BY DEF LocalsInv, TypeOK, Msg, Msgs
  <1>1. TypeOK'
    <2>1. dropped' \subseteq Msgs
      BY <1>0, Zenon DEF TypeOK, Inside
    <2>2. strayed' \in BOOLEAN /\ misread' \in BOOLEAN
      BY Zenon DEF TypeOK, Trust
    <2> QED
      BY <2>1, <2>2 DEF TypeOK, SenderPCs, WorkerPCs
  <1>2. AlignedInv'
    BY DEF AlignedInv, TypeOK
  <1>3. HeadUsable'
    BY DEF HeadUsable, TypeOK
  <1>4. LocalsInv'
    BY DEF LocalsInv, TypeOK
  <1>5. MemInv'
    BY DEF MemInv, TypeOK
  <1> QED
    BY <1>1, <1>2, <1>3, <1>4, <1>5

LEMMA SkipWrapInv ==
    ASSUME IInv, SkipWrap
    PROVE  IInv'
  <1> USE Constants DEF IInv, SkipWrap, Trust, block, locals, senders, worker, faults, history
  <1>0. Offset(tail) \in Offsets /\ AtTail \in Cells /\ AtTail.size % Align = 0
    BY OffsetAligned DEF TypeOK, AlignedInv, AtTail
  <1>z. AtTail.size \in Nat /\ AtTail.len \in Nat
    BY <1>0 DEF Cells
  <1>1. TypeOK'
    BY <1>z, SMTT(40) DEF TypeOK, WorkerPCs
  <1>2. AlignedInv'
    BY <1>0, <1>z, MultipleSum DEF AlignedInv, TypeOK
  <1>3. HeadUsable'
    BY DEF HeadUsable, TypeOK
  <1>4. LocalsInv'
    BY DEF LocalsInv, TypeOK
  <1>5. MemInv'
    BY DEF MemInv, TypeOK
  <1> QED
    BY <1>1, <1>2, <1>3, <1>4, <1>5

LEMMA ReloadHeadInv ==
    ASSUME IInv, ReloadHead
    PROVE  IInv'
  <1> USE Constants DEF IInv, ReloadHead, Look, block, locals, senders, worker, faults, history
  <1>1. TypeOK'
    BY DEF TypeOK, SenderPCs, WorkerPCs, Results
  <1>2. AlignedInv'
    BY DEF AlignedInv, TypeOK
  <1>3. HeadUsable'
    BY DEF HeadUsable, TypeOK
  <1>4. LocalsInv'
    BY DEF LocalsInv, TypeOK
  <1>5. MemInv'
    BY DEF MemInv, TypeOK
  <1> QED
    BY <1>1, <1>2, <1>3, <1>4, <1>5

LEMMA FoundInv ==
    ASSUME IInv, Found
    PROVE  IInv'
  <1> USE Constants DEF IInv, Found, Trust, block, locals, senders, worker, faults, history
  <1>1. TypeOK'
    BY DEF TypeOK, SenderPCs, WorkerPCs, Results
  <1>2. AlignedInv'
    BY DEF AlignedInv, TypeOK
  <1>3. HeadUsable'
    BY DEF HeadUsable, TypeOK
  <1>4. LocalsInv'
    BY DEF LocalsInv, TypeOK
  <1>5. MemInv'
    BY DEF MemInv, TypeOK
  <1> QED
    BY <1>1, <1>2, <1>3, <1>4, <1>5

LEMMA CopyInv ==
    ASSUME IInv, Copy
    PROVE  IInv'
  <1> USE Constants DEF IInv, Copy, block, locals, senders, worker, faults, history
  <1>0. Offset(tail) \in Offsets /\ AtTail \in Cells /\ AtTail.size % Align = 0
    BY OffsetAligned DEF TypeOK, AlignedInv, AtTail
  <1>z. AtTail.size \in Nat /\ AtTail.len \in Nat
    BY <1>0 DEF Cells
  <1>1. TypeOK'
    <2>1. rpayload' \subseteq Msgs \cup {None}
      BY SMTT(40) DEF ReadPayload, PayloadCells, TypeOK, Cells, None
    <2> QED
      BY <2>1, <1>z DEF TypeOK, WorkerPCs
  <1>2. AlignedInv'
    BY <1>0 DEF AlignedInv, TypeOK
  <1>3. HeadUsable'
    BY DEF HeadUsable, TypeOK
  <1>4. LocalsInv'
    BY DEF LocalsInv, TypeOK
  <1>5. MemInv'
    BY DEF MemInv, TypeOK
  <1> QED
    BY <1>1, <1>2, <1>3, <1>4, <1>5

LEMMA CorruptedInv ==
    ASSUME IInv, Corrupted
    PROVE  IInv'
  <1> USE Constants DEF IInv, Corrupted, Trust, block, locals, senders, worker, faults, history
  <1>1. TypeOK'
    BY DEF TypeOK, SenderPCs, WorkerPCs, Results
  <1>2. AlignedInv'
    BY DEF AlignedInv, TypeOK
  <1>3. HeadUsable'
    BY DEF HeadUsable, TypeOK
  <1>4. LocalsInv'
    BY DEF LocalsInv, TypeOK
  <1>5. MemInv'
    BY DEF MemInv, TypeOK
  <1> QED
    BY <1>1, <1>2, <1>3, <1>4, <1>5

LEMMA AdvanceInv ==
    ASSUME IInv, Advance
    PROVE  IInv'
  <1> USE Constants DEF IInv, Advance, Past, block, locals, senders, worker, faults, history
  <1>0. 0 % Align = 0
    BY ModZero
  <1>1. TypeOK'
    BY DEF TypeOK, SenderPCs, WorkerPCs, Results
  <1>2. AlignedInv'
    BY <1>0, MultipleSum DEF AlignedInv, TypeOK
  <1>3. HeadUsable'
    BY DEF HeadUsable, TypeOK
  <1>4. LocalsInv'
    BY DEF LocalsInv, TypeOK
  <1>5. MemInv'
    BY DEF MemInv, TypeOK
  <1> QED
    BY <1>1, <1>2, <1>3, <1>4, <1>5

LEMMA ReinitBeginInv ==
    ASSUME IInv, ReinitBegin
    PROVE  IInv'
  <1> USE Constants DEF IInv, ReinitBegin, block, locals, senders, worker, faults, history
  <1>1. TypeOK'
    BY DEF TypeOK, SenderPCs, WorkerPCs, Results
  <1>2. AlignedInv'
    BY DEF AlignedInv, TypeOK
  <1>3. HeadUsable'
    BY DEF HeadUsable, TypeOK
  <1>4. LocalsInv'
    BY DEF LocalsInv, TypeOK
  <1>5. MemInv'
    BY DEF MemInv, TypeOK
  <1> QED
    BY <1>1, <1>2, <1>3, <1>4, <1>5

LEMMA ReinitGenerationInv ==
    ASSUME IInv, ReinitGeneration
    PROVE  IInv'
  <1> USE Constants DEF IInv, ReinitGeneration, block, locals, senders, worker, faults, history
  <1>1. TypeOK'
    BY DEF TypeOK, SenderPCs, WorkerPCs, Results
  <1>2. AlignedInv'
    BY DEF AlignedInv, TypeOK
  <1>3. HeadUsable'
    BY DEF HeadUsable, TypeOK
  <1>4. LocalsInv'
    BY DEF LocalsInv, TypeOK
  <1>5. MemInv'
    BY DEF MemInv, TypeOK
  <1> QED
    BY <1>1, <1>2, <1>3, <1>4, <1>5

LEMMA ReinitHeadInv ==
    ASSUME IInv, ReinitHead
    PROVE  IInv'
  <1> USE Constants DEF IInv, ReinitHead, Discard, block, locals, senders, worker, faults, history
  <1>z. 0 % Align = 0 /\ Offset(0) = 0
    BY ModZero DEF Offset
  <1>1. TypeOK'
    BY DEF TypeOK, SenderPCs, WorkerPCs, Results
  <1>2. AlignedInv'
    BY <1>z DEF AlignedInv, TypeOK
  <1>3. HeadUsable'
    BY <1>z DEF HeadUsable, TypeOK
  <1>4. LocalsInv'
    BY DEF LocalsInv, TypeOK
  <1>5. MemInv'
    BY DEF MemInv, TypeOK
  <1> QED
    BY <1>1, <1>2, <1>3, <1>4, <1>5

LEMMA ReinitTailInv ==
    ASSUME IInv, ReinitTail
    PROVE  IInv'
  <1> USE Constants DEF IInv, ReinitTail, block, locals, senders, worker, faults, history
  <1>0. 0 % Align = 0
    BY ModZero
  <1>1. TypeOK'
    <2>1. strayed' \in BOOLEAN
      BY Zenon DEF TypeOK
    <2> QED
      BY <2>1 DEF TypeOK, SenderPCs, WorkerPCs, Results
  <1>2. AlignedInv'
    BY <1>0 DEF AlignedInv, TypeOK
  <1>3. HeadUsable'
    BY DEF HeadUsable, TypeOK
  <1>4. LocalsInv'
    BY DEF LocalsInv, TypeOK
  <1>5. MemInv'
    BY DEF MemInv, TypeOK
  <1> QED
    BY <1>1, <1>2, <1>3, <1>4, <1>5

LEMMA ReinitReadyInv ==
    ASSUME IInv, ReinitReady
    PROVE  IInv'
  <1> USE Constants DEF IInv, ReinitReady, Discard, block, locals, senders, worker, faults, history
  <1>0. \A t \in Senders : spc[t] # "idle" => Msg(t) \in Msgs
    BY DEF LocalsInv, TypeOK, Msg, Msgs
  <1>1. TypeOK'
    <2>1. dropped' \subseteq Msgs
      BY <1>0, Zenon DEF TypeOK
    <2>2. strayed' \in BOOLEAN
      BY Zenon DEF TypeOK
    <2> QED
      BY <2>1, <2>2 DEF TypeOK, SenderPCs, WorkerPCs
  <1>2. AlignedInv'
    BY DEF AlignedInv, TypeOK
  <1>3. HeadUsable'
    BY DEF HeadUsable, TypeOK
  <1>4. LocalsInv'
    BY DEF LocalsInv, TypeOK
  <1>5. MemInv'
    BY DEF MemInv, TypeOK
  <1> QED
    BY <1>1, <1>2, <1>3, <1>4, <1>5

LEMMA ConsumerCrashInv ==
    ASSUME IInv, ConsumerCrash
    PROVE  IInv'
  <1> USE Constants DEF IInv, ConsumerCrash, block, locals, senders, worker, faults, history
  <1>0. 0 % Align = 0
    BY ModZero
  <1>1. TypeOK'
    BY BoundsAssumption DEF TypeOK, WorkerPCs
  <1>2. AlignedInv'
    BY <1>0 DEF AlignedInv, TypeOK
  <1>3. HeadUsable'
    BY DEF HeadUsable, TypeOK
  <1>4. LocalsInv'
    BY DEF LocalsInv, TypeOK
  <1>5. MemInv'
    BY DEF MemInv, TypeOK
  <1> QED
    BY <1>1, <1>2, <1>3, <1>4, <1>5

LEMMA ConsumerRestartInv ==
    ASSUME IInv, ConsumerRestart
    PROVE  IInv'
  <1> USE Constants DEF IInv, ConsumerRestart, Look, block, locals, senders, worker, faults, history
  <1>1. TypeOK'
    BY DEF TypeOK, SenderPCs, WorkerPCs, Results
  <1>2. AlignedInv'
    BY DEF AlignedInv, TypeOK
  <1>3. HeadUsable'
    BY DEF HeadUsable, TypeOK
  <1>4. LocalsInv'
    BY DEF LocalsInv, TypeOK
  <1>5. MemInv'
    BY DEF MemInv, TypeOK
  <1> QED
    BY <1>1, <1>2, <1>3, <1>4, <1>5

LEMMA NextInv == IInv /\ [Next]_vars => IInv'
  <1> SUFFICES ASSUME IInv, [Next]_vars PROVE IInv'
    OBVIOUS
  <1>1. ASSUME NEW s \in Senders, NEW n \in MsgSizes, Send(s, n) PROVE IInv'
    BY <1>1, SendInv
  <1>2. ASSUME NEW s \in Senders, SenderStep(s) PROVE IInv'
    BY <1>2, LoadGenerationInv, LoadHeadInv, AdmitInv, ReloadInv, RejectInv,
       CasFailInv, CasWrapInv, CasDataInv, WriteWrapHeaderInv, StoreWrapInv,
       ProceedInv, AbandonInv, WriteHeaderInv, WritePayloadInv, CommitInv,
       PostInv
       DEF SenderStep
  <1>3. ASSUME NEW s \in Senders, SenderCrash(s) PROVE IInv'
    BY <1>3, SenderCrashInv
  <1>4. CASE WorkerStep
    BY <1>4, WaitInv, RecvLoadInv, RetryInv, TimeoutFlushInv, EpochFlushInv,
       SkipWrapInv, ReloadHeadInv, FoundInv, CopyInv, CorruptedInv,
       AdvanceInv, ReinitBeginInv, ReinitGenerationInv, ReinitHeadInv, ReinitTailInv,
       ReinitReadyInv
       DEF WorkerStep, ReinitStep
  <1>5. CASE ConsumerCrash \/ ConsumerRestart
    BY <1>5, ConsumerCrashInv, ConsumerRestartInv
  <1>6. CASE Done \/ UNCHANGED vars
    <2>1. UNCHANGED vars
      BY <1>6 DEF Done
    <2> QED
      BY <2>1 DEF vars, block, locals, senders, worker, faults, history, IInv, TypeOK,
         AlignedInv, HeadUsable, LocalsInv, MemInv
  <1> QED
    BY <1>1, <1>2, <1>3, <1>4, <1>5, <1>6 DEF Next

\* The strengthening all results below rest on holds in every state: no load,
\* store, crash, flush or re-init of the ring leads out of it.
THEOREM InductiveInvariant == Spec => []IInv
  BY InitInv, NextInv, PTL DEF Spec

\* The block, the locals of every send and the worker keep their types; in
\* particular every cell the reader looks at is a cell of the block.
THEOREM TypeCorrect == Spec => []TypeOK
  <1>1. IInv => TypeOK
    BY DEF IInv
  <1> QED
    BY <1>1, InductiveInvariant, PTL

\* head never leaves the usable zone, so that a wrap header always fits and no
\* send returns AllocatorCorrupted, for every block size, alignment, set of
\* message sizes and number of senders, crashes and re-inits.
THEOREM HeadAlwaysUsable == Spec => []HeadUsable
  <1>1. IInv => HeadUsable
    BY DEF IInv
  <1> QED
    BY <1>1, InductiveInvariant, PTL

\* Every header in memory describes bytes of the block: no payload copy, by a
\* sender or by the reader, runs past its end.
THEOREM RecordsStayInBlock == Spec => []RecordsInBlock
  <1>1. IInv => RecordsInBlock
    BY Constants DEF IInv, MemInv, Fits, RecordsInBlock
  <1> QED
    BY <1>1, InductiveInvariant, PTL

=============================================================================
