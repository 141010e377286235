------------------------------ MODULE ShmRing ------------------------------
(***************************************************************************)
(* The shared-memory label ring of one node: ShmSend::send (many writing   *)
(* processes), ShmRecv and the ShmRecvWorker thread (one reader).          *)
(*                                                                         *)
(* The block holds a lock-free byte ring.  head_bytes and tail_bytes grow  *)
(* for the life of a generation and are taken modulo DATA_BLOCK_SIZE to    *)
(* address memory.  A writer reserves bytes by a compare-exchange on       *)
(* head_bytes, then marks its record WRITING, copies the payload, stores   *)
(* COMMITTED and posts the named semaphore; the reader consumes at         *)
(* tail_bytes.  Every atomic load, store or compare-exchange that another  *)
(* process can observe is a step of its own.                               *)
(***************************************************************************)
EXTENDS Integers, Sequences, FiniteSets

CONSTANTS
    Senders,      \* the processes that write into this block
    BlockSize,    \* ShmLayout::DATA_BLOCK_SIZE
    HdrSize,      \* sizeof(RecordHeader)
    Align,        \* record alignment (8 in the code)
    MsgSizes,     \* the buf_size values passed to send
    MaxTries,     \* allocation attempts of one send (100 in the code)
    SlowWriters,  \* may a live writer be stalled for more than MAX_TIMEOUT_MS?
    MaxSends,     \* bound: sends per sender
    MaxCrashes,   \* bound: writer processes that die inside send
    MaxRestarts   \* bound: times the reading process dies and comes back

\* align_up, with a power of two for align the mask is rounding up.
AlignUp(n, a) == ((n + (a - 1)) \div a) * a

\* The space send needs for a payload of n bytes.
Reserved(n) == AlignUp(n + HdrSize, Align)

UsableLimit == BlockSize - HdrSize

ASSUME SizesAssumption ==
    /\ Align \in Nat \ {0}
    /\ BlockSize \in Nat /\ BlockSize % Align = 0
    /\ HdrSize \in Nat \ {0} /\ HdrSize % Align = 0 /\ HdrSize < BlockSize
    /\ MsgSizes \subseteq Nat \ {0}

\* Labels are far smaller than the block (1 MB against 128 MB): a wrap record
\* and the largest record fit together.
ASSUME BlockAssumption ==
    \A n \in MsgSizes : 2 * Reserved(n) + HdrSize <= BlockSize

ASSUME BoundsAssumption ==
    /\ MaxTries \in Nat /\ MaxSends \in Nat
    /\ MaxCrashes \in Nat /\ MaxRestarts \in Nat
    /\ SlowWriters \in BOOLEAN

VARIABLES
    state,       \* ShmHeader::state
    generation,  \* ShmMetaData::generation
    head,        \* ShmMetaData::head_bytes
    tail,        \* ShmMetaData::tail_bytes
    mem,         \* the data block, one cell per aligned offset
    sem,         \* count of the named semaphore
    spc,         \* where each sender is inside send
    sent,        \* number of sends each sender has started
    ssize,       \* send's buf_size
    sgen,        \* send's local gen
    shead,       \* send's local head
    stries,      \* send's loop counter
    result,      \* the code each sender's last send returned
    rpc,         \* where the recv worker is
    rsize,       \* recv's total_size of the record being copied
    rpayload,    \* the messages whose bytes were copied into recv_buf
    crashes, restarts,
    \* History, read by no step of the code:
    published,   \* messages whose record was stored COMMITTED
    acked,       \* messages whose send returned None
    delivered,   \* what was handed to the router, in order
    dropped,     \* messages a flush or a re-init may have discarded
    unmarked,    \* reserved positions whose header is not yet written
    misread,     \* the reader trusted the header of an unmarked reservation
    strayed      \* tail or head was moved under a live writer's reservation

block   == <<state, generation, head, tail, sem>>
locals  == <<sent, ssize, sgen, shead, stries>>
senders == <<spc, locals, result>>
worker  == <<rpc, rsize, rpayload>>
faults  == <<crashes, restarts>>
history == <<published, acked, delivered, dropped, unmarked, misread, strayed>>
vars == <<block, mem, senders, worker, faults, history>>

-----------------------------------------------------------------------------
(* Memory. *)

\* A message is its sender and its number.
Msgs == Senders \X (1..MaxSends)
None == <<>>

Offsets == {o \in 0..(BlockSize - 1) : o % Align = 0}

\* RecordHeader as the reader sees it, or eight bytes of somebody's payload
\* (st = "data": len is its place in that payload).  A payload never spells
\* MAGIC_NUM where a header's magic would be.
Cells == [st : {"writing", "committed", "wrap", "data"},
          size : Nat, len : Nat, epoch : Nat, msg : Msgs \cup {<<>>}]

Header(st, size, len, epoch) ==
    [st |-> st, size |-> size, len |-> len, epoch |-> epoch, msg |-> None]
Data(m, i) == [st |-> "data", size |-> 0, len |-> i, epoch |-> 0, msg |-> m]

\* A new block is zero filled, and WRITING = 0.
Zero == Header("writing", 0, 0, 0)

\* get_header_offset, within the data block.
Offset(pos) == pos % BlockSize

\* The state a header is given first (mutant: it is published at once).
MarkedAs_Published == "committed"
MarkedAs == "writing"

\* state.store(WRITING), then the other fields of the header at offset o.
WithHeader(o, size, len, epoch) ==
    [a \in Offsets |->
        IF a = o THEN Header(MarkedAs, size, len, epoch)
        ELSE IF o < a /\ a < o + HdrSize THEN Data(None, a - o)
        ELSE mem[a]]

\* Shm::write of len payload bytes after the header at offset o.
PayloadCells(o, len) == {a \in Offsets : o + HdrSize <= a /\ a < o + HdrSize + len}
WithPayload(o, len, m) ==
    [a \in Offsets |-> IF a \in PayloadCells(o, len) THEN Data(m, a - (o + HdrSize))
                                                    ELSE mem[a]]

\* A store to the state word at offset o.  If the bytes there have become
\* somebody else's payload, the store tears that payload.
WithState(o, st) ==
    [mem EXCEPT ![o] = IF @.st = "data" THEN [@ EXCEPT !.msg = None]
                                        ELSE [@ EXCEPT !.st = st]]

\* Shm::read of len payload bytes, and the worker's check that they start
\* with a label header: {} is a buffer the worker throws away.
ReadPayload(o, len) ==
    LET first == mem[o + HdrSize] IN
    IF first.st = "data" /\ first.len = 0
    THEN {mem[a].msg : a \in PayloadCells(o, len)}
    ELSE {}

-----------------------------------------------------------------------------
(* ShmSend::send. *)

Msg(s) == <<s, sent[s]>>

\* send returns; its locals go out of scope.
Finish(s, code) ==
    /\ spc' = [spc EXCEPT ![s] = "idle"]
    /\ result' = [result EXCEPT ![s] = code]
    /\ ssize' = [ssize EXCEPT ![s] = 0]
    /\ sgen' = [sgen EXCEPT ![s] = 0]
    /\ shead' = [shead EXCEPT ![s] = 0]
    /\ stries' = [stries EXCEPT ![s] = 0]

Goto(s, pc) == spc' = [spc EXCEPT ![s] = pc]

\* Steps that only look, and go on or return.
Continue(s, pc) ==
    Goto(s, pc) /\ UNCHANGED <<block, mem, locals, result, worker, faults, history>>
Return(s, code) ==
    Finish(s, code) /\ UNCHANGED <<block, mem, sent, worker, faults, history>>

\* The caller's next send, up to the first load of hdr->state.
Send(s, n) ==
    /\ spc[s] = "idle" /\ sent[s] < MaxSends
    /\ sent' = [sent EXCEPT ![s] = @ + 1]
    /\ IF state = "READY"
       THEN /\ Goto(s, "gen")
            /\ ssize' = [ssize EXCEPT ![s] = n]
            /\ UNCHANGED result
       ELSE /\ result' = [result EXCEPT ![s] = "BlockNotInitialized"]
            /\ UNCHANGED <<spc, ssize>>
    /\ UNCHANGED <<block, mem, sgen, shead, stries, worker, faults, history>>

LoadGeneration(s) ==
    /\ spc[s] = "gen"
    /\ IF Reserved(ssize[s]) > BlockSize
       THEN Return(s, "SizeTooLarge")
       ELSE /\ sgen' = [sgen EXCEPT ![s] = generation]
            /\ Goto(s, "head")
            /\ UNCHANGED <<block, mem, sent, ssize, shead, stries, result,
                           worker, faults, history>>

LoadHead(s) ==
    /\ spc[s] = "head"
    /\ shead' = [shead EXCEPT ![s] = head]
    /\ Goto(s, "tail")
    /\ UNCHANGED <<block, mem, sent, ssize, sgen, stries, result,
                   worker, faults, history>>

\* Mutants: a space check that forgets the record, a try that is not counted.
Filled_UsedOnly(h, t, r) == h - t
NextTry_Free(k) == k

Filled(h, t, r) == (h - t) + r
NextTry(k) == k + 1

\* What one pass of the allocation loop decides once it has loaded tail: h is
\* the local head, r the space needed, k the loop counter.
Admission(h, t, r, k) ==
    IF k >= MaxTries THEN "CouldNotAllocate"
    ELSE IF h < t THEN "reload"
    ELSE IF Filled(h, t, r) > BlockSize THEN "NotEnoughSpace"
    ELSE IF Offset(h) > UsableLimit THEN "AllocatorCorrupted"
    ELSE "admit"

Verdict(s) == Admission(shead[s], tail, Reserved(ssize[s]), stries[s])

Admit(s) == spc[s] = "tail" /\ Verdict(s) = "admit" /\ Continue(s, "cas")

\* The consumer moved tail after head was loaded: load head again.
Reload(s) ==
    /\ spc[s] = "tail" /\ Verdict(s) = "reload"
    /\ Goto(s, "head")
    /\ stries' = [stries EXCEPT ![s] = NextTry(@)]
    /\ UNCHANGED <<block, mem, sent, ssize, sgen, shead, result,
                   worker, faults, history>>

Reject(s) ==
    /\ spc[s] = "tail"
    /\ Verdict(s) \in {"CouldNotAllocate", "NotEnoughSpace", "AllocatorCorrupted"}
    /\ Return(s, Verdict(s))

\* Mutants: the wrap test ignores the wrap header, or the payload.
NeedsWrap_WholeBlock(h, r) == Offset(h) + r > BlockSize
NeedsWrap_HeaderOnly(h, r) == Offset(h) > UsableLimit

\* A record here would leave no room for a wrap header behind it.
NeedsWrap(h, r) == Offset(h) + r > UsableLimit
SpaceTilWrap(h) == BlockSize - Offset(h)

\* Does the compare-exchange find the head it expects?  (Mutant: a store.)
HeadIsMine_Store(s) == TRUE
HeadIsMine(s) == head = shead[s]

\* compare_exchange_weak: someone else moved head, or it failed spuriously.
CasFail(s) ==
    /\ spc[s] = "cas"
    /\ shead' = [shead EXCEPT ![s] = head]
    /\ stries' = [stries EXCEPT ![s] = NextTry(@)]
    /\ Goto(s, "tail")
    /\ UNCHANGED <<block, mem, sent, ssize, sgen, result, worker, faults, history>>

Reserve(s, n, pc) ==
    /\ head' = shead[s] + n
    /\ unmarked' = unmarked \cup {shead[s]}
    /\ Goto(s, pc)
    /\ UNCHANGED <<state, generation, tail, sem, mem, locals, result, worker,
                   faults, published, acked, delivered, dropped, misread, strayed>>

CasWrap(s) ==
    /\ spc[s] = "cas" /\ HeadIsMine(s)
    /\ NeedsWrap(shead[s], Reserved(ssize[s]))
    /\ Reserve(s, SpaceTilWrap(shead[s]), "wraphdr")

CasData(s) ==
    /\ spc[s] = "cas" /\ HeadIsMine(s)
    /\ ~NeedsWrap(shead[s], Reserved(ssize[s]))
    /\ Reserve(s, Reserved(ssize[s]), "check")

Mark(s, size, len, pc) ==
    /\ mem' = WithHeader(Offset(shead[s]), size, len, sgen[s])
    /\ unmarked' = unmarked \ {shead[s]}
    /\ Goto(s, pc)
    /\ UNCHANGED <<block, locals, result, worker, faults,
                   published, acked, delivered, dropped, misread, strayed>>

WriteWrapHeader(s) ==
    /\ spc[s] = "wraphdr"
    /\ Mark(s, SpaceTilWrap(shead[s]), 0, "wrap")

\* state.store(WRAP), head = new_head, and the next pass of the loop.  The
\* semaphore is not posted for a wrap record.
StoreWrap(s) ==
    /\ spc[s] = "wrap"
    /\ mem' = WithState(Offset(shead[s]), "wrap")
    /\ shead' = [shead EXCEPT ![s] = @ + SpaceTilWrap(@)]
    /\ stries' = [stries EXCEPT ![s] = NextTry(@)]
    /\ Goto(s, "tail")
    /\ UNCHANGED <<block, sent, ssize, sgen, result, worker, faults, history>>

SameBlock(s) == state = "READY" /\ generation = sgen[s]

Proceed(s) == spc[s] = "check" /\ SameBlock(s) /\ Continue(s, "write")

\* The block was re-initialised while space was being allocated.
Abandon(s) == spc[s] = "check" /\ ~SameBlock(s) /\ Return(s, "BlockReinitialized")

WriteHeader(s) ==
    /\ spc[s] = "write"
    /\ Mark(s, Reserved(ssize[s]), ssize[s], "copy")

WritePayload(s) ==
    /\ spc[s] = "copy"
    /\ mem' = WithPayload(Offset(shead[s]), ssize[s], Msg(s))
    /\ Goto(s, "commit")
    /\ UNCHANGED <<block, locals, result, worker, faults, history>>

Commit(s) ==
    /\ spc[s] = "commit"
    /\ mem' = WithState(Offset(shead[s]), "committed")
    /\ published' = published \cup {Msg(s)}
    /\ Goto(s, "post")
    /\ UNCHANGED <<block, locals, result, worker, faults,
                   acked, delivered, dropped, unmarked, misread, strayed>>

\* sem_post.  (Mutant: the reader is not notified.)
Posted_Silent(n) == n
Posted(n) == n + 1

Post(s) ==
    /\ spc[s] = "post"
    /\ sem' = Posted(sem)
    /\ acked' = acked \cup {Msg(s)}
    /\ Finish(s, "None")
    /\ UNCHANGED <<state, generation, head, tail, mem, sent, worker, faults,
                   published, delivered, dropped, unmarked, misread, strayed>>

\* The writing process dies inside send and is started again.
SenderCrash(s) ==
    /\ spc[s] # "idle" /\ crashes < MaxCrashes
    /\ crashes' = crashes + 1
    /\ Finish(s, "Crashed")
    /\ UNCHANGED <<block, mem, sent, worker, restarts, history>>

-----------------------------------------------------------------------------
(* The reader: ShmRecvWorker::run, get_next_record and ShmRecv::recv.      *)
(* Only the reader stores state, generation and tail, so its own copies of *)
(* them never differ from the block's.                                     *)

DeliveredMsgs == UNION {delivered[i] : i \in DOMAIN delivered}

\* The places in send between a successful compare-exchange and the last
\* store to the reserved bytes.
Inside(s) == spc[s] \in {"wraphdr", "wrap", "check", "write", "copy", "commit"}

\* History of a step that discards what is in the ring: live are the senders
\* whose message may be lost by it, hit the ones it leaves writing to bytes
\* (or reserving from positions) that are no longer theirs.
Discard(live, hit) ==
    /\ dropped' = dropped \cup
         ((published \cup {Msg(s) : s \in live}) \ DeliveredMsgs)
    /\ strayed' = (strayed \/ hit # {})

Writers == {s \in Senders : Inside(s)}
Reservers == {s \in Senders : Inside(s) \/ spc[s] = "cas"}

\* A step of the worker that only looks at the block.
Look(pc) ==
    rpc' = pc /\ UNCHANGED <<block, mem, senders, rsize, rpayload, faults, history>>

\* Mutant: the wait does not block.
Signalled_Always == TRUE
Signalled == sem > 0

\* m_shm->wait(): blocks until somebody posts.
Wait ==
    /\ rpc = "wait" /\ Signalled
    /\ sem' = sem - 1
    /\ rpc' = "load"
    /\ UNCHANGED <<state, generation, head, tail, mem, senders,
                   rsize, rpayload, faults, history>>

\* Mutant: an empty ring is taken for a corrupted one.
RecvEntry_EmptyIsCorrupt == IF head <= tail THEN "reinit" ELSE "inspect"

\* The beginning of recv: load state, generation, tail and head.
RecvEntry == IF state # "READY" THEN "exited"
             ELSE IF head = tail THEN "wait"
             ELSE IF head < tail THEN "reinit"
             ELSE "inspect"
RecvLoad == rpc = "load" /\ Look(RecvEntry)

AtTail == mem[Offset(tail)]

\* History: did this look at the record at tail draw a conclusion from bytes
\* that the writer of the reservation has not written yet?
Trust == misread' = (misread \/ tail \in unmarked)

\* The state word reads as WRITING (payload bytes may read as anything).
NotYetPublished == rpc = "inspect" /\ AtTail.st \in {"writing", "data"}

\* yield and try again.
Retry == NotYetPublished /\ Look("load")

\* ShmRecv::flush_backlog, then back to waiting.
FlushBacklog ==
    /\ tail' = head
    /\ unmarked' = {p \in unmarked : p >= head}
    /\ Discard({s \in Senders : Inside(s) \/ spc[s] = "post"}, Writers)
    /\ rpc' = "wait"
    /\ UNCHANGED <<state, generation, head, sem, mem, senders,
                   rsize, rpayload, faults, published, acked, delivered>>

\* MAX_TIMEOUT_MS has passed and the record is still not published.
TimeoutFlush ==
    /\ NotYetPublished
    /\ SlowWriters \/ ~\E s \in Senders : Inside(s) /\ shead[s] = tail
    /\ FlushBacklog
    /\ UNCHANGED misread

\* The record was written for another generation.
EpochFlush ==
    /\ rpc = "inspect"
    /\ AtTail.st \in {"committed", "wrap"} /\ AtTail.epoch # generation
    /\ FlushBacklog
    /\ Trust

Trusted(st) == rpc = "inspect" /\ AtTail.st = st /\ AtTail.epoch = generation

\* recv's "validate best we can" of a wrap record and of a data record.
ValidSize(c) == HdrSize <= c.size /\ c.size % Align = 0 /\ c.size <= BlockSize
ValidWrap(c) == ValidSize(c) /\ c.len = 0
ValidRecord(c) == c.st # "data" /\ ValidSize(c) /\ c.len # 0

SkipWrap ==
    /\ Trusted("wrap") /\ ValidWrap(AtTail)
    /\ tail' = tail + AtTail.size
    /\ rpc' = "reload"
    /\ Trust
    /\ UNCHANGED <<state, generation, head, sem, mem, senders,
                   rsize, rpayload, faults,
                   published, acked, delivered, dropped, unmarked, strayed>>

\* Mutant: the worker goes back to waiting after a wrap record.
MoreRecords_Stop == FALSE
MoreRecords == head > tail
ReloadHead == rpc = "reload" /\ Look(IF MoreRecords THEN "inspect" ELSE "wait")

Found ==
    /\ Trusted("committed")
    /\ rpc' = "copy"
    /\ Trust
    /\ UNCHANGED <<block, mem, senders, rsize, rpayload, faults,
                   published, acked, delivered, dropped, unmarked, strayed>>

Copy ==
    /\ rpc = "copy" /\ ValidRecord(AtTail)
    /\ rsize' = AtTail.size
    /\ rpayload' = ReadPayload(Offset(tail), AtTail.len)
    /\ rpc' = "advance"
    /\ UNCHANGED <<block, mem, senders, faults, history>>

\* Bytes that are no header, a header that describes no record, or one that
\* changed between the two looks at it: BlockCorrupted.
Mangled ==
    CASE rpc = "inspect" -> AtTail.st = "data" \/ (Trusted("wrap") /\ ~ValidWrap(AtTail))
      [] rpc = "copy" -> ~ValidRecord(AtTail)
      [] OTHER -> FALSE

Corrupted ==
    /\ Mangled
    /\ rpc' = "reinit"
    /\ Trust
    /\ UNCHANGED <<block, mem, senders, rsize, rpayload, faults,
                   published, acked, delivered, dropped, unmarked, strayed>>

\* Mutant: a delivered record is not consumed.
Past_Stay(t, n) == t
Past(t, n) == t + n

\* Store tail past the record, return it, and let the worker distribute it
\* if it carries a label; then the worker asks for the next record.
Advance ==
    /\ rpc = "advance"
    /\ tail' = Past(tail, rsize)
    /\ delivered' = IF rpayload = {} THEN delivered ELSE Append(delivered, rpayload)
    /\ rsize' = 0 /\ rpayload' = {}
    /\ rpc' = "load"
    /\ UNCHANGED <<state, generation, head, sem, mem, senders,
                   faults, published, acked, dropped, unmarked, misread, strayed>>

\* ShmRecv::reinit, store by store (init_as_new on a new, zero filled block
\* performs the same stores).
ReinitBegin ==
    /\ rpc = "reinit"
    /\ state' = "INITING"
    /\ rpc' = "bump"
    /\ UNCHANGED <<generation, head, tail, sem, mem, senders,
                   rsize, rpayload, faults, history>>

ReinitGeneration ==
    /\ rpc = "bump"
    /\ generation' = generation + 1
    /\ rpc' = "zerohead"
    /\ UNCHANGED <<state, head, tail, sem, mem, senders,
                   rsize, rpayload, faults, history>>

ReinitHead ==
    /\ rpc = "zerohead"
    /\ head' = 0
    /\ unmarked' = {}
    /\ Discard({}, Reservers)
    /\ rpc' = "zerotail"
    /\ UNCHANGED <<state, generation, tail, sem, mem, senders,
                   rsize, rpayload, faults, published, acked, delivered, misread>>

\* A sender that is reserving now was admitted against the old tail.
ReinitTail ==
    /\ rpc = "zerotail"
    /\ tail' = 0
    /\ strayed' = (strayed \/ Reservers # {})
    /\ rpc' = "ready"
    /\ UNCHANGED <<state, generation, head, sem, mem, senders, rsize, rpayload, faults,
                   published, acked, delivered, dropped, unmarked, misread>>

ReinitReady ==
    /\ rpc = "ready"
    /\ state' = "READY"
    /\ Discard({s \in Senders : spc[s] # "idle"}, Reservers)
    /\ rpc' = "wait"
    /\ UNCHANGED <<generation, head, tail, sem, mem, senders, rsize,
                   rpayload, faults, published, acked, delivered, unmarked, misread>>

\* The reading process dies.  The block and the semaphore outlive it.
ConsumerCrash ==
    /\ rpc # "down" /\ restarts < MaxRestarts
    /\ restarts' = restarts + 1
    /\ rpc' = "down"
    /\ rsize' = 0 /\ rpayload' = {}
    /\ UNCHANGED <<block, mem, senders, crashes, history>>

\* create_or_open: the block exists, so it is opened and re-initialised.
ConsumerRestart == rpc = "down" /\ Look("reinit")

-----------------------------------------------------------------------------

Idle == \A s \in Senders : spc[s] = "idle"
Drained == Idle /\ rpc = "wait" /\ sem = 0

\* Every send allowed by the bound was made and the worker waits for more.
Done ==
    /\ Drained /\ \A s \in Senders : sent[s] = MaxSends
    /\ UNCHANGED vars

Init ==
    /\ state = "INITING" /\ generation = 0 /\ head = 0 /\ tail = 0
    /\ mem = [o \in Offsets |-> Zero]
    /\ sem = 0
    /\ spc = [s \in Senders |-> "idle"]
    /\ sent = [s \in Senders |-> 0]
    /\ ssize = [s \in Senders |-> 0]
    /\ sgen = [s \in Senders |-> 0]
    /\ shead = [s \in Senders |-> 0]
    /\ stries = [s \in Senders |-> 0]
    /\ result = [s \in Senders |-> "None"]
    /\ rpc = "reinit" /\ rsize = 0 /\ rpayload = {}
    /\ crashes = 0 /\ restarts = 0
    /\ published = {} /\ acked = {} /\ delivered = <<>> /\ dropped = {}
    /\ unmarked = {} /\ misread = FALSE /\ strayed = FALSE

\* The steps a sender takes by itself once its caller has called send.
SenderStep(s) ==
    \/ LoadGeneration(s) \/ LoadHead(s) \/ Admit(s) \/ Reload(s) \/ Reject(s)
    \/ CasFail(s) \/ CasWrap(s) \/ CasData(s)
    \/ WriteWrapHeader(s) \/ StoreWrap(s)
    \/ Proceed(s) \/ Abandon(s)
    \/ WriteHeader(s) \/ WritePayload(s) \/ Commit(s) \/ Post(s)

ReinitStep ==
    \/ ReinitBegin \/ ReinitGeneration \/ ReinitHead \/ ReinitTail \/ ReinitReady

WorkerStep ==
    \/ Wait \/ RecvLoad \/ Retry \/ TimeoutFlush \/ EpochFlush
    \/ SkipWrap \/ ReloadHead \/ Found \/ Copy \/ Corrupted \/ Advance
    \/ ReinitStep

Next ==
    \/ \E s \in Senders : \/ \E n \in MsgSizes : Send(s, n)
                          \/ SenderStep(s)
                          \/ SenderCrash(s)
    \/ WorkerStep \/ ConsumerCrash \/ ConsumerRestart
    \/ Done

Spec == Init /\ [][Next]_vars

\* Every thread that can run is scheduled again and again; a 50 ms timer that
\* keeps being consulted eventually expires; a dead reader is started again.
\* Nothing makes a caller send or a process crash.
Fairness ==
    /\ \A s \in Senders : WF_vars(SenderStep(s))
    /\ WF_vars(WorkerStep)
    /\ SF_vars(TimeoutFlush)
    /\ WF_vars(ConsumerRestart)

LiveSpec == Spec /\ Fairness

-----------------------------------------------------------------------------
(* Properties. *)

SenderPCs == {"idle", "gen", "head", "tail", "cas", "wraphdr", "wrap", "check",
              "write", "copy", "commit", "post"}
WorkerPCs == {"wait", "load", "inspect", "reload", "copy", "advance", "exited",
              "reinit", "bump", "zerohead", "zerotail", "ready", "down"}
Results == {"None", "BlockNotInitialized", "SizeTooLarge", "CouldNotAllocate",
            "NotEnoughSpace", "AllocatorCorrupted", "BlockReinitialized", "Crashed"}

\* The types of the block, of the locals of send and of the worker.
TypeOK ==
    /\ state \in {"INITING", "READY"}
    /\ generation \in Nat /\ head \in Nat /\ tail \in Nat /\ sem \in Nat
    /\ mem \in [Offsets -> Cells]
    /\ spc \in [Senders -> SenderPCs]
    /\ sent \in [Senders -> 0..MaxSends]
    /\ ssize \in [Senders -> Nat] /\ sgen \in [Senders -> Nat]
    /\ shead \in [Senders -> Nat] /\ stries \in [Senders -> Nat]
    /\ result \in [Senders -> Results]
    /\ rpc \in WorkerPCs /\ rsize \in Nat
    /\ rpayload \subseteq Msgs \cup {None}
    /\ crashes \in 0..MaxCrashes /\ restarts \in 0..MaxRestarts
    /\ published \subseteq Msgs /\ acked \subseteq Msgs /\ dropped \subseteq Msgs
    /\ delivered \in Seq(SUBSET (Msgs \cup {None}))
    /\ unmarked \subseteq Nat
    /\ misread \in BOOLEAN /\ strayed \in BOOLEAN

\* head never leaves the usable zone, whatever the interleaving, crash or
\* re-init: a wrap header always fits at head, and no send ever returns
\* AllocatorCorrupted ("some writer wrote a data record instead of wrap").
HeadUsable ==
    /\ Offset(head) <= UsableLimit
    /\ \A s \in Senders : result[s] # "AllocatorCorrupted"

\* Every header in memory, live or left over from an earlier lap or
\* generation, describes a record that ends inside the block: no payload
\* write or read crosses its end.
RecordsInBlock ==
    \A o \in Offsets :
        mem[o].st \in {"committed", "wrap"} =>
            /\ HdrSize <= mem[o].size /\ o + mem[o].size <= BlockSize
            /\ HdrSize + mem[o].len <= mem[o].size

\* No reader has trusted a header that was not written for the reservation it
\* stands in, and no reservation was taken away from a writer at work.
Clean == ~misread /\ ~strayed

\* The reader never overtakes the writers and the writers never lap the
\* reader, although the space check of send counts the record and not the
\* larger distance to the end of the block that a wrap record takes.
Occupancy ==
    Clean /\ state = "READY" => tail <= head /\ head <= tail + BlockSize

Extent(s) == IF spc[s] \in {"wraphdr", "wrap"} THEN SpaceTilWrap(shead[s])
                                               ELSE Reserved(ssize[s])

\* The bytes two senders are writing at the same time are disjoint, and lie
\* between tail and head where the reader has not consumed them.
WritersExclusive ==
    Clean /\ state = "READY" =>
        /\ \A s \in Writers : tail <= shead[s] /\ shead[s] + Extent(s) <= head
        /\ \A s, t \in Writers :
              s # t => \/ shead[s] + Extent(s) <= shead[t]
                       \/ shead[t] + Extent(t) <= shead[s]

\* Whatever the worker hands to the router is one whole message that its
\* sender had published.
OnlyPublishedDelivered ==
    \A i \in DOMAIN delivered : \E m \in published : delivered[i] = {m}
IntactDelivery == Clean => OnlyPublishedDelivered

\* The messages of one sender are delivered at most once and in the order of
\* its sends.
SenderFIFO ==
    Clean => \A i, j \in DOMAIN delivered :
        \A m \in delivered[i], k \in delivered[j] :
            i < j /\ m # None /\ k # None /\ m[1] = k[1] => m[2] < k[2]

\* No lost wake-up: when the worker sleeps on an empty semaphore and nobody is
\* sending, every message whose send returned None was delivered, unless a
\* flush or a re-init discarded it.
NoSilentLoss == Drained /\ Clean => acked \subseteq DeliveredMsgs \cup dropped

\* All that a clean ring promises at once: no overlap, no torn, repeated,
\* reordered or forgotten message.
CleanGuarantees ==
    Occupancy /\ WritersExclusive /\ IntactDelivery /\ SenderFIFO /\ NoSilentLoss

\* Wrap records are not posted, so the worker may sleep in front of one: the
\* largest message must still fit, or no sender could ever wake the worker.
NeverWedged ==
    Drained /\ Clean /\ crashes = 0 /\ restarts = 0 =>
        \A n \in MsgSizes : (head - tail) + Reserved(n) <= BlockSize

\* The worker re-initialises the block (which discards everybody's messages)
\* and gives up for good only after a reader or writer has gone astray.
ReinitOnlyAfterDamage ==
    [][Clean' /\ rpc' \in {"reinit", "exited"} => rpc \in {"down", rpc'}]_vars

\* Every send returns: the allocation loop is bounded and waits for nobody.
SendReturns == \A s \in Senders : spc[s] # "idle" ~> spc[s] = "idle"

\* A message whose send returned None is delivered in the end, or a flush or a
\* re-init discarded it: again and again nothing is left unsettled, so the
\* worker neither sleeps nor spins for ever with messages in the ring.
AckedIsSettled == []<>(acked \subseteq DeliveredMsgs \cup dropped \/ ~Clean)

\* "next record isnt published, continue trying until we get it or timer
\* expires": the worker delivers a record only after its send has published
\* it, so it never has delivered more records than were published.
NoDeliveryBeforePublish == Len(delivered) <= Cardinality(published)
=============================================================================
