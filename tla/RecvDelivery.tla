---------------------------- MODULE RecvDelivery ----------------------------
(***************************************************************************)
(* Delivery of one received label to the application: the threads that     *)
(* call Router::distribute_recvd_label (the shared-memory receive worker   *)
(* and a socket receive worker), the receive handles they write to, and    *)
(* the calls the application makes on a handle meanwhile.                  *)
(*                                                                         *)
(* A handle's buffer is an array of cells, SlotSize of them per slot; a    *)
(* cell holds the message whose bytes were copied there last.  Every       *)
(* message has the size of the label, hence of a slot: other sizes are     *)
(* refused before anything is written.                                     *)
(***************************************************************************)
EXTENDS Integers, Sequences, FiniteSets, SequencesExt

CONSTANTS
    Handles,    \* receive handles the application may open for the label
    Deliverers, \* threads that call distribute_recvd_label
    Modes,      \* signal modes the application opens handles with
    Slots,      \* data.buf_slots
    SlotSize,   \* data.buf_size, in cells
    NumIosb,    \* data.num_iosb
    Offsets,    \* receive offsets of incoming messages, in cells
    CountMod,   \* 2^32, the width of recv_count, scaled down
    MaxMsgs,    \* bound: messages per deliverer
    MaxCalls    \* bound: calls of the application that change a handle

ASSUME SizesAssumption ==
    /\ Slots \in Nat \ {0} /\ SlotSize \in Nat \ {0} /\ NumIosb \in Nat
    /\ Offsets \subseteq Nat
    /\ CountMod \in Nat /\ CountMod > Slots
    /\ MaxMsgs \in Nat /\ MaxCalls \in Nat

ASSUME ModesAssumption ==
    Modes \subseteq {"OVERWRITE", "BUFFER_FULL", "EVERY_MESSAGE", "SIGNAL_ALL_WRITE_ALL"}

Messages == Deliverers \X (1..MaxMsgs)
NoMsg == <<>>
Cells == 0 .. Slots * SlotSize - 1
Buffers == {"buf", "aux"}
Keeping == {"BUFFER_FULL", "EVERY_MESSAGE"} \* "not allowed to overwrite"

VARIABLES
    route,    \* the handles subscribed to the label, oldest first
    opened,   \* handles that were ever opened
    mode,     \* data.signal_mode of each handle
    primary,  \* which of its two buffers data.buf is
    mem,      \* the application's two buffers of each handle
    index,    \* data.buf_index
    count,    \* data.recv_count
    iosb,     \* the receive IOSBs of each handle
    iosbIndex,\* data.iosb_index
    idle,     \* is_idle
    sem,      \* value of the handle's semaphore
    apc,      \* the application thread that waits for the handle
    calls,    \* calls of the application so far
    sent,     \* messages each deliverer has begun to distribute
    offset,   \* recv_offset of its current message
    subs,     \* what is left of its snapshot of the subscribers
    dpc,      \* "idle", "examine" or "write"
    \* History, read by no step of the code:
    stored,   \* the last Slots messages stored for each handle and where
    late      \* messages each deliverer wrote since the handle was idle or closed

buffer   == <<primary, mem, index, count>>
status   == <<iosb, iosbIndex, sem>>
threads  == <<sent, offset, subs, dpc>>
handles  == <<route, opened, mode, idle, apc, calls>>
history  == <<stored, late>>
vars == <<handles, buffer, status, threads, history>>

Message(d) == <<d, sent[d]>>
Goto(d, pc) == dpc' = [dpc EXCEPT ![d] = pc]

-----------------------------------------------------------------------------
(* distribute_recvd_label *)

\* A label arrives: the subscribers are copied under the router's lock.
Distribute(d, o) ==
    /\ dpc[d] = "idle" /\ sent[d] < MaxMsgs /\ route # <<>>
    /\ sent' = [sent EXCEPT ![d] = @ + 1]
    /\ offset' = [offset EXCEPT ![d] = o]
    /\ subs' = [subs EXCEPT ![d] = route]
    /\ Goto(d, "examine")
    /\ UNCHANGED <<handles, buffer, status, history>>

\* No handle for the label: the message is dropped.
UnknownLabel(d) ==
    /\ dpc[d] = "idle" /\ sent[d] < MaxMsgs /\ route = <<>>
    /\ sent' = [sent EXCEPT ![d] = @ + 1]
    /\ UNCHANGED <<handles, buffer, status, offset, subs, dpc, history>>

NextSubscriber(d) ==
    /\ subs' = [subs EXCEPT ![d] = Tail(@)]
    /\ Goto(d, IF Len(subs[d]) = 1 THEN "idle" ELSE "examine")

\* Mutant: an idle handle is served like any other.
Refuses_IdleToo(h, o) == o > SlotSize
\* Read without the handle's lock.
Refuses(h, o) == o > SlotSize \/ idle[h]

Examine(d) ==
    /\ dpc[d] = "examine"
    /\ IF Refuses(Head(subs[d]), offset[d])
       THEN NextSubscriber(d)
       ELSE Goto(d, "write") /\ UNCHANGED subs
    /\ UNCHANGED <<handles, buffer, status, sent, offset, history>>

\* Mutant: EVERY_MESSAGE replaces the oldest message, as OVERWRITE does.
HasRoom_Overwrite(h) == mode[h] # "BUFFER_FULL" \/ count[h] # Slots
\* May the next slot be written?
HasRoom(h) ==
    CASE mode[h] = "BUFFER_FULL"   -> count[h] # Slots
      [] mode[h] = "EVERY_MESSAGE" -> count[h] < Slots
      [] OTHER                     -> TRUE

\* std::memcpy(dst + recv_offset, buf, size).  What lies behind the buffer is
\* not the handle's and has no cells here.
Target(slot, o) == {c \in Cells : c >= slot * SlotSize + o /\ c < (slot + 1) * SlotSize + o}
Copy(h, m, o) ==
    mem' = [mem EXCEPT ![h][primary[h]] =
              [c \in Cells |-> IF c \in Target(index[h], o) THEN m ELSE @[c]]]

\* Mutant: the index runs over the slots and the one behind them.
Following_Beyond(i) == (i + 1) % (Slots + 1)
Following(i) == (i + 1) % Slots

Store(h, m, o) ==
    /\ Copy(h, m, o)
    /\ count' = [count EXCEPT ![h] = (@ + 1) % CountMod]
    /\ index' = [index EXCEPT ![h] = Following(@)]
    /\ stored' = [stored EXCEPT ![h] =
         LET s == Append(@, [msg |-> m, buf |-> primary[h], slot |-> index[h], off |-> o])
         IN  IF Len(s) > Slots THEN Tail(s) ELSE s]

\* Mutant: the IOSB names the slot after the one that was written.
IosbSlot_Next(h) == Following(index[h])
IosbSlot(h) == index[h]

\* write_recv_iosb, in the step that stores or drops m.
WriteIosb(h, m) ==
    IF NumIosb = 0 THEN UNCHANGED <<iosb, iosbIndex>>
    ELSE /\ iosb' = [iosb EXCEPT ![h][iosbIndex[h]] =
                       [msg |-> m, buf |-> primary[h], slot |-> IosbSlot(h)]]
         /\ iosbIndex' = [iosbIndex EXCEPT ![h] = (@ + 1) % NumIosb]

Signal(h) == sem' = [sem EXCEPT ![h] = @ + 1]

\* Mutant: the buffer counts as full one message late.
NowFull_Late(h) == count[h] = Slots
NowFull(h) == count[h] + 1 = Slots

\* The switch on the signal mode, under the handle's lock.
Write(d) ==
    LET h == Head(subs[d])
        m == Message(d)
        notify == CASE mode[h] = "OVERWRITE"   -> WriteIosb(h, m) /\ UNCHANGED sem
                    [] mode[h] = "BUFFER_FULL" ->
                         IF HasRoom(h)
                         THEN IF NowFull(h) THEN WriteIosb(h, m) /\ Signal(h)
                                            ELSE UNCHANGED status
                         ELSE Signal(h) /\ UNCHANGED <<iosb, iosbIndex>>
                    [] OTHER -> WriteIosb(h, m) /\ Signal(h)
    IN  /\ dpc[d] = "write"
        /\ IF HasRoom(h) THEN Store(h, m, offset[d]) ELSE UNCHANGED <<mem, index, count, stored>>
        /\ notify
        /\ late' = [late EXCEPT ![h][d] =
                      IF idle[h] \/ ~Contains(route, h) THEN @ + 1 ELSE @]
        /\ NextSubscriber(d)
        /\ UNCHANGED <<handles, primary, sent, offset>>

-----------------------------------------------------------------------------
(* The application *)

\* A call of the application that changes h, which it has open.
Call(h) == Contains(route, h) /\ calls < MaxCalls /\ calls' = calls + 1

\* open_recv_label: the handle is registered and subscribed to the label.
OpenRecv(h, m) ==
    /\ h \notin opened
    /\ opened' = opened \union {h}
    /\ route' = Append(route, h)
    /\ mode' = [mode EXCEPT ![h] = m]
    /\ UNCHANGED <<idle, apc, calls, buffer, status, threads, history>>

\* close_recv_label: snapshots taken before keep the handle alive.
CloseRecv(h) ==
    /\ Call(h)
    /\ route' = RemoveFirst(route, h)
    /\ UNCHANGED <<opened, mode, idle, apc, buffer, status, threads, history>>

Reduced(n, k) == IF k > n THEN 0 ELSE n - k

RecvDismiss(h, k) ==
    /\ Call(h)
    /\ count' = [count EXCEPT ![h] = Reduced(@, k)]
    /\ UNCHANGED <<route, opened, mode, idle, apc, primary, mem, index, status, threads, history>>

RecvIdle(h) ==
    /\ Call(h) /\ ~idle[h]
    /\ idle' = [idle EXCEPT ![h] = TRUE]
    /\ UNCHANGED <<route, opened, mode, apc, buffer, status, threads, history>>

RecvResume(h) ==
    /\ Call(h) /\ idle[h]
    /\ idle' = [idle EXCEPT ![h] = FALSE]
    /\ late' = [late EXCEPT ![h] = [d \in Deliverers |-> 0]]
    /\ UNCHANGED <<route, opened, mode, apc, buffer, status, threads, stored>>

RecvReset(h) ==
    /\ Call(h)
    /\ count' = [count EXCEPT ![h] = 0]
    /\ index' = [index EXCEPT ![h] = 0]
    /\ UNCHANGED <<route, opened, mode, idle, apc, primary, mem, status, threads, history>>

\* recv_redirect of a handle with an auxiliary buffer.
RecvRedirect(h) ==
    /\ Call(h)
    /\ primary' = [primary EXCEPT ![h] = IF @ = "buf" THEN "aux" ELSE "buf"]
    /\ count' = [count EXCEPT ![h] = 0]
    /\ index' = [index EXCEPT ![h] = 0]
    /\ UNCHANGED <<route, opened, mode, idle, apc, mem, status, threads, history>>

\* The application waits for the handle's semaphore ...
AppWait(h) ==
    /\ apc[h] = "wait" /\ sem[h] > 0 /\ Contains(route, h)
    /\ sem' = [sem EXCEPT ![h] = @ - 1]
    /\ apc' = [apc EXCEPT ![h] = "awake"]
    /\ UNCHANGED <<route, opened, mode, idle, calls, buffer, iosb, iosbIndex, threads, history>>

\* ... and dismisses the message it has read.
AppDismiss(h) ==
    /\ apc[h] = "awake" /\ Contains(route, h)
    /\ count' = [count EXCEPT ![h] = Reduced(@, 1)]
    /\ apc' = [apc EXCEPT ![h] = "wait"]
    /\ UNCHANGED <<route, opened, mode, idle, calls, primary, mem, index, status, threads, history>>

-----------------------------------------------------------------------------
Init ==
    /\ route = <<>> /\ opened = {}
    /\ mode = [h \in Handles |-> "OVERWRITE"]
    /\ primary = [h \in Handles |-> "buf"]
    /\ mem = [h \in Handles |-> [b \in Buffers |-> [c \in Cells |-> NoMsg]]]
    /\ index = [h \in Handles |-> 0]
    /\ count = [h \in Handles |-> 0]
    /\ iosb = [h \in Handles |-> [i \in 0 .. NumIosb - 1 |-> NoMsg]]
    /\ iosbIndex = [h \in Handles |-> 0]
    /\ idle = [h \in Handles |-> FALSE]
    /\ sem = [h \in Handles |-> 0]
    /\ apc = [h \in Handles |-> "wait"]
    /\ calls = 0
    /\ sent = [d \in Deliverers |-> 0]
    /\ offset = [d \in Deliverers |-> 0]
    /\ subs = [d \in Deliverers |-> <<>>]
    /\ dpc = [d \in Deliverers |-> "idle"]
    /\ stored = [h \in Handles |-> <<>>]
    /\ late = [h \in Handles |-> [d \in Deliverers |-> 0]]

Deliver(d) ==
    \/ \E o \in Offsets : Distribute(d, o)
    \/ UnknownLabel(d) \/ Examine(d) \/ Write(d)

Application(h) ==
    \/ \E m \in Modes : OpenRecv(h, m)
    \/ CloseRecv(h)
    \/ \E k \in 1 .. Slots + 1 : RecvDismiss(h, k)
    \/ RecvIdle(h) \/ RecvResume(h) \/ RecvReset(h) \/ RecvRedirect(h)
    \/ AppWait(h) \/ AppDismiss(h)

Next == (\E d \in Deliverers : Deliver(d)) \/ (\E h \in Handles : Application(h))

Spec == Init /\ [][Next]_vars

\* An application that waits for its handle is scheduled, and dismisses what
\* it was woken for; it need not make any other call.
LiveSpec == Spec /\ \A h \in Handles : WF_vars(AppWait(h)) /\ WF_vars(AppDismiss(h))

-----------------------------------------------------------------------------
(* Properties *)

Stored == [msg : Messages, buf : Buffers, slot : 0 .. Slots - 1, off : Nat]
Iosbs  == [msg : Messages, buf : Buffers, slot : 0 .. Slots - 1] \union {NoMsg}

\* Every variable has its type; in particular the indices stay inside the
\* slots and the IOSBs of a handle, which the code uses as pointer offsets.
TypeOK ==
    /\ route \in Seq(Handles) /\ opened \subseteq Handles
    /\ primary \in [Handles -> Buffers]
    /\ mem \in [Handles -> [Buffers -> [Cells -> Messages \union {NoMsg}]]]
    /\ index \in [Handles -> 0 .. Slots - 1]
    /\ count \in [Handles -> 0 .. CountMod - 1]
    /\ \A h \in Handles : \A i \in 0 .. NumIosb - 1 : iosb[h][i] \in Iosbs
    /\ NumIosb > 0 => iosbIndex \in [Handles -> 0 .. NumIosb - 1]
    /\ idle \in [Handles -> BOOLEAN]
    /\ sem \in [Handles -> Nat]
    /\ apc \in [Handles -> {"wait", "awake"}]
    /\ sent \in [Deliverers -> 0 .. MaxMsgs]
    /\ subs \in [Deliverers -> Seq(Handles)]
    /\ dpc \in [Deliverers -> {"idle", "examine", "write"}]
    /\ stored \in [Handles -> Seq(Stored)]

\* Are the bytes of a stored message still where they were put?
Intact(h, s) == \A c \in Target(s.slot, s.off) : mem[h][s.buf][c] = s.msg

\* How many messages of h the application has a right to find in its slots.
Unread(h) == IF mode[h] \in Keeping THEN count[h]
             ELSE IF count[h] < Slots THEN count[h] ELSE Slots

LastStored(h, n) == {stored[h][i] : i \in {j \in DOMAIN stored[h] : j > Len(stored[h]) - n}}

\* A message with a receive offset has the size of the whole slot all the same
\* and is copied over the end of its slot: these cells are not its own.
Spilled(h) == \E s \in LastStored(h, Unread(h)) : s.off > 0

\* The messages that recv_count reports and nobody dismissed are in their
\* slots, whole, in the buffer now in use, as long as none of them came with a
\* receive offset: BUFFER_FULL and EVERY_MESSAGE are "not allowed to overwrite"
\* (router.cpp:398,426), and in the other modes the newest messages survive.
\* Two deliverers, dismissals, resets and redirects interleave.
UnreadIntact ==
    \A h \in Handles :
        /\ Unread(h) <= Len(stored[h])
        /\ \A s \in LastStored(h, Unread(h)) : s.buf = primary[h] /\ (Spilled(h) \/ Intact(h, s))

\* An IOSB whose message was stored and not dismissed leads the application to
\* that message, also when the IOSB ring has wrapped or the buffer was swapped.
IosbLeadsToMessage ==
    \A h \in Handles : \A i \in 0 .. NumIosb - 1 : \A s \in LastStored(h, Unread(h)) :
        iosb[h][i] # NoMsg /\ iosb[h][i].msg = s.msg
            => iosb[h][i].buf = s.buf /\ iosb[h][i].slot = s.slot

\* is_idle and the list of subscribers are read before the handle's lock is
\* taken: a deliverer may be late by the one message it is distributing, never
\* by two.
OneLateMessage == \A h \in Handles : \A d \in Deliverers : late[h][d] <= 1

\* A handle that keeps its messages and is full gets an application that waits
\* for its semaphore to dismiss something: the signal for "full" is not lost.
FullIsDrained ==
    \A h \in Handles :
        (mode[h] \in Keeping /\ count[h] = Slots) ~> (count[h] < Slots \/ ~Contains(route, h))
=============================================================================
