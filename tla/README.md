# eROIL: a TLA+ verification project

eROIL moves *labels* (fixed-size messages with a number) between the nodes of a
system.  Nodes on one machine exchange labels through shared memory, nodes on
different machines through TCP; who wants which label is found out by UDP
multicast.  The application opens send and receive handles, calls `send_label`,
and learns of completion by IOSBs (status blocks) and semaphores.

Paths below are relative to `src/eROIL/src/`.

## 1. Inventory

| Component | State | Operations | Hard behaviour |
|---|---|---|---|
| Shared-memory label ring (`shm/shm_header.h`, `shm_send.cpp`, `shm_recv.cpp`, `shm.cpp`) | block state, generation, `head_bytes`, `tail_bytes`, record headers, payload bytes, named semaphore | `send`; `recv`, `flush_backlog`, `reinit`, `create_or_open` | lock-free, many writing processes and one reader; crashes of either side; stale headers; wrap records |
| Shared-memory receive worker (`workers/shm_recv_worker.cpp`) | thread, 50 ms timer | `run`, `get_next_record` | drains many records per wake-up; timeout against a late writer; re-init |
| Send workers (`workers/send_worker.h`, `send_plan.h`) | job queue, semaphore, stop flag | `enqueue`, `run`, `stop` | post outside the queue's lock; two workers on one job |
| Send jobs, send IOSBs (`types/send_io_types.h`, `comm/write_iosb.h`) | `pending_sends`, failure counters, IOSB ring of a handle | `complete_one`, `finalize_send_iosb` | exactly one IOSB, by the last of two threads |
| Router, route table (`router/router.cpp`, `route_table.cpp`) | send and receive routes, handles | register, unregister, add/remove subscriber, `build_send_job`, `distribute_recvd_label` | snapshots used after the lock is dropped; routes erased with the last publisher |
| Transport registry (`router/transport_registry.cpp`) | socket and shared-memory sender per peer | upsert, open, get | replaced while a job holds the old one |
| Manager (`manager/manager.cpp`) | handles, broadcast threads | open/close send and receive, `send_label`, `send_broadcast`, `recv_broadcast`, `add_subscriber`, `remove_subscriber` | lost, repeated and reordered broadcasts; check and update under separate locks |
| Connection manager (`comm/connection_manager.cpp`) | socket receive workers, TCP server, monitor thread | accept, connect, ping, start/stop worker, `enqueue_send` | accept thread against monitor thread; reconnect before the monitor's tick |
| Socket receive worker (`workers/socket_recv_worker.cpp`) | thread, socket, header | `run`, `recv_exact`, `stop` | join against a blocking receive |
| Receive handles (`types/handles.h`, `router.cpp:307`) | slots, counts, IOSB ring, idle flag | delivery in four signal modes, dismiss, idle | reader and application on the same slots |
| Event log (`log/evtlog.cpp`) | record ring, two counters | `log_hot`, `log_payload`, snapshot | writers a lap apart in one record |
| Label discovery (`manager.cpp`, `socket/*/`, `types/label_io_types.h`) | broadcasts under way, generation, broadcast buffer | `send_broadcast`, `recv_broadcast` | lost, repeated, reordered and re-applied announcements |
| Semaphores, shared-memory mapping, sockets, time, platform | operating-system objects | wrappers | modelled where used, as far as a property depends on them |
| Addresses, configuration (`address/`, `config/`) | address book, mode | reading `peer_ips.cfg`, route kinds, peer sets | the two ends of a link decide alone and must agree; ports narrowed to 16 bits |
| API, node facade (`api/`, `root.cpp`) | none | translation of arguments; idle, dismiss, reset, redirect of a handle | calls race with the threads that deliver |

How they interact.  `Manager::send_label` copies the payload behind a label
header and calls `ConnectionManager::enqueue_send`; `Router::build_send_job`
copies the list of receivers under the router's lock; the job goes to the queue
of the shared-memory worker, of the socket worker, or of both; each calls
`ShmSend::send` or `TCPClient::send` per receiver; the last completion writes
the IOSB.  On the other side `ShmRecvWorker` or `SocketRecvWorker` calls
`Router::distribute_recvd_label`, which writes into the slots of the receive
handles.  `recv_broadcast` changes the routes that `build_send_job` reads.

What makes each part correct: for the ring, that no two writers share bytes,
that whatever is delivered is a whole published message, in order and once, that
no acknowledged message is forgotten and that nobody waits for ever; for the
send path, that every accepted call ends in exactly one truthful IOSB; for
receive handles, that an IOSB describes the message in its slot; for peers,
that every live connection has a worker that reads it; for discovery, that the
subscribers of a label converge to the nodes that want it.

The hazards of the code, each with its line and the properties that watch it,
are listed in `PROJECT.json`.

## 2. Modules

| Module | What it is |
|---|---|
| `ShmRing` | The label ring of one node: writers, reader, crashes, restarts. |
| `MCShmRing` | Symmetry for TLC; the configurations `ring_*.cfg`. |
| `ShmRingProofs` | TLAPS proofs about `ShmRing`: types, head, records in memory. |
| `ShmRecordProofs` | TLAPS proofs of what a clean ring promises, on top of `ShmRingProofs`. |
| `SendPipeline` | From `send_label` to the send IOSB: callers, two send workers, one handle. |
| `SendPipelineProofs` | TLAPS proofs about `SendPipeline`. |
| `RecvDelivery` | From a received label to the application's buffers: two delivering threads, receive handles in four signal modes. |
| `RecvDeliveryProofs` | TLAPS proofs about `RecvDelivery`. |
| `Discovery` | Handles, routes, multicast and subscribers of all nodes. |
| `Subscriptions` | What discovery promises: the abstract specification `Discovery` implements. |
| `DiscoveryProofs` | TLAPS proofs about `Discovery`, the refinement included. |
| `RemotePeer` | A pair of nodes that talk by TCP: accept and monitor thread, receive workers, registry, faults. |
| `RemotePeerProofs` | TLAPS proofs about `RemotePeer`. |
| `EventLog` | The lock-free ring of event records and its dump. |
| `EventLogProofs` | TLAPS proofs about `EventLog`. |
| `AddressBook` | `peer_ips.cfg`, route kinds in all modes, who connects to whom.  `Discovery` and `RemotePeer` instantiate it for the kind of a route and the direction of a connection. |
| `AddressBookProofs` | TLAPS proofs about `AddressBook`. |

### ShmRing

Variables `state`, `generation`, `head`, `tail` are the atomics of `ShmHeader`
and `ShmMetaData`; `mem` is the data block, one cell per aligned offset: a cell
is a record header (state, `total_size`, `payload_size`, `epoch`) or bytes of a
payload, tagged with the message they belong to.  `spc`, `ssize`, `sgen`,
`shead`, `stries` are the program counter and locals of `send` in each writing
process, `rpc`, `rsize`, `rpayload` those of the receive worker.

One action is one access that another process can observe: `Send` and
`LoadGeneration` the loads of state and generation, `LoadHead`, then a pass of
the allocation loop (`Admit`, `Reload` or `Reject` after the load of tail;
`CasWrap`, `CasData` or `CasFail` for the compare-exchange, which may fail
spuriously), `WriteWrapHeader` and `StoreWrap`, the generation check (`Proceed`,
`Abandon`), `WriteHeader`, `WritePayload`, `Commit`, `Post`.  The reader: `Wait`,
`RecvLoad`, then by what it finds at tail `Retry`, `TimeoutFlush`, `EpochFlush`,
`SkipWrap`, `Found` and `Copy`, `Corrupted`; `Advance` stores tail and
distributes; `reinit` is five actions, one per store.  `SenderCrash` and
`ConsumerCrash` may happen anywhere.

Merged steps and why that loses nothing:

* The fields of a header after `state.store(WRITING)` are written in the same
  step: the reader looks at no other field while the state is WRITING.
* The second check of state and generation is one step: the generation changes
  only after the state has left READY, so the verdict is the one at the first of
  the two loads.
* The reader's loads of its own variables (state, generation, tail) are merged
  with the load of head, since only the reader stores them.
* `flush_backlog` loads head and stores tail in one step.  A writer that reads
  the old tail in between is at worst told NotEnoughSpace once more.

The memory is sequentially consistent.  The code publishes with
release/acquire pairs (COMMITTED, READY, head), and on x86, its target, stores
are not reordered with stores; the relaxed stores inside `reinit` become visible
in program order there.  Weaker orders are not modelled.

Left out: checks of pointers into the mapping, which fail only for a block of
the wrong size; LabelTooLarge, since the worker's buffer holds the largest
label; `published_count`, which is for debugging; the worker's `stop` and
repeated errors of `wait`.  A payload is assumed never to spell `MAGIC_NUM` at
the place of a header's magic, so payload bytes read as a header are recognised
as corrupt or, if the state word happens to be 0, as not yet published.

History variables (`published`, `acked`, `delivered`, `dropped`, `unmarked`,
`misread`, `strayed`) are read by no step.  `misread` becomes true when the
reader draws a conclusion from a header that the writer of the reservation has
not written yet (section 4, `ring_stale`); `strayed` when a flush or re-init
takes a reservation away from a writer at work, or a re-init stores tail while a
writer is reserving that was admitted against the old one.  After either of them
the code promises nothing any more, so most safety properties are stated for
`Clean` behaviours; `HeadUsable`, `RecordsInBlock`, `TypeOK` and `SendReturns`
hold without that condition.

### SendPipeline

`calls`, `cpc` are the application threads; `receivers`, `pending`, `fails` the
fields of each `SendJob`; `queue`, `sem`, `stop`, `wpc`, `wjob`, `wnext`,
`wpending` the two `SendWorker` instances; `iosb` the statuses written per job;
`tried` and `surprised` are history.  `SendLabel` is `send_label` up to the end
of `build_send_job` (one step: the routes are read under one lock), with any
numbers of receivers; `SendRefused` its early returns.  `EnqueueCheck`,
`EnqueuePush`, `EnqueuePost` are the three observable parts of `enqueue`, called
for the local and then for the remote worker.  `Wake`, `Pop`, `SendOne`,
`LoadPending`, `CasSucceeds`/`CasFails`, `Finalize`, `JobDone`, `QueueEmpty` are
`SendWorker::run` and `SendJob::complete_one`; `StopRequest` and `StopClear` are
`stop`, which only the destructors call, the socket worker's first (`StopTurn`).
What a receiver's send does is one step with a verdict: `ShmRing` has the
detail.  The IOSB slots of a handle are abstracted to the sequence of statuses
written for each job; null receivers do not occur, since a subscriber is added
only after its transport was opened (`SubscribersReachable` of `Discovery`).

### RecvDelivery

`route` is the list of subscribers of one label; `mode`, `primary`, `mem`,
`index`, `count`, `iosb`, `iosbIndex`, `idle`, `sem` are the fields of each
receive handle, with `mem` holding the cells of its two buffers; `sent`,
`offset`, `subs`, `dpc` belong to the threads that call
`distribute_recvd_label`.  `Distribute` is the copy of the subscribers under the
router's lock, `Examine` the checks made without the handle's lock (the offset,
`is_idle`), `Write` the switch over the signal mode under that lock, including
`write_recv_iosb` and the semaphore.  The application's calls are one action
each: `OpenRecv`, `CloseRecv`, `RecvDismiss`, `RecvIdle`, `RecvResume`,
`RecvReset`, `RecvRedirect`; `AppWait` and `AppDismiss` are an application that
waits for the semaphore and dismisses what it was woken for.

There is one label, and every message has its size, which is that of a slot:
`distribute_recvd_label` refuses others before it touches a handle.  The bytes
behind a buffer are nobody's cells, so a copy that runs over the end of the last
slot is cut off there.  `recv_count` wraps at `CountMod`.  `stored` (the newest
messages stored and where) and `late` are history.

### Discovery and Subscriptions

`sendHandles`, `recvHandles` are the router's handle tables; `sendSize`,
`publishers`, `local`, `remote` a `SendRoute`, `recvSize`, `subscribers` a
`RecvRoute`; `transport` the peers for which
`has_send_shm` or `has_socket` holds; `net` the broadcasts on their way to a
node; `msg`, `bpc`, `todo`, `current` the thread in `recv_broadcast`.
`OpenSend` to `CloseRecv` are the manager's calls with their refusals (the
router's lock is held over both tables); `SendBroadcast` the snapshot and the
multicast; `Receive`, `ReceiveTwice`, `ReceiveFails` the three things that can
come of `recvfrom`, whose result is not examined; `AddCheck`, `AddSubscriber`,
`RemoveCheck`, `RemoveSubscriber` the two loops, with the lock released between
a check and the change.  `Restart` is the death of a node's process at any point
and its start with the empty tables of a new `Manager`; its old broadcasts, and
what the other nodes have entered for it, stay.

Abstractions.  `has_send_route` and `is_send_subscriber`, two acquisitions of
the lock, are read in one step: the addition checks the route again under its
own lock and only this thread adds subscribers, so a route that changes in
between leads to the same states.  `Establish` stands for the shared-memory
opener and for a TCP connection (`RemotePeer` has the detail); registry entries
are never removed.  Nodes without send routes ignore broadcasts and are not
listened to.  The send labels of a broadcast and its two generations are read by
nobody and are left out; the generations could not be relied on either, as they
start at 1 in each process.  Two broadcasts of a node with the same labels are
one element of `net`; the arrival of the second is `ReceiveTwice`.  Which labels do not fit is a fixed choice for a given set of routes,
as the order of an unchanged `unordered_map` is.

`Subscriptions` knows only `asked`, `offer` and `served`.  The refinement
mapping takes `sendSize` for `offer` and `local \union remote` for `served`;
`asked` is a history variable of `Discovery`.  `ImplementsSubscriptions` says
that every step of `Discovery` is a step of `Subscriptions` or a stutter: nodes
are served only in a size they asked for, one at a time, a withdrawn label to
nobody, and a node that leaves (`Leave`, the restart) serves nobody.

### RemotePeer

`registry` is the peer's socket in `TransportRegistry`, `entry` its item in
`m_sock_recvrs`, `worker` the `SocketRecvWorker` threads by connection, `mon`
and `acc` the monitor and accept threads; `sock`, `wire`, `rst`, `backlog` are
both ends of each connection, what is in flight, and whether it was reset.  A
socket that is "open" is `is_connected()`; "shut" has `m_connected` cleared and
a valid handle; "closed" was disconnected.  The `Mon...` actions follow
`remote_connection_monitor` through ping, disconnect, stop, join, connect,
identification, registration and start of the worker; the `Acc...` actions
follow `run_tcp_server`; the `Work...` actions `SocketRecvWorker::run`;
`SendLabel`, `SendPart`, `SendFails` the remote send worker.

Abstractions.  A label is two units, header and payload, and a connection holds
`Buf` units in each direction, so that sends block.  `m_sock_recvrs` is an
`unordered_map` that two threads change without a lock; each `find`, `emplace`
and `erase` is taken as atomic, so the model shows what their order can do and
not what a torn map does.  `initial_remote_connection` does what the monitor's
round does for an empty registry.  Faults: `Reset`, `Crash` of a process (the
kernel closes its sockets) and of a machine (nobody is told), followed by
`Restart`, and a send that writes a part.

### EventLog

`m_seq`, `m_idx` and `rec` are the log; `log` and `dump` the threads inside
`log_*` and `write_evtlog`.  A logging call is six steps: the two `fetch_add`,
the store of 0 in `commit_seq`, the fixed fields, the payload, the commit; a
line of the dump is four.  The two hot functions differ in the tick only.  The
copy of a record is made in two parts.  Stores and loads take effect in program
order, as on x86.  `SeqMod` is 2^32 scaled down, so that the sequence number
wraps to 0; in `log_dump` no number repeats (section 5 says what happens when
one does).  `kind`, `newest` and `lapped` are history.

### AddressBook

`ReadRow` is one pass of the loop over the rows of the file, which are already
split into columns; `ToSigned` is the cast to `int16_t`, with `PortBits` for 16.
`RouteKind` is the choice of `init_manager` among the four functions that set up
the kinds; `Local`, `Remote` and `RemoteConnectTo` are `get_peer_set`.

## 3. Runs

| Run | Instance | Result |
|---|---|---|
| `ring_laps` | 2 writers, 2 sends each, block 20, header 4, alignment 2, payloads 1 and 3, 2 tries | about 1 million states, all properties hold |
| `ring_restart` | 2 writers, 2 sends each, block 10, header 2, one restart of the reader, writers slower than the timeout | about 3.4 million states, hold |
| `ring_live` | 1 writer, 4 sends, one crash of the writer, one restart of the reader, slow writer | about 0.6 million states, both liveness properties hold |
| `ring_stale` | 1 writer, 4 sends, no faults | `NoDeliveryBeforePublish` is violated (section 4) |
| `send_path` | 2 callers, 2 calls between them, up to 2 receivers per call, handle closed, both workers stopped | about 0.7 million states, hold |
| `recv_modes` | 1 handle of 2 slots in each of 4 modes, 2 delivering threads with 2 messages each, offsets 0 and 1, 2 calls of the application | about 1.3 million states, hold |
| `address` | all files of up to 3 rows over 3 nodes, 2 addresses, 4 ports of 3 bits; 4 modes | about 0.5 million states, hold |
| `disc_safe` | a node that sends and receives one label, a receiver on another machine, 2 sizes, 2 opens each, 1 broadcast under way, one fault: a duplicate, a failed receive or a restart of either node | about 1.8 million states, hold |
| `disc_live` | 1 sender, 1 receiver, 2 labels with room for 1, 2 broadcasts under way, two faults of these kinds | about 0.4 million states, converges |
| `peer_faults` | the connecting node sends 2 labels, 3 connections, one fault of any of the four kinds | about 0.2 million states, hold |
| `peer_deaf` | no labels, one reset or crash | `AcceptorServed` is violated (section 4) |
| `log_dump` | 2 threads, 4 events, 2 records, sequence numbers modulo 4 | about 1.5 million states, hold |

Bounds.  Ring: three records fill the small blocks, so four sends reach the wrap
record, the second lap, a full ring and headers left over from the first lap. In
`ring_laps` the header is larger than the alignment, as in the code (48 and 8):
only then can head end up behind the usable limit, so only then does the wrap
test matter.  Two tries are enough for every exit of the allocation loop. Two
writers suffice for every pairwise race on head; what more of them can do
together is left to the theorems, which hold for any number (section 5).  The
blocks satisfy `BlockAssumption` (two of the largest records and a header),
which the code satisfies by far (1 MB labels, 128 MB blocks) and without which
an unposted wrap record could wedge the ring.

Send path: two calls are either two of one thread or one each of two threads;
two receivers are both on one transport or one on each, so that one worker
completes while the other has not begun.  Closing the handle after the last
call changes nothing any more, so the close is taken before it.

Receive: two slots and four messages fill the buffer, wrap index, IOSB ring and
the count's range of 4; two threads race for one handle.  With offset 1 a
message of two cells runs into the next slot.

Discovery: two broadcasts under way, in `disc_live`, are enough for an old one
to arrive after a new one; two sizes for a refusal; with `MAX_LABELS` 1 the
second label is the 201st of the code.  Two opens per node give a handle that is
closed and opened again, or two handles of one route.  In `disc_safe` node 1 is
its own (local) subscriber and node 2 a remote one; one broadcast is under way
at a time, and loss, delay, a duplicate and a failed receive still let it be
applied after the handles it speaks of have changed.  A restart lets it be
applied to a node whose process is another one by then; with the second fault of
`disc_live` such a broadcast can come twice, or both nodes can be restarted.

Peers: three connections are the first one, one lost to the fault, and one
after it.  `Buf` 2 holds one label, so a ping or a second label blocks.  Two
faults in a row multiply the states beyond what a run can visit and are left
out of the run.  The safety properties are proved for any number of faults
(section 5); for the liveness properties a second fault during the recovery from
a first one is not covered.

Event log: four events in two records are two laps; with numbers modulo 4 one
event gets number 0.

The runs of `RecvDelivery`, `AddressBook`, `Discovery`, `RemotePeer` and
`EventLog` do not check for deadlock: their applications, faults and events are
bounded and the system may rest when they are used up.  `ShmRing` and
`SendPipeline` have an explicit `Done` step and are checked.

What the properties say: see the comment above each.  In short:

* ring: `HeadUsable`, `RecordsInBlock` (allocation), `Occupancy`,
  `WritersExclusive` (no overlap), `IntactDelivery`, `SenderFIFO` (what is
  delivered), `NoSilentLoss`, `NeverWedged`, `AckedIsSettled` (nothing
  forgotten, nobody stuck), `ReinitOnlyAfterDamage` (no spurious re-init),
  `SendReturns`; `CleanGuarantees` is five of them together, for the restarts;
* send path: `IosbTellsTheTruth`, `NoUnexpectedCompletion`, `NoLostWakeup`,
  `EveryJobCompletes`;
* receive handles: `UnreadIntact` (no unread message is overwritten),
  `IosbLeadsToMessage`, `OneLateMessage` (how long an idle or closed handle may
  still be served), `FullIsDrained` (the signal for a full buffer is not lost);
* addresses: `Reciprocal` (the two ends agree), `FirstRowWins`;
* discovery: `RoutesMatchHandles`, `SubscribersReachable`,
  the refinement `ImplementsSubscriptions`, and `SubscribersConverge`;
* peers: `OneReader`, `InOrder`, `HealthySurvives`, `Reconnects`, `NobodyStuck`;
* event log: `LinesIntact`, `NewestKept`.

Fairness.  Threads are scheduled: weak fairness on the steps a writer inside
`send`, the receive worker, a caller inside `send_label`, a send worker, the
thread in `recv_broadcast`, the broadcasting thread, the monitor, the accept
thread and a socket receive worker take by themselves.  Strong fairness on
`TimeoutFlush`: a timer that is consulted again and again expires.  A crashed
reader or process is restarted (weak fairness), as the system does with its
nodes.  Strong fairness on `CasSucceeds` of `SendPipeline`: a weak
compare-exchange does not fail spuriously for ever, and the loop of
`complete_one` has no bound of its own (that of `send` has, and needs no such
assumption).  Strong fairness on the receipt of a node's broadcasts in
`Discovery`: they are repeated every three seconds, and one gets through at
last; and a peer that exists is reached in the end (weak fairness on
`Establish`), because the opener and the monitor retry.  In `RecvDelivery` the
application that waits for its semaphore is woken and dismisses (weak fairness
on `AppWait` and `AppDismiss`).  No fairness for calls of the application that
open, close, send or change a handle, nor for crashes, faults or stopping.

Every property that holds has a mutant of a definition that models code, kept beside that
definition, under which TLC finds it violated.

## 4. Findings and known limits

`ring_stale`: `send` makes a reservation visible (`shm_send.cpp:137`) before it
stores WRITING into the header (`shm_send.cpp:165`).  From the second lap on the
bytes there are those of an old record.  If the reader looks in between, it
finds a COMMITTED header with the right magic and generation, delivers the old
message again and advances tail over the reservation; the new message is never
delivered although its `send` returns None.  If the old bytes are payload the
reader re-initialises the block instead.  The comment at
`workers/shm_recv_worker.cpp:131` says of such a record that the worker keeps
trying until it is published or the timer expires.  The trace has one writer,
no crash and no timeout.

`peer_deaf`: a receive worker that ends leaves its entry in `m_sock_recvrs`, and
`start_remote_recv_worker` starts nothing while there is an entry
(`connection_manager.cpp:144`).  If the peer reconnects before the accepting
node's next monitor round, the accept thread registers the new socket and starts
no reader; from then on the monitor pings a live socket and repairs nothing.
The comment at `workers/socket_recv_worker.cpp:26` says that the worker is
launched again upon reconnection.  The connecting node is not affected: it joins
the old worker before it connects (`Reconnects`).

Six more behaviours are in the models as the code has them, and the properties
except exactly them:

* A receive offset is refused only when it exceeds the slot
  (`router.cpp:368`), although a message fills the whole slot and is copied
  behind the offset (`router.cpp:431`): any offset above 0 overwrites the
  beginning of the next slot, or what lies behind the last one.  `UnreadIntact`
  says `Spilled(h) \/`.
* `EVERY_MESSAGE` with all slots unread stores nothing (`router.cpp:430`) but
  writes an IOSB with the slot of the oldest message, Status 0 and
  `Header_Valid` 1, and signals (`router.cpp:437`).  `IosbLeadsToMessage` speaks
  of messages that were stored.
* `TcpSendPlan::send_one` does not look at how much `TCPClient::send` wrote
  (`send_plan.h:37`).  After a partial send the receiver takes the next label's
  header for the missing payload.  `InOrder` says `torn # {}`.
* A thread that is overtaken by `EVENT_LOG_CAPACITY` events shares its record
  with another (`evtlog.cpp:88`); the first to commit publishes a mixture.
  `LinesIntact` and `NewestKept` say `lapped = {} =>`.
* `write_evtlog` takes 0 in `commit_seq` for a record that is being written and
  skips it (`evtlog.cpp:179`, `evtlog.cpp:231`).  The sequence number starts at 1
  (`evtlog.h:30`), has 32 bits and wraps: every 2^32 events one of them gets
  number 0, is committed with it (`evtlog.cpp:120`), and appears in no dump while
  its record holds it.  `log_dump` reaches that event.  `NewestKept` says that a
  record shows its event's number, which for this one is 0.
* `reinit` stores 0 in head and then in tail (`shm_recv.cpp:139`).  A
  writer that was admitted before may still exchange head in between; with four
  of them head can end up more than a block ahead of tail.  `Clean` excludes it.

Where the code gives something up on purpose, the properties count that as
settled and show that nothing else is lost: messages that a flush or re-init
throws away, be it for a writer slower than 50 ms (`dropped`); jobs queued when
a send worker is stopped (`EveryJobCompletes`); labels that find no room in a
broadcast (`SubscribersConverge` speaks of announced labels); rows whose port
is not usable after the narrowing to 16 bits (`FirstRowWins`).

And one limit of liveness: sockets have neither a receive timeout nor
keep-alive, so a machine that vanishes between connecting and identifying
itself blocks the accept thread for ever.  The liveness properties of
`RemotePeer` say `\/ Vanished`.

## 5. Proofs

`ShmRingProofs` proves, for every set of senders and every block size, header
size, alignment and message sizes with `SizesAssumption`, `BlockAssumption` and
`BoundsAssumption` (all three are evaluated by TLC in the runs):

* `TypeCorrect`: `Spec => []TypeOK`;
* `HeadAlwaysUsable`: `Spec => []HeadUsable`;
* `RecordsStayInBlock`: `Spec => []RecordsInBlock`.

They follow from one inductive invariant, `IInv`, of five parts.  `HeadUsable`
alone is not inductive: the compare-exchange adds to the writer's *local* head,
so `LocalsInv` says where a local head may be at each point of `send`;
arithmetic modulo the block needs every position to be a multiple of the
alignment (`AlignedInv`), which in turn depends on the sizes found in memory,
because the reader adds them to tail; and a size found in memory is good only
because a header is written before its state word is stored, also by a writer
whose reservation was flushed long ago (`MemInv`).  There is one lemma per
action; the arithmetic of positions and the memory operators have lemmas of
their own.  `IInv` was also checked as an invariant by TLC on the instances of
`ring_laps` and `ring_restart`.

`AddressBookProofs` proves `EndsAgree`: `Spec => []Reciprocal`, for every file,
mode and set of node numbers with `AddressAssumption`.  The kind of a route is
symmetric in its two ends (`SimSymmetric` for the parity rule, `KindSymmetric`
for all modes), a node is never its own remote peer (`SelfIsLocal`), and the
direction of a connection follows the order of the numbers.  That needs the
book to hold numbers only, which is the inductive invariant `BookOK`: a row with
an invalid node never gets into the book.

It also proves `FirstRowKept`: `Spec => []FirstRowWins`.  That an entry is the
first usable row of its node is not inductive: when a row is added one must know
that no earlier row was usable.  `FirstInv` therefore says of every entry which
row it comes from, and of every node not in the book that all rows read so far
were unusable for it (`AbsentUnusable`).  The proof showed that the property had
to speak of ports in `0 .. 2^PortBits - 1`: a negative port in the file can
narrow to a usable one.

`SendPipelineProofs` assumes `CallsAssumption` (finitely many application
threads, any number of calls and receivers) and proves `PipelineTypes`,
`IosbTruth`, `CompletionsExpected` and `WakeupsKept`, that is `[]TypeOK`,
`[]IosbTellsTheTruth`, `[]NoUnexpectedCompletion` and `[]NoLostWakeup`.  The
invariant follows a job through each worker: a number not used yet is untouched
(`FutureInv`), so is a job before its push (`CallerInv`), a queue holds a job
once and only before its worker began it (`QueueInv`), and a worker's place
agrees with the receivers it has tried (`WorkerInv`).  Then `pending_sends` is
exactly what the two workers together have left (`PendingInv`), so one of them,
and only one, brings it to 0 and writes the IOSB (`IosbInv`).

`RecvDeliveryProofs` assumes `SizesAssumption` and `ModesAssumption` (in
particular that `recv_count` has more values than there are slots) and proves
`RecvTypes`, `UnreadKept`, `IosbsLead` and `AtMostOneLate` for any number of
handles, slots, threads and messages.  `ListInv`: no handle is twice in a list
of subscribers.  `LateInv`: a thread that has delivered late to a handle does
not do so again, because its list no longer holds the handle, and the route
leads to it no more or the thread will see it idle.  `WindowInv`: the unread
messages of a handle are the newest stored ones, in consecutive slots that end
before the index, and each is whole unless it or a later one was copied behind
an offset; `UnreadIntact` alone does not say where the messages are, so it does
not survive a write.  `IosbInv`: a message that is done with is not stored
again, so an IOSB agrees with every stored message it names.

`DiscoveryProofs` assumes `NodesAssumption` and proves, for any nodes, labels,
sizes and number of restarts, `DiscoveryTypes`, `TablesAgree` and `Reached`, and
the refinement `Implements`: `Spec => ImplementsSubscriptions`.
`TablesInv` adds to `RoutesMatchHandles` that no handle has a number above the
last one given out, or a new handle could replace an old one.  `PlaceInv` says
that the thread between a check and the change has a label in hand.  `AskedInv`:
whatever a broadcast, or a thread working on one, says of a node, that node has
asked for, if only before a restart; this is what a step of `AddSubscriber` needs to be a step of
`Subscriptions`.

`RemotePeerProofs` assumes `PeerAssumption` and proves `PeerTypes`,
`SingleReader` (`[]OneReader`) and the action properties `LabelsInOrder` and
`HealthyKept`, for any number of connections, labels and faults and any size of
the socket buffers.  `RoleInv`: only the higher node connects and only the
lower one accepts.  `PlaceInv`: a newer connection has a larger number, so
registry, backlog and threads hold connections in order of age.  `WorkerInv`:
only the worker of the entry in `m_sock_recvrs` reads, and none is started twice
on a connection.  `SockInv`: a node keeps one socket besides those it has not
registered yet.  `InOrder`, which asks that each label handed on be newer than
all before it, needs three more parts: the identification is the first thing on a connection and is sent
once (`IdInv`), the labels on the wires, in the workers' hands and handed on
are ordered along the age of the connections (`OrderInv`), and where no send was
partial a header is followed by its own payload (`FrameInv`).

`EventLogProofs` assumes `EventLogAssumption` and proves `NewestIsKept`:
`Spec => []NewestKept`, and `WholeLines`: `Spec => []LinesIntact` where
`MaxEvents <= SeqMod`.  The hypothesis is needed.  Once the 32-bit sequence
number has come round, a copy begun before can find its own number in a record
written since; TLC finds that with `SeqMod` 2 and 4 events.  `NewestIsKept` has
no such hypothesis: the numbers follow the events however often they come round,
and a record that nobody has touched since its last commit shows the number of
its event (`NumberInv`).  Every
event is logged by one thread and committed once (`OwnerInv`); while nobody was
lapped, a record has one writer and is intact until that one has marked it
(`WriterInv`).  For the dump, a record that shows a number shows its owner's
(`SeqInv`), which under the hypothesis identifies the event, and a
copy under way agrees with its event as far as the record still carries that
event's number (`CopyInv`).

The inductive invariants of these modules were checked by TLC before they were
proved, on the instances of the runs.

`ShmRecordProofs` proves what the ring promises in `Clean` behaviours, under the
same three assumptions as `ShmRingProofs`: `NobodyLapped`, `WritersApart`,
`DeliveredIntact`, `DeliveredInOrder`, `NothingForgotten`, `SleeperCanBeWoken`
and `CleanRing`, that is `Occupancy`, `WritersExclusive`, `IntactDelivery`,
`SenderFIFO`, `NoSilentLoss`, `NeverWedged` and `CleanGuarantees`, and the action
property `ReinitOnlyAfterDamage` (`NoReinitUndamaged`).  All follow from
`RingInvariant`: `Spec => []RInv`.

No variable of the program lists the records between tail and head, so `RInv`
says that such a list exists: a set of positions with sizes, end to end from
tail to head, none across the end of the block (`Shape`); a header that was
written is that of its reservation, and a committed record is a whole published
message (`Marks`); every writer between its compare-exchange and its last store
has one record of its own (`Owners`); a sender's messages lie in the order of
its sends, after what was delivered (`Order`); what was published is delivered,
dropped or in the ring, and the reader does not sleep on an acknowledged message
(`Kept`); without faults it sleeps only in front of wrap records and of messages
whose sender has not posted (`Wraps`).  The argument: records within one length
of the block share no bytes (`DisjointOffsets`), so a store changes the writer's
own record only; and the space check, which does not count a wrap record, is
enough because a header always fits at tail, so a wrap record ends before it
(`WrapRoom`). `Reader` and `Admitted` say what the reader has seen and against
which tail a writer was admitted; `PhaseInv`, `ZeroInv`, `RemakeInv`,
`NumberInv` and `CalmInv` carry the rest through the five stores of a re-init,
the numbers of messages, and behaviours without restart.  TLC checked `RInv` on
the instances of `ring_laps` and `ring_restart` first.

The proof found one gap.  Writers that were admitted against the old tail may
still reserve between the re-init's stores of head and tail; with four of them
head can pass tail by more than a block, so `Occupancy` does not hold then.  The
store of tail now counts as `strayed` when a writer is reserving.

Only model-checked:

* `SendReturns`, `AckedIsSettled`, `EveryJobCompletes`, `FullIsDrained`,
  `SubscribersConverge`, `Reconnects`, `NobodyStuck`: liveness under fairness is
  out of the prover's reach;
* `NoDeliveryBeforePublish` and `AcceptorServed`, which are refuted (section 4).

Every other property of the runs is a theorem, `LinesIntact` under its hypothesis.

## 6. Plan

`LabelChannel`: an abstract specification of a channel with loss that `ShmRing`
implements in clean behaviours.  `NoSilentLoss`, `IntactDelivery` and
`SenderFIFO` are its three parts, stated separately now.

Not modelled:

* the C and C++ wrappers and the getters of IOSB fields: they translate
  arguments and keep no state;
* time measurement, printing and platform wrappers: no protocol state;
* start-up of the manager, beyond the empty tables a restart begins with, and of
  the multicast socket, and the multicast
  parameters of the configuration: a sequence of checks and system calls before
  any thread runs;
* the Windows variants of sockets, semaphores and shared memory: the models
  follow the Linux files, whose behaviour they repeat through another interface;
* `stop` of the shared-memory receive worker, which only process exit calls;
* the slots of a send handle's IOSB ring: `SendPipeline` has the statuses
  written per call, not where they are stored.
