---------------------------- MODULE SendPipeline ----------------------------
(***************************************************************************)
(* From Manager::send_label to the send IOSB: threads of the application   *)
(* build a SendJob per call, hand it to the shared-memory and the socket   *)
(* send worker, and whichever of them finishes the last receiver writes    *)
(* the caller's IOSB.                                                      *)
(*                                                                         *)
(* All callers use one send handle, so that they contend for its IOSBs.    *)
(* A receiver is a number: what ShmSend::send or TCPClient::send does with *)
(* a message is one step with a verdict (ShmRing has the detail).          *)
(***************************************************************************)
EXTENDS Integers, Sequences, FiniteSets

CONSTANTS
    Callers,      \* application threads
    MaxCalls,     \* bound: calls of send_label by all threads together
    MaxReceivers, \* bound: subscribers of the label
    MayStop       \* bound: the workers whose stop is called (at shutdown)

ASSUME CallsAssumption ==
    /\ IsFiniteSet(Callers)
    /\ MaxCalls \in Nat /\ MaxReceivers \in Nat /\ MayStop \subseteq {"local", "remote"}

\* The two instances of SendWorker<SendPlan>, in the order of enqueue_send.
Workers == {"local", "remote"}
Jobs == Callers \X (1..MaxCalls)
NoJob == <<>>

VARIABLES
    open,      \* is the handle registered with the router?
    calls,     \* calls made by each caller
    cpc,       \* where each caller is in enqueue_send
    receivers, \* sizes of job.local_recvrs and job.remote_recvrs
    pending,   \* job.pending_sends
    fails,     \* job.local_failure_count, job.remote_failure_count
    queue,     \* m_send_q of each worker
    sem,       \* m_sem of each worker
    stop,      \* m_stop of each worker
    wpc,       \* where each worker thread is
    wjob,      \* the job it took from its queue
    wnext,     \* how many receivers of that job it has tried
    wpending,  \* complete_one's local pending
    iosb,      \* the send IOSBs written for each job: did they report a failure?
    \* History, read by no step of the code:
    tried,     \* how often each worker called send_one for each job
    surprised  \* complete_one has found pending_sends already 0

jobs    == <<receivers, pending, fails>>
callers == <<calls, cpc>>
threads == <<wpc, wjob, wnext, wpending>>
history == <<tried, surprised>>
queues  == <<queue, sem, stop>>
vars == <<open, callers, jobs, queues, threads, iosb, history>>

-----------------------------------------------------------------------------
(* The application thread: send_label, build_send_job, enqueue_send. *)

Job(c) == <<c, calls[c]>>
Called == {j \in Jobs : j[2] <= calls[j[1]]}
MayCall == Cardinality(Called) < MaxCalls
CallerGoto(c, pc) == cpc' = [cpc EXCEPT ![c] = pc]

\* Mutant: only the shared-memory receivers are counted.
Expected_LocalOnly(n) == n["local"]

\* pending_sends = local_recvrs.size() + remote_recvrs.size()
Expected(n) == n["local"] + n["remote"]

\* The first transport that enqueue_send hands the job to, after w.
Following(n, w) ==
    IF w = "none" /\ n["local"] > 0 THEN <<"check", "local">>
    ELSE IF w # "remote" /\ n["remote"] > 0 THEN <<"check", "remote">>
    ELSE <<"idle">>

\* send_label up to the hand-off: the route and the handle are looked up and
\* the receivers copied under the router's lock.  n is the route's choice of
\* receivers.  A job without receivers is finalized by the caller itself.
SendLabel(c, n) ==
    /\ cpc[c] = <<"idle">> /\ MayCall /\ open
    /\ calls' = [calls EXCEPT ![c] = @ + 1]
    /\ receivers' = [receivers EXCEPT ![<<c, calls[c] + 1>>] = n]
    /\ pending' = [pending EXCEPT ![<<c, calls[c] + 1>>] = Expected(n)]
    /\ CallerGoto(c, IF Following(n, "none") = <<"idle">> THEN <<"finalize">>
                     ELSE Following(n, "none"))
    /\ UNCHANGED <<open, fails, queues, threads, iosb, history>>

\* The buffer does not fit the handle's label, or the handle is not registered
\* any more and build_send_job fails: the call returns without job and IOSB.
SendRefused(c) ==
    /\ cpc[c] = <<"idle">> /\ MayCall
    /\ calls' = [calls EXCEPT ![c] = @ + 1]
    /\ UNCHANGED <<open, cpc, jobs, queues, threads, iosb, history>>

\* Manager::close_send: jobs already built keep the handle alive.  (After the
\* last call it changes nothing that is modelled here.)
CloseSend ==
    /\ open /\ MayCall
    /\ open' = FALSE
    /\ UNCHANGED <<callers, jobs, queues, threads, iosb, history>>

\* SendWorker::enqueue, first line.
EnqueueCheck(c, w) ==
    /\ cpc[c] = <<"check", w>>
    /\ CallerGoto(c, IF stop[w] THEN Following(receivers[Job(c)], w) ELSE <<"push", w>>)
    /\ UNCHANGED <<open, calls, jobs, queues, threads, iosb, history>>

EnqueuePush(c, w) ==
    /\ cpc[c] = <<"push", w>>
    /\ queue' = [queue EXCEPT ![w] = Append(@, Job(c))]
    /\ CallerGoto(c, <<"post", w>>)
    /\ UNCHANGED <<open, calls, jobs, sem, stop, threads, iosb, history>>

\* Mutant: only the job that finds the queue empty is signalled.
Posted_First(n, q) == IF Len(q) = 1 THEN n + 1 ELSE n
Posted(n, q) == n + 1

EnqueuePost(c, w) ==
    /\ cpc[c] = <<"post", w>>
    /\ sem' = [sem EXCEPT ![w] = Posted(@, queue[w])]
    /\ CallerGoto(c, Following(receivers[Job(c)], w))
    /\ UNCHANGED <<open, calls, jobs, queue, stop, threads, iosb, history>>

\* finalize_send_iosb and write_send_iosb, under the handle's mutex: the
\* status is -1 if any receiver failed.
Failed(f) == f["local"] + f["remote"] > 0
WriteIosb(j) == iosb' = [iosb EXCEPT ![j] = Append(@, Failed(fails[j]))]

CallerFinalize(c) ==
    /\ cpc[c] = <<"finalize">>
    /\ WriteIosb(Job(c))
    /\ CallerGoto(c, <<"idle">>)
    /\ UNCHANGED <<open, calls, jobs, queues, threads, history>>

-----------------------------------------------------------------------------
(* SendWorker<SendPlan>::run. *)

WorkerGoto(w, pc) == wpc' = [wpc EXCEPT ![w] = pc]

\* Mutant: the wait does not block.
Woken_Always(w) == TRUE
Woken(w) == sem[w] > 0

\* m_sem.wait() returns.
Wake(w) ==
    /\ wpc[w] = "wait" /\ Woken(w)
    /\ sem' = [sem EXCEPT ![w] = @ - 1]
    /\ WorkerGoto(w, IF stop[w] THEN "exit" ELSE "drain")
    /\ UNCHANGED <<open, callers, jobs, queue, stop, wjob, wnext, wpending, iosb, history>>

Pop(w) ==
    /\ wpc[w] = "drain" /\ queue[w] # <<>>
    /\ wjob' = [wjob EXCEPT ![w] = Head(queue[w])]
    /\ queue' = [queue EXCEPT ![w] = Tail(@)]
    /\ wnext' = [wnext EXCEPT ![w] = 0]
    /\ WorkerGoto(w, "send")
    /\ UNCHANGED <<open, callers, jobs, sem, stop, wpending, iosb, history>>

\* No jobs left: back to the top of the loop.
QueueEmpty(w) ==
    /\ wpc[w] = "drain" /\ queue[w] = <<>>
    /\ WorkerGoto(w, IF stop[w] THEN "exit" ELSE "wait")
    /\ UNCHANGED <<open, callers, jobs, queues, wjob, wnext, wpending, iosb, history>>

\* send_one to the next receiver, and the failure counter.
SendOne(w, ok) ==
    /\ wpc[w] = "send" /\ wnext[w] < receivers[wjob[w]][w]
    /\ wnext' = [wnext EXCEPT ![w] = @ + 1]
    /\ fails' = IF ok THEN fails ELSE [fails EXCEPT ![wjob[w]][w] = @ + 1]
    /\ tried' = [tried EXCEPT ![wjob[w]][w] = @ + 1]
    /\ WorkerGoto(w, "load")
    /\ UNCHANGED <<open, callers, receivers, pending, queues, wjob, wpending, iosb, surprised>>

\* complete_one has seen n in pending_sends.  0 is more completions than sends:
\* an error that is only printed, complete_one returns.
Saw(w, n) ==
    /\ wpending' = [wpending EXCEPT ![w] = n]
    /\ surprised' = (surprised \/ n = 0)
    /\ WorkerGoto(w, IF n = 0 THEN "send" ELSE "cas")

\* JobCompleteGuard -> complete_one: load pending_sends.
LoadPending(w) ==
    /\ wpc[w] = "load"
    /\ Saw(w, pending[wjob[w]])
    /\ UNCHANGED <<open, callers, jobs, queues, wjob, wnext, iosb, tried>>

\* Mutant: finalize one completion too early.
LastOne_Early(n) == n <= 1

PendingIsMine(w) == pending[wjob[w]] = wpending[w]
LastOne(n) == n = 0

CasSucceeds(w) ==
    /\ wpc[w] = "cas" /\ PendingIsMine(w)
    /\ pending' = [pending EXCEPT ![wjob[w]] = wpending[w] - 1]
    /\ wpending' = [wpending EXCEPT ![w] = 0]
    /\ WorkerGoto(w, IF LastOne(wpending[w] - 1) THEN "finalize" ELSE "send")
    /\ UNCHANGED <<open, callers, receivers, fails, queues, wjob, wnext, iosb, history>>

\* The other worker completed one, or the weak compare-exchange failed.
CasFails(w) ==
    /\ wpc[w] = "cas"
    /\ Saw(w, pending[wjob[w]])
    /\ UNCHANGED <<open, callers, jobs, queues, wjob, wnext, iosb, tried>>

Finalize(w) ==
    /\ wpc[w] = "finalize"
    /\ WriteIosb(wjob[w])
    /\ WorkerGoto(w, "send")
    /\ UNCHANGED <<open, callers, jobs, queues, wjob, wnext, wpending, history>>

\* All receivers were tried: the worker lets go of the job.
JobDone(w) ==
    /\ wpc[w] = "send" /\ wnext[w] = receivers[wjob[w]][w]
    /\ wjob' = [wjob EXCEPT ![w] = NoJob]
    /\ wnext' = [wnext EXCEPT ![w] = 0]
    /\ WorkerGoto(w, "drain")
    /\ UNCHANGED <<open, callers, jobs, queues, wpending, iosb, history>>

\* SendWorker::stop, called by the destructor only: ConnectionManager's members
\* are destroyed in reverse order, the socket worker before the other.
StopTurn(w) == w = "local" => wpc["remote"] = "gone"

\* Set m_stop and wake the thread ...
StopRequest(w) ==
    /\ w \in MayStop /\ ~stop[w] /\ StopTurn(w)
    /\ stop' = [stop EXCEPT ![w] = TRUE]
    /\ sem' = [sem EXCEPT ![w] = @ + 1]
    /\ UNCHANGED <<open, callers, jobs, queue, threads, iosb, history>>

\* ... and once it has exited, throw away what is still queued.
StopClear(w) ==
    /\ wpc[w] = "exit"
    /\ queue' = [queue EXCEPT ![w] = <<>>]
    /\ WorkerGoto(w, "gone")
    /\ UNCHANGED <<open, callers, jobs, sem, stop, wjob, wnext, wpending, iosb, history>>

-----------------------------------------------------------------------------

Init ==
    /\ open = TRUE
    /\ calls = [c \in Callers |-> 0]
    /\ cpc = [c \in Callers |-> <<"idle">>]
    /\ receivers = [j \in Jobs |-> [w \in Workers |-> 0]]
    /\ pending = [j \in Jobs |-> 0]
    /\ fails = [j \in Jobs |-> [w \in Workers |-> 0]]
    /\ queue = [w \in Workers |-> <<>>]
    /\ sem = [w \in Workers |-> 0]
    /\ stop = [w \in Workers |-> FALSE]
    /\ wpc = [w \in Workers |-> "wait"]
    /\ wjob = [w \in Workers |-> NoJob]
    /\ wnext = [w \in Workers |-> 0]
    /\ wpending = [w \in Workers |-> 0]
    /\ iosb = [j \in Jobs |-> <<>>]
    /\ tried = [j \in Jobs |-> [w \in Workers |-> 0]]
    /\ surprised = FALSE

\* The steps a caller inside send_label, and a worker thread, take by themselves.
CallerStep(c) ==
    \/ \E w \in Workers : EnqueueCheck(c, w) \/ EnqueuePush(c, w) \/ EnqueuePost(c, w)
    \/ CallerFinalize(c)

WorkerStep(w) ==
    \/ Wake(w) \/ Pop(w) \/ QueueEmpty(w) \/ (\E ok \in BOOLEAN : SendOne(w, ok))
    \/ LoadPending(w) \/ CasSucceeds(w) \/ CasFails(w) \/ Finalize(w) \/ JobDone(w)

\* Every call was made and every worker sleeps: nothing is left to do.
Done ==
    /\ ~MayCall /\ \A c \in Callers : cpc[c] = <<"idle">>
    /\ \A w \in Workers : wpc[w] = "gone" \/ (wpc[w] = "wait" /\ sem[w] = 0)
    /\ UNCHANGED vars

Next ==
    \/ \E c \in Callers :
          \/ \E n \in [Workers -> 0..MaxReceivers] :
                n["local"] + n["remote"] <= MaxReceivers /\ SendLabel(c, n)
          \/ SendRefused(c)
          \/ CallerStep(c)
    \/ CloseSend
    \/ \E w \in Workers :
          WorkerStep(w) \/ StopRequest(w) \/ StopClear(w)
    \/ Done

Spec == Init /\ [][Next]_vars

\* Every thread that can run is scheduled again and again, a receiver's send
\* returns, and a weak compare-exchange that is retried succeeds in the end.
\* Nothing makes an application call send_label, close a handle or stop.
Fairness ==
    /\ \A c \in Callers : WF_vars(CallerStep(c))
    /\ \A w \in Workers : WF_vars(WorkerStep(w)) /\ SF_vars(CasSucceeds(w))

LiveSpec == Spec /\ Fairness

-----------------------------------------------------------------------------
(* Properties. *)

TypeOK ==
    /\ open \in BOOLEAN
    /\ calls \in [Callers -> 0..MaxCalls]
    /\ cpc \in [Callers -> {<<"idle">>, <<"finalize">>} \cup ({"check", "push", "post"} \X Workers)]
    /\ receivers \in [Jobs -> [Workers -> 0..MaxReceivers]]
    /\ pending \in [Jobs -> Nat] /\ fails \in [Jobs -> [Workers -> Nat]]
    /\ queue \in [Workers -> Seq(Jobs)]
    /\ sem \in [Workers -> Nat] /\ stop \in [Workers -> BOOLEAN]
    /\ wpc \in [Workers -> {"wait", "drain", "send", "load", "cas", "finalize",
                            "exit", "gone"}]
    /\ wjob \in [Workers -> Jobs \cup {<<>>}]
    /\ wnext \in [Workers -> Nat] /\ wpending \in [Workers -> Nat]
    /\ iosb \in [Jobs -> Seq(BOOLEAN)]
    /\ tried \in [Jobs -> [Workers -> Nat]] /\ surprised \in BOOLEAN

\* Worker w has tried every receiver of the job once.
Finished(w, j) == tried[j][w] = receivers[j][w]

\* An IOSB is written at most once per call, only when every receiver of the
\* job was tried by its own worker, and it reports a failure exactly if some
\* receiver failed, whichever worker came last.
IosbTellsTheTruth ==
    \A j \in Jobs : iosb[j] # <<>> =>
        /\ iosb[j] = <<\E w \in Workers : fails[j][w] > 0>>
        /\ \A w \in Workers : Finished(w, j)

\* complete_one never finds pending_sends already 0: "pending_sends starting
\* vlaue must have been incorrect or logic ... is incorrect" cannot happen.
NoUnexpectedCompletion == ~surprised

\* No lost wake-up: a worker that sleeps while jobs are queued has a post it
\* has not taken yet, or the caller that queued the last one is about to post.
NoLostWakeup ==
    \A w \in Workers :
        wpc[w] = "wait" /\ queue[w] # <<>> =>
            sem[w] > 0 \/ \E c \in Callers : cpc[c] = <<"post", w>>

\* Every job that was accepted gets its IOSB, as long as nobody stops a worker:
\* again and again no accepted call is left without one.
Accepted(j) == j \in Called /\ Expected(receivers[j]) > 0
EveryJobCompletes ==
    []<>((\E w \in Workers : stop[w]) \/ \A j \in Jobs : Accepted(j) => iosb[j] # <<>>)
=============================================================================
