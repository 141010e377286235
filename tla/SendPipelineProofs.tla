------------------------- MODULE SendPipelineProofs -------------------------
(***************************************************************************)
(* Every job is completed once and its IOSB tells the truth, for any       *)
(* number of application threads, calls and receivers, whichever workers   *)
(* are stopped and whenever.                                               *)
(*                                                                         *)
(* The argument follows a job through each worker: it is untouched until   *)
(* its caller pushes it, then queued once, then held by the worker that    *)
(* tries its receivers one by one.  pending_sends is what the two workers  *)
(* together still have to complete, so only one of them brings it to 0.    *)
(***************************************************************************)
EXTENDS SendPipeline, FiniteSetTheorems, SequenceTheorems, TLAPS

-----------------------------------------------------------------------------
(* Sequences without repetitions. *)

Elems(s) == {s[i] : i \in 1 .. Len(s)}
Distinct(s) == \A i, k \in 1 .. Len(s) : s[i] = s[k] => i = k

\* push_back of a new element.
LEMMA AppendDistinct ==
    ASSUME NEW S, NEW s \in Seq(S), NEW e \in S
    PROVE  /\ Elems(Append(s, e)) = Elems(s) \cup {e}
           /\ Distinct(s) /\ e \notin Elems(s) => Distinct(Append(s, e))
  <1>1. /\ Len(s) \in Nat /\ Len(Append(s, e)) = Len(s) + 1
        /\ \A i \in 1 .. Len(s) : Append(s, e)[i] = s[i]
        /\ Append(s, e)[Len(s) + 1] = e
    BY AppendProperties
  <1>2. Elems(Append(s, e)) = Elems(s) \cup {e}
    BY <1>1 DEF Elems
  <1>3. ASSUME Distinct(s), e \notin Elems(s) PROVE Distinct(Append(s, e))
    BY <1>1, <1>3 DEF Elems, Distinct
  <1> QED
    BY <1>2, <1>3

\* pop_front.
LEMMA TailDistinct ==
    ASSUME NEW S, NEW s \in Seq(S), s # <<>>, Distinct(s)
    PROVE  /\ Head(s) \in Elems(s)
           /\ Elems(Tail(s)) = Elems(s) \ {Head(s)}
           /\ Distinct(Tail(s))
  <1>1. /\ Len(s) \in Nat \ {0} /\ Len(Tail(s)) = Len(s) - 1 /\ Head(s) = s[1]
        /\ \A i \in 1 .. Len(s) - 1 : Tail(s)[i] = s[i + 1]
    BY HeadTailProperties, EmptySeq
  <1>2. Head(s) \in Elems(s)
    BY <1>1 DEF Elems
  <1>3. ASSUME NEW x \in Elems(Tail(s)) PROVE x \in Elems(s) \ {Head(s)}
    <2>1. PICK i \in 1 .. Len(s) - 1 : x = s[i + 1]
      BY <1>1, <1>3 DEF Elems
    <2>2. i + 1 \in 1 .. Len(s) /\ 1 \in 1 .. Len(s) /\ i + 1 # 1
      BY <1>1, <2>1
    <2> QED
      BY <1>1, <2>1, <2>2 DEF Elems, Distinct
  <1>4. ASSUME NEW x \in Elems(s) \ {Head(s)} PROVE x \in Elems(Tail(s))
    <2>1. PICK i \in 1 .. Len(s) : x = s[i] /\ i # 1
      BY <1>1, <1>4 DEF Elems
    <2>2. i - 1 \in 1 .. Len(s) - 1 /\ x = Tail(s)[i - 1]
      BY <1>1, <2>1
    <2> QED
      BY <1>1, <2>2 DEF Elems
  <1>5. Distinct(Tail(s))
    BY <1>1 DEF Distinct
  <1> QED
    BY <1>2, <1>3, <1>4, <1>5

LEMMA ElemsType ==
    ASSUME NEW S, NEW s \in Seq(S)
    PROVE  Elems(s) \subseteq S
  BY DEF Elems

LEMMA EmptyDistinct == Elems(<<>>) = {} /\ Distinct(<<>>)
  BY DEF Elems, Distinct

-----------------------------------------------------------------------------
(* The inductive invariant. *)

Queued(w) == Elems(queue[w])

\* Worker w has never seen the job.
Untouched(j, w) == tried[j][w] = 0 /\ wjob[w] # j /\ j \notin Queued(w)

\* The places of enqueue_send before the push to w.
BeforePush(pc, w) ==
    \/ pc = <<"check", w>> \/ pc = <<"push", w>>
    \/ w = "remote" /\ pc \in {<<"check", "local">>, <<"push", "local">>, <<"post", "local">>}

\* A job number that was not used yet.
FutureInv ==
    \A j \in Jobs : j[2] > calls[j[1]] =>
        /\ \A w \in Workers : Untouched(j, w) /\ receivers[j][w] = 0
        /\ pending[j] = 0 /\ iosb[j] = <<>>

\* A caller inside enqueue_send, or about to finalize a job without receivers.
CallerInv ==
    \A c \in Callers :
        /\ cpc[c] # <<"idle">> => calls[c] >= 1
        /\ \A w \in Workers : BeforePush(cpc[c], w) => Untouched(Job(c), w)
        /\ cpc[c] = <<"finalize">> =>
              iosb[Job(c)] = <<>> /\ \A w \in Workers : receivers[Job(c)][w] = 0

\* A queue holds a job once, and only jobs its worker has not begun.
QueueInv ==
    \A w \in Workers :
        /\ Distinct(queue[w])
        /\ \A j \in Queued(w) : tried[j][w] = 0 /\ wjob[w] # j

Working == {"send", "load", "cas", "finalize"}

\* The worker's place in its job.
WorkerInv ==
    \A w \in Workers :
        /\ wpc[w] \in Working <=> wjob[w] # NoJob
        /\ wpc[w] \in Working => tried[wjob[w]][w] = wnext[w]
        /\ wpc[w] \in {"load", "cas", "finalize"} => wnext[w] > 0
        /\ wpc[w] = "cas" => wpending[w] > 0

\* Between send_one and the compare-exchange one try is not completed yet.
Open(w, j) == IF wjob[w] = j /\ wpc[w] \in {"load", "cas"} THEN 1 ELSE 0
Left(w, j) == receivers[j][w] - tried[j][w] + Open(w, j)

\* pending_sends counts what both workers have left.
PendingInv ==
    \A j \in Jobs :
        /\ \A w \in Workers : tried[j][w] <= receivers[j][w]
        /\ pending[j] = Left("local", j) + Left("remote", j)

Finalizing(w, j) == wjob[w] = j /\ wpc[w] = "finalize"

\* The IOSB is written after the last completion, by one worker.
IosbInv ==
    \A j \in Jobs :
        /\ iosb[j] # <<>> => pending[j] = 0 /\ iosb[j] = <<Failed(fails[j])>>
        /\ \A w \in Workers : Finalizing(w, j) =>
              /\ pending[j] = 0 /\ iosb[j] = <<>>
              /\ \A v \in Workers : Finalizing(v, j) => v = w

IInv ==
    /\ TypeOK /\ FutureInv /\ CallerInv /\ QueueInv /\ WorkerInv /\ PendingInv
    /\ IosbInv /\ NoUnexpectedCompletion /\ NoLostWakeup

-----------------------------------------------------------------------------
(* Types. *)

CallerPCs == {<<"idle">>, <<"finalize">>} \cup ({"check", "push", "post"} \X Workers)
WorkerPCs == {"wait", "drain", "send", "load", "cas", "finalize", "exit", "gone"}

LEMMA WorkersFact == "local" \in Workers /\ "remote" \in Workers
  BY DEF Workers

LEMMA NoJobFact == NoJob \notin Jobs
  BY DEF NoJob, Jobs

\* A caller's current job.
LEMMA JobFact ==
    ASSUME TypeOK, NEW c \in Callers, calls[c] >= 1
    PROVE  Job(c) \in Jobs /\ Job(c)[1] = c /\ Job(c)[2] = calls[c]
  BY CallsAssumption DEF TypeOK, Job, Jobs

\* The bound on all calls together bounds each thread's.
LEMMA CallBound ==
    ASSUME TypeOK, MayCall, NEW c \in Callers
    PROVE  calls[c] < MaxCalls
  <1>1. calls[c] \in 0 .. MaxCalls /\ MaxCalls \in Nat
    BY CallsAssumption DEF TypeOK
  <1>2. IsFiniteSet(Called) /\ Cardinality(Called) < MaxCalls
    <2>1. IsFiniteSet(1 .. MaxCalls)
      BY <1>1, FS_Interval
    <2>2. IsFiniteSet(Jobs)
      BY <2>1, CallsAssumption, FS_Product DEF Jobs
    <2>3. Called \in SUBSET Jobs
      BY DEF Called
    <2> QED
      BY <2>2, <2>3, FS_Subset DEF MayCall
  <1> DEFINE Mine == {c} \X (1 .. calls[c])
  <1>3. IsFiniteSet(Mine) /\ Cardinality(Mine) = calls[c]
    <2>1. IsFiniteSet({c}) /\ Cardinality({c}) = 1
      BY FS_Singleton
    <2>2. IsFiniteSet(1 .. calls[c]) /\ Cardinality(1 .. calls[c]) = calls[c]
      <3>1. /\ IsFiniteSet(1 .. calls[c])
            /\ Cardinality(1 .. calls[c]) = IF 1 > calls[c] THEN 0 ELSE calls[c] - 1 + 1
        <4>1. 1 \in Int /\ calls[c] \in Int
          BY <1>1
        <4> QED
          BY <4>1, FS_Interval, Zenon
      <3> QED
        BY <1>1, <3>1
    <2>3. IsFiniteSet(Mine) /\ Cardinality(Mine) = Cardinality({c}) * Cardinality(1 .. calls[c])
      BY <2>1, <2>2, FS_Product
    <2> QED
      BY <1>1, <2>1, <2>2, <2>3
  <1>4. Mine \in SUBSET Called
    BY <1>1 DEF Called, Jobs
  <1>5. Cardinality(Mine) <= Cardinality(Called)
    BY <1>2, <1>4, FS_Subset
  <1>6. Cardinality(Called) \in Nat
    BY <1>2, FS_CardinalityType
  <1> QED
    BY <1>1, <1>2, <1>3, <1>5, <1>6

\* Where enqueue_send goes next.
LEMMA FollowingFact ==
    ASSUME NEW n \in [Workers -> Nat]
    PROVE  /\ \A w \in Workers : Following(n, w) \in {<<"idle">>, <<"check", "remote">>}
           /\ Following(n, "remote") = <<"idle">>
           /\ Following(n, "none") \in {<<"idle">>, <<"check", "local">>, <<"check", "remote">>}
           /\ Following(n, "none") = <<"idle">> => \A w \in Workers : n[w] = 0
  BY DEF Following, Workers

-----------------------------------------------------------------------------
(* Initial states. *)

LEMMA InitInv == Init => IInv
  <1> SUFFICES ASSUME Init PROVE IInv
    OBVIOUS
  <1> USE DEF Init
  <1>1. TypeOK
    <2>1. queue \in [Workers -> Seq(Jobs)] /\ iosb \in [Jobs -> Seq(BOOLEAN)]
      BY EmptySeq, Zenon
    <2>2. cpc \in [Callers -> {<<"idle">>, <<"finalize">>} \cup ({"check", "push", "post"} \X Workers)]
      BY Zenon
    <2>3. calls \in [Callers -> 0 .. MaxCalls] /\ receivers \in [Jobs -> [Workers -> 0 .. MaxReceivers]]
      BY CallsAssumption
    <2> QED
      BY <2>1, <2>2, <2>3 DEF TypeOK, NoJob
  <1>2. \A w \in Workers : Queued(w) = {} /\ Distinct(queue[w])
    BY EmptyDistinct DEF Queued
  <1>3. FutureInv
    BY <1>2, NoJobFact DEF FutureInv, Untouched
  <1>4. CallerInv
    BY DEF CallerInv, BeforePush
  <1>5. QueueInv
    BY <1>2 DEF QueueInv
  <1>6. WorkerInv
    BY DEF WorkerInv, Working
  <1>7. PendingInv
    BY WorkersFact DEF PendingInv, Left, Open
  <1>8. IosbInv
    BY DEF IosbInv, Finalizing
  <1>9. NoUnexpectedCompletion /\ NoLostWakeup
    BY DEF NoUnexpectedCompletion, NoLostWakeup
  <1> QED
    BY <1>1, <1>3, <1>4, <1>5, <1>6, <1>7, <1>8, <1>9 DEF IInv

-----------------------------------------------------------------------------
(* What a step leaves alone. *)

LEMMA QueueFrame ==
    ASSUME QueueInv, UNCHANGED <<queue, tried, wjob>> PROVE QueueInv'
  BY DEF QueueInv, Queued

LEMMA WorkerFrame ==
    ASSUME WorkerInv, UNCHANGED <<threads, tried>> PROVE WorkerInv'
  BY DEF WorkerInv, threads

LEMMA PendingFrame ==
    ASSUME PendingInv, UNCHANGED <<jobs, threads, tried>> PROVE PendingInv'
  BY DEF PendingInv, Left, Open, jobs, threads

LEMMA IosbFrame ==
    ASSUME IosbInv, UNCHANGED <<jobs, threads, iosb>> PROVE IosbInv'
  BY DEF IosbInv, Finalizing, jobs, threads

\* A caller that is not about to post moves on.
LEMMA WakeupFrame ==
    ASSUME TypeOK, NoLostWakeup, NEW c \in Callers, NEW pc, cpc' = [cpc EXCEPT ![c] = pc],
           \A w \in Workers : cpc[c] # <<"post", w>>, UNCHANGED <<wpc, queue, sem>>
    PROVE  NoLostWakeup'
  <1>1. ASSUME NEW w \in Workers, NEW d \in Callers, cpc[d] = <<"post", w>>
        PROVE  cpc'[d] = <<"post", w>>
    <2>1. d # c
      BY <1>1
    <2> QED
      BY <1>1, <2>1 DEF TypeOK
  <1> QED
    BY <1>1 DEF NoLostWakeup

\* A step of a worker: callers stay where they are, what the worker has not
\* seen stays untouched, and a job without receivers is not completed.
LEMMA CallersFrame ==
    ASSUME TypeOK, FutureInv, CallerInv, UNCHANGED <<callers, receivers>>,
           \A j \in Jobs, w \in Workers : Untouched(j, w) => Untouched(j, w)',
           \A j \in Jobs : (\A w \in Workers : receivers[j][w] = 0)
                             => iosb'[j] = iosb[j] /\ pending'[j] = pending[j]
    PROVE  FutureInv' /\ CallerInv'
  <1>1. FutureInv'
    BY DEF FutureInv, callers
  <1>2. CallerInv'
    <2> SUFFICES ASSUME NEW c \in Callers
                 PROVE  /\ cpc[c] # <<"idle">> => calls[c] >= 1
                        /\ \A w \in Workers : BeforePush(cpc[c], w) => Untouched(Job(c), w)'
                        /\ cpc[c] = <<"finalize">> =>
                              iosb'[Job(c)] = <<>> /\ \A w \in Workers : receivers[Job(c)][w] = 0
      BY DEF CallerInv, callers, Job
    <2>1. CASE cpc[c] = <<"idle">>
      BY <2>1 DEF BeforePush
    <2>2. CASE cpc[c] # <<"idle">>
      <3>1. Job(c) \in Jobs
        BY <2>2, JobFact DEF CallerInv
      <3> QED
        BY <2>2, <3>1 DEF CallerInv, Untouched, Queued, Job, callers
    <2> QED
      BY <2>1, <2>2
  <1> QED
    BY <1>1, <1>2

-----------------------------------------------------------------------------
(* Steps of the callers. *)

LEMMA SendLabelInv ==
    ASSUME IInv, NEW c \in Callers, NEW n \in [Workers -> 0 .. MaxReceivers], SendLabel(c, n)
    PROVE  IInv'
  <1> DEFINE j == <<c, calls[c] + 1>>
  <1> USE DEF IInv, queues, threads, history
  <1>0. n \in [Workers -> Nat]
    BY CallsAssumption
  <1>1. calls[c] \in Nat /\ calls[c] + 1 \in 1 .. MaxCalls /\ j \in Jobs /\ j[1] = c /\ j[2] = calls[c] + 1
    BY CallBound, CallsAssumption, SMTT(60) DEF TypeOK, Jobs, SendLabel
  <1>2. /\ \A w \in Workers : Untouched(j, w)
        /\ iosb[j] = <<>>
    BY <1>1 DEF FutureInv
  <1>3. Expected(n) \in Nat /\ Expected(n) = n["local"] + n["remote"]
    BY <1>0, WorkersFact DEF Expected
  <1> DEFINE pc == IF Following(n, "none") = <<"idle">> THEN <<"finalize">> ELSE Following(n, "none")
  <1>4. /\ pc \in {<<"finalize">>, <<"check", "local">>, <<"check", "remote">>}
        /\ pc = <<"finalize">> => \A w \in Workers : n[w] = 0
    BY <1>0, FollowingFact
  <1>5. /\ calls' = [calls EXCEPT ![c] = @ + 1]
        /\ receivers' = [receivers EXCEPT ![j] = n]
        /\ pending' = [pending EXCEPT ![j] = Expected(n)]
        /\ cpc' = [cpc EXCEPT ![c] = pc] /\ cpc[c] = <<"idle">>
        /\ UNCHANGED <<open, fails, queues, threads, iosb, history>>
    BY DEF CallerGoto, SendLabel
  <1> HIDE DEF j, pc
  <1>6. TypeOK'
    <2>1. calls' \in [Callers -> 0 .. MaxCalls]
      BY <1>1, <1>5 DEF TypeOK
    <2>2. receivers' \in [Jobs -> [Workers -> 0 .. MaxReceivers]]
      BY <1>1, <1>5 DEF TypeOK
    <2>4. pending' \in [Jobs -> Nat]
      BY <1>1, <1>3, <1>5 DEF TypeOK
    <2>3. cpc' \in [Callers -> {<<"idle">>, <<"finalize">>} \cup ({"check", "push", "post"} \X Workers)]
      BY <1>4, <1>5, WorkersFact DEF TypeOK
    <2> QED
      BY <1>5, <2>1, <2>2, <2>3, <2>4 DEF TypeOK
  <1>7. FutureInv'
    BY <1>1, <1>5, SMTT(60) DEF FutureInv, Untouched, Queued, TypeOK, Jobs
  <1>8. CallerInv'
    <2> SUFFICES ASSUME NEW d \in Callers
                 PROVE  /\ cpc'[d] # <<"idle">> => calls'[d] >= 1
                        /\ \A w \in Workers : BeforePush(cpc'[d], w) => Untouched(Job(d), w)'
                        /\ cpc'[d] = <<"finalize">> =>
                              iosb'[Job(d)'] = <<>> /\ \A w \in Workers : receivers'[Job(d)'][w] = 0
      BY DEF CallerInv
    <2>1. CASE d = c
      <3>1. Job(d)' = j /\ cpc'[d] = pc /\ calls'[d] >= 1
        BY <1>1, <1>5, <2>1 DEF Job, j, TypeOK
      <3> QED
        BY <1>1, <1>2, <1>4, <1>5, <3>1 DEF Untouched, Queued, TypeOK
    <2>2. CASE d # c
      <3>1. Job(d)' = Job(d) /\ cpc'[d] = cpc[d] /\ calls'[d] = calls[d] /\ Job(d) # j
        BY <1>1, <1>5, <2>2 DEF Job, j, TypeOK
      <3>2. \A w \in Workers : Untouched(Job(d), w)' <=> Untouched(Job(d), w)
        BY <1>5, <3>1 DEF Untouched, Queued
      <3>3. ASSUME cpc[d] = <<"finalize">>
            PROVE  receivers'[Job(d)] = receivers[Job(d)]
        <4>1. Job(d) \in Jobs
          BY <3>3, JobFact DEF CallerInv
        <4> QED
          BY <1>5, <3>1, <4>1 DEF TypeOK
      <3> QED
        BY <1>5, <3>1, <3>2, <3>3 DEF CallerInv
    <2> QED
      BY <2>1, <2>2
  <1>9. QueueInv' /\ WorkerInv'
    BY <1>5, QueueFrame, WorkerFrame
  <1>10. PendingInv'
    <2> SUFFICES ASSUME NEW k \in Jobs
                 PROVE  /\ \A w \in Workers : tried[k][w] <= receivers'[k][w]
                        /\ pending'[k] = Left("local", k)' + Left("remote", k)'
      BY <1>5 DEF PendingInv
    <2>1. CASE k = j
      <3>1. \A w \in Workers : tried[k][w] = 0 /\ receivers'[k][w] = n[w] /\ Left(w, k)' = n[w]
        BY <1>0, <1>1, <1>2, <1>5, <2>1 DEF Left, Open, Untouched, TypeOK
      <3>2. pending'[k] = n["local"] + n["remote"]
        BY <1>1, <1>3, <1>5, <2>1 DEF TypeOK
      <3> QED
        BY <1>0, <3>1, <3>2, WorkersFact
    <2>2. CASE k # j
      <3>1. receivers'[k] = receivers[k] /\ pending'[k] = pending[k]
        BY <1>5, <2>2 DEF TypeOK
      <3> QED
        BY <1>5, <3>1 DEF PendingInv, Left, Open
    <2> QED
      BY <2>1, <2>2
  <1>11. IosbInv'
    <2>1. \A k \in Jobs : k # j => pending'[k] = pending[k]
      BY <1>5 DEF TypeOK
    <2>2. \A w \in Workers : wjob[w] # j
      BY <1>2 DEF Untouched
    <2> QED
      BY <1>2, <1>5, <2>1, <2>2 DEF IosbInv, Finalizing
  <1>12. NoUnexpectedCompletion' /\ NoLostWakeup'
    <2>1. \A w \in Workers : cpc[c] # <<"post", w>>
      BY <1>5
    <2>2. UNCHANGED <<wpc, queue, sem>>
      BY <1>5
    <2>3. NoLostWakeup'
      BY <1>5, <2>1, <2>2, WakeupFrame
    <2> QED
      BY <1>5, <2>3 DEF NoUnexpectedCompletion
  <1> QED
    BY <1>6, <1>7, <1>8, <1>9, <1>10, <1>11, <1>12

LEMMA SendRefusedInv ==
    ASSUME IInv, NEW c \in Callers, SendRefused(c)
    PROVE  IInv'
  <1> USE DEF IInv, SendRefused, jobs, queues, threads, history
  <1>1. calls[c] \in Nat /\ calls[c] + 1 \in 1 .. MaxCalls
    BY CallBound, CallsAssumption DEF TypeOK
  <1>2. TypeOK'
    BY <1>1 DEF TypeOK
  <1>3. FutureInv'
    BY <1>1 DEF FutureInv, Untouched, Queued, TypeOK, Jobs
  <1>4. CallerInv'
    <2> SUFFICES ASSUME NEW d \in Callers, cpc[d] # <<"idle">>
                 PROVE  /\ calls'[d] >= 1
                        /\ \A w \in Workers : BeforePush(cpc[d], w) => Untouched(Job(d), w)'
                        /\ cpc[d] = <<"finalize">> =>
                              iosb[Job(d)'] = <<>> /\ \A w \in Workers : receivers[Job(d)'][w] = 0
      BY DEF CallerInv, BeforePush
    <2>1. d # c /\ calls'[d] = calls[d] /\ Job(d)' = Job(d)
      BY DEF Job, TypeOK
    <2> QED
      BY <2>1 DEF CallerInv, Untouched, Queued
  <1>5. QueueInv' /\ WorkerInv' /\ PendingInv' /\ IosbInv'
    BY QueueFrame, WorkerFrame, PendingFrame, IosbFrame
  <1>6. NoUnexpectedCompletion' /\ NoLostWakeup'
    BY DEF NoUnexpectedCompletion, NoLostWakeup
  <1> QED
    BY <1>2, <1>3, <1>4, <1>5, <1>6

LEMMA CloseSendInv ==
    ASSUME IInv, CloseSend
    PROVE  IInv'
  <1> USE DEF IInv, CloseSend, callers, jobs, queues, threads, history
  <1>1. TypeOK'
    BY DEF TypeOK
  <1>2. FutureInv' /\ CallerInv'
    BY DEF FutureInv, CallerInv, Untouched, Queued, Job
  <1>3. QueueInv' /\ WorkerInv' /\ PendingInv' /\ IosbInv'
    BY QueueFrame, WorkerFrame, PendingFrame, IosbFrame
  <1>4. NoUnexpectedCompletion' /\ NoLostWakeup'
    BY DEF NoUnexpectedCompletion, NoLostWakeup
  <1> QED
    BY <1>1, <1>2, <1>3, <1>4

\* A caller goes on in enqueue_send to a place that is no earlier, without
\* changing the job: its own job stays untouched where it was.
LEMMA CallerMoves ==
    ASSUME TypeOK, CallerInv, NEW c \in Callers, NEW pc,
           cpc[c] # <<"idle">>, cpc' = [cpc EXCEPT ![c] = pc],
           UNCHANGED <<calls, receivers, tried, wjob, iosb>>,
           pc # <<"finalize">>,
           \A w \in Workers : BeforePush(pc, w) => BeforePush(cpc[c], w),
           \A w \in Workers, d \in Callers : BeforePush(cpc'[d], w) => (Job(d) \in Queued(w)' <=> Job(d) \in Queued(w))
    PROVE  CallerInv'
  <1> SUFFICES ASSUME NEW d \in Callers
               PROVE  /\ cpc'[d] # <<"idle">> => calls[d] >= 1
                      /\ \A w \in Workers : BeforePush(cpc'[d], w) => Untouched(Job(d), w)'
                      /\ cpc'[d] = <<"finalize">> =>
                            iosb[Job(d)] = <<>> /\ \A w \in Workers : receivers[Job(d)][w] = 0
    BY DEF CallerInv, Job
  <1>1. Job(d)' = Job(d)
    BY DEF Job
  <1>2. CASE d = c
    <2>1. cpc'[d] = pc
      BY <1>2 DEF TypeOK
    <2>2. ASSUME NEW w \in Workers, BeforePush(cpc'[d], w) PROVE Untouched(Job(d), w)'
      <3>1. BeforePush(cpc[d], w)
        BY <1>2, <2>1, <2>2
      <3>2. Untouched(Job(d), w) /\ Job(d) \notin Queued(w)'
        BY <2>2, <3>1 DEF CallerInv, Untouched
      <3> QED
        BY <1>1, <3>2 DEF Untouched
    <2>3. calls[d] >= 1
      BY <1>2 DEF CallerInv
    <2> QED
      BY <2>1, <2>2, <2>3
  <1>3. CASE d # c
    <2>1. cpc'[d] = cpc[d]
      BY <1>3 DEF TypeOK
    <2>2. ASSUME NEW w \in Workers, BeforePush(cpc[d], w) PROVE Untouched(Job(d), w)'
      <3>1. Untouched(Job(d), w) /\ Job(d) \notin Queued(w)'
        BY <2>1, <2>2 DEF CallerInv, Untouched
      <3> QED
        BY <1>1, <3>1 DEF Untouched
    <2>3. cpc[d] # <<"idle">> => calls[d] >= 1
      BY DEF CallerInv
    <2>4. cpc[d] = <<"finalize">> =>
             iosb[Job(d)] = <<>> /\ \A w \in Workers : receivers[Job(d)][w] = 0
      BY DEF CallerInv
    <2>5. \A w \in Workers : BeforePush(cpc'[d], w) => Untouched(Job(d), w)'
      BY <2>1, <2>2, Zenon
    <2> QED
      BY <2>1, <2>3, <2>4, <2>5, Zenon
  <1> QED
    BY <1>2, <1>3

LEMMA EnqueueCheckInv ==
    ASSUME IInv, NEW c \in Callers, NEW w \in Workers, EnqueueCheck(c, w)
    PROVE  IInv'
  <1> USE DEF IInv, EnqueueCheck, jobs, queues, threads, history
  <1> DEFINE pc == IF stop[w] THEN Following(receivers[Job(c)], w) ELSE <<"push", w>>
  <1>1. Job(c) \in Jobs
    BY JobFact DEF CallerInv
  <1>2. receivers[Job(c)] \in [Workers -> Nat]
    BY <1>1, CallsAssumption DEF TypeOK
  <1>3. pc \in {<<"idle">>, <<"check", "remote">>, <<"push", w>>} /\ (w = "remote" => pc # <<"check", "remote">>)
    BY <1>2, FollowingFact
  <1>4. cpc[c] = <<"check", w>> /\ cpc' = [cpc EXCEPT ![c] = pc]
    BY DEF CallerGoto
  <1> HIDE DEF pc
  <1>5. TypeOK'
    <2>1. pc \in {<<"idle">>, <<"finalize">>} \cup ({"check", "push", "post"} \X Workers)
      BY <1>3, WorkersFact
    <2>2. cpc' \in [Callers -> {<<"idle">>, <<"finalize">>} \cup ({"check", "push", "post"} \X Workers)]
      BY <1>4, <2>1 DEF TypeOK
    <2> QED
      BY <2>2 DEF TypeOK
  <1>6. FutureInv'
    BY DEF FutureInv, Untouched, Queued
  <1>7. CallerInv'
    <2>1. \A v \in Workers : BeforePush(pc, v) => BeforePush(cpc[c], v)
      BY <1>3, <1>4 DEF BeforePush, Workers
    <2>2. pc # <<"finalize">> /\ cpc[c] # <<"idle">>
      BY <1>3, <1>4
    <2>3. \A v \in Workers : Queued(v)' = Queued(v)
      BY DEF Queued
    <2> QED
      BY <1>4, <2>1, <2>2, <2>3, CallerMoves
  <1>8. QueueInv' /\ WorkerInv' /\ PendingInv' /\ IosbInv'
    BY QueueFrame, WorkerFrame, PendingFrame, IosbFrame
  <1>9. NoUnexpectedCompletion' /\ NoLostWakeup'
    <2>1. \A v \in Workers : cpc[c] # <<"post", v>>
      BY <1>4
    <2>2. UNCHANGED <<wpc, queue, sem, surprised>>
      OBVIOUS
    <2>3. NoLostWakeup'
      BY <1>4, <2>1, <2>2, WakeupFrame
    <2> QED
      BY <2>2, <2>3 DEF NoUnexpectedCompletion
  <1> QED
    BY <1>5, <1>6, <1>7, <1>8, <1>9

LEMMA EnqueuePushInv ==
    ASSUME IInv, NEW c \in Callers, NEW w \in Workers, EnqueuePush(c, w)
    PROVE  IInv'
  <1> USE DEF IInv, EnqueuePush, jobs, queues, threads, history
  <1>1. Job(c) \in Jobs /\ Job(c)[1] = c /\ Job(c)[2] = calls[c] /\ calls[c] \in Nat
    BY JobFact DEF CallerInv, TypeOK
  <1>2. Untouched(Job(c), w)
    BY DEF CallerInv, BeforePush
  <1>3. cpc[c] = <<"push", w>> /\ cpc' = [cpc EXCEPT ![c] = <<"post", w>>]
    BY DEF CallerGoto
  <1>4. queue[w] \in Seq(Jobs) /\ queue'[w] = Append(queue[w], Job(c))
    BY DEF TypeOK
  <1>5. queue'[w] \in Seq(Jobs) /\ Queued(w)' = Queued(w) \cup {Job(c)} /\ Distinct(queue'[w])
    BY <1>1, <1>2, <1>4, AppendDistinct, AppendProperties DEF Queued, QueueInv, Untouched
  <1>6. \A v \in Workers : v # w => Queued(v)' = Queued(v) /\ queue'[v] = queue[v]
    BY DEF Queued, TypeOK
  <1>7. TypeOK'
    <2>1. cpc' \in [Callers -> {<<"idle">>, <<"finalize">>} \cup ({"check", "push", "post"} \X Workers)]
      BY <1>3 DEF TypeOK
    <2>2. queue' \in [Workers -> Seq(Jobs)]
      BY <1>1, <1>4, <1>5 DEF TypeOK
    <2> QED
      BY <2>1, <2>2 DEF TypeOK
  <1>8. FutureInv'
    <2> SUFFICES ASSUME NEW j \in Jobs, j[2] > calls[j[1]]
                 PROVE  /\ \A v \in Workers : Untouched(j, v)' /\ receivers[j][v] = 0
                        /\ pending[j] = 0 /\ iosb[j] = <<>>
      BY DEF FutureInv
    <2>1. j # Job(c)
      BY <1>1
    <2>2. \A v \in Workers : Untouched(j, v) => Untouched(j, v)'
      BY <1>5, <1>6, <2>1 DEF Untouched
    <2> QED
      BY <2>2 DEF FutureInv
  <1>9. CallerInv'
    <2>1. \A v \in Workers : BeforePush(<<"post", w>>, v) => BeforePush(cpc[c], v) /\ v # w
      BY <1>3 DEF BeforePush, Workers
    <2>2. ASSUME NEW v \in Workers, NEW d \in Callers, BeforePush(cpc'[d], v)
          PROVE  Job(d) \in Queued(v)' <=> Job(d) \in Queued(v)
      <3>1. CASE d = c
        <4>1. cpc'[d] = <<"post", w>>
          BY <1>3, <3>1 DEF TypeOK
        <4> QED
          BY <1>6, <2>1, <2>2, <4>1
      <3>2. CASE d # c
        <4>1. Job(d) # Job(c)
          BY <3>2 DEF Job
        <4> QED
          BY <1>5, <1>6, <4>1
      <3> QED
        BY <3>1, <3>2
    <2>3. <<"post", w>> # <<"finalize">> /\ cpc[c] # <<"idle">>
      BY <1>3
    <2> QED
      BY <1>3, <2>1, <2>2, <2>3, CallerMoves
  <1>10. QueueInv'
    BY <1>2, <1>5, <1>6 DEF QueueInv, Untouched
  <1>11. WorkerInv' /\ PendingInv' /\ IosbInv'
    BY WorkerFrame, PendingFrame, IosbFrame
  <1>12. NoUnexpectedCompletion' /\ NoLostWakeup'
    <2> SUFFICES ASSUME NEW v \in Workers, wpc[v] = "wait", queue'[v] # <<>>
                 PROVE  sem[v] > 0 \/ \E d \in Callers : cpc'[d] = <<"post", v>>
      BY DEF NoUnexpectedCompletion, NoLostWakeup
    <2>1. CASE v = w
      BY <1>3, <2>1 DEF TypeOK
    <2>2. CASE v # w
      <3>1. ASSUME NEW d \in Callers, cpc[d] = <<"post", v>> PROVE cpc'[d] = <<"post", v>>
        <4>1. d # c
          BY <1>3, <3>1
        <4> QED
          BY <1>3, <3>1, <4>1 DEF TypeOK
      <3> QED
        BY <1>6, <2>2, <3>1 DEF NoLostWakeup
    <2> QED
      BY <2>1, <2>2
  <1> QED
    BY <1>7, <1>8, <1>9, <1>10, <1>11, <1>12

LEMMA EnqueuePostInv ==
    ASSUME IInv, NEW c \in Callers, NEW w \in Workers, EnqueuePost(c, w)
    PROVE  IInv'
  <1> USE DEF IInv, EnqueuePost, jobs, queues, threads, history
  <1> DEFINE pc == Following(receivers[Job(c)], w)
  <1>1. Job(c) \in Jobs
    BY JobFact DEF CallerInv
  <1>2. receivers[Job(c)] \in [Workers -> Nat]
    BY <1>1, CallsAssumption DEF TypeOK
  <1>3. pc \in {<<"idle">>, <<"check", "remote">>} /\ (w = "remote" => pc = <<"idle">>)
    BY <1>2, FollowingFact
  <1>4. cpc[c] = <<"post", w>> /\ cpc' = [cpc EXCEPT ![c] = pc]
    BY DEF CallerGoto
  <1>5. sem' = [sem EXCEPT ![w] = @ + 1] /\ sem[w] \in Nat
    BY DEF Posted, TypeOK
  <1> HIDE DEF pc
  <1>6. TypeOK'
    <2>1. cpc' \in [Callers -> {<<"idle">>, <<"finalize">>} \cup ({"check", "push", "post"} \X Workers)]
      BY <1>3, <1>4, WorkersFact DEF TypeOK
    <2>2. sem' \in [Workers -> Nat]
      BY <1>5 DEF TypeOK
    <2> QED
      BY <2>1, <2>2 DEF TypeOK
  <1>7. FutureInv'
    BY DEF FutureInv, Untouched, Queued
  <1>8. CallerInv'
    <2>1. \A v \in Workers : BeforePush(pc, v) => BeforePush(cpc[c], v)
      BY <1>3, <1>4 DEF BeforePush, Workers
    <2>2. pc # <<"finalize">> /\ cpc[c] # <<"idle">>
      BY <1>3, <1>4
    <2>3. \A v \in Workers : Queued(v)' = Queued(v)
      BY DEF Queued
    <2> QED
      BY <1>4, <2>1, <2>2, <2>3, CallerMoves
  <1>9. QueueInv' /\ WorkerInv' /\ PendingInv' /\ IosbInv'
    BY QueueFrame, WorkerFrame, PendingFrame, IosbFrame
  <1>10. NoUnexpectedCompletion' /\ NoLostWakeup'
    <2> SUFFICES ASSUME NEW v \in Workers, wpc[v] = "wait", queue[v] # <<>>
                 PROVE  sem'[v] > 0 \/ \E d \in Callers : cpc'[d] = <<"post", v>>
      BY DEF NoUnexpectedCompletion, NoLostWakeup
    <2>1. CASE v = w
      BY <1>5, <2>1 DEF TypeOK
    <2>2. CASE v # w
      <3>1. ASSUME NEW d \in Callers, cpc[d] = <<"post", v>> PROVE cpc'[d] = <<"post", v>>
        <4>1. d # c
          BY <1>4, <2>2, <3>1
        <4> QED
          BY <1>4, <3>1, <4>1 DEF TypeOK
      <3>2. sem'[v] = sem[v]
        BY <1>5, <2>2 DEF TypeOK
      <3> QED
        BY <3>1, <3>2 DEF NoLostWakeup
    <2> QED
      BY <2>1, <2>2
  <1> QED
    BY <1>6, <1>7, <1>8, <1>9, <1>10


\* The only element of a one-element vector.
LEMMA AppendToEmpty ==
    ASSUME NEW e
    PROVE  Append(<<>>, e) = <<e>>
  OBVIOUS

LEMMA FailedType ==
    ASSUME TypeOK, NEW j \in Jobs
    PROVE  Failed(fails[j]) \in BOOLEAN
  BY DEF Failed

\* A job that nobody is completing has nothing left.
LEMMA LeftFact ==
    ASSUME TypeOK, PendingInv, NEW j \in Jobs
    PROVE  /\ \A w \in Workers : /\ receivers[j][w] \in Nat /\ tried[j][w] \in Nat
                                 /\ Left(w, j) \in Nat /\ pending[j] >= Left(w, j)
           /\ pending[j] \in Nat /\ pending[j] = Left("local", j) + Left("remote", j)
  <1>1. \A w \in Workers : receivers[j][w] \in Nat /\ tried[j][w] \in Nat /\ Open(w, j) \in {0, 1}
    BY CallsAssumption DEF TypeOK, Open
  <1>2. \A w \in Workers : Left(w, j) \in Nat
    BY <1>1 DEF PendingInv, Left
  <1>3. pending[j] = Left("local", j) + Left("remote", j)
    BY DEF PendingInv
  <1>4. \A w \in Workers : pending[j] >= Left(w, j)
    BY <1>2, <1>3 DEF Workers
  <1> QED
    BY <1>1, <1>2, <1>3, <1>4, WorkersFact

LEMMA CallerFinalizeInv ==
    ASSUME IInv, NEW c \in Callers, CallerFinalize(c)
    PROVE  IInv'
  <1> DEFINE j == Job(c)
  <1> USE DEF IInv
  <1>1. /\ cpc[c] = <<"finalize">> /\ cpc' = [cpc EXCEPT ![c] = <<"idle">>]
        /\ iosb' = [iosb EXCEPT ![j] = Append(@, Failed(fails[j]))]
        /\ UNCHANGED <<open, calls, jobs, queues, threads, history>>
    BY DEF CallerFinalize, CallerGoto, WriteIosb
  <1>2. j \in Jobs /\ j[1] = c /\ j[2] = calls[c] /\ calls[c] \in Nat
    <2>1. cpc[c] # <<"idle">>
      BY <1>1
    <2>2. calls[c] >= 1 /\ calls[c] \in Nat
      BY <2>1 DEF CallerInv, TypeOK
    <2> QED
      BY <2>2, JobFact
  <1>3. iosb[j] = <<>> /\ \A w \in Workers : receivers[j][w] = 0
    BY <1>1 DEF CallerInv
  <1> HIDE DEF j
  <1>4. iosb'[j] = <<Failed(fails[j])>> /\ \A k \in Jobs : k # j => iosb'[k] = iosb[k]
    BY <1>1, <1>2, <1>3, AppendToEmpty DEF TypeOK
  <1>5. \A w \in Workers : wjob[w] = j => wpc[w] \notin {"load", "cas", "finalize"}
    <2> SUFFICES ASSUME NEW w \in Workers, wjob[w] = j, wpc[w] \in {"load", "cas", "finalize"} PROVE FALSE
      OBVIOUS
    <2>1. wnext[w] > 0 /\ tried[j][w] = wnext[w]
      BY DEF WorkerInv, Working
    <2>2. tried[j][w] <= 0
      BY <1>2, <1>3 DEF PendingInv
    <2> QED
      BY <2>1, <2>2 DEF TypeOK
  <1>6. pending[j] = 0
    <2>1. \A w \in Workers : tried[j][w] = 0
      BY <1>2, <1>3, LeftFact DEF PendingInv
    <2> QED
      BY <1>2, <1>3, <1>5, <2>1, LeftFact, WorkersFact DEF Left, Open
  <1>7. TypeOK'
    <2>1. iosb' \in [Jobs -> Seq(BOOLEAN)]
      <3>1. Append(iosb[j], Failed(fails[j])) \in Seq(BOOLEAN)
        BY <1>2, FailedType, AppendProperties, Zenon DEF TypeOK
      <3> QED
        BY <1>1, <3>1, Zenon DEF TypeOK
    <2>2. cpc' \in [Callers -> {<<"idle">>, <<"finalize">>} \cup ({"check", "push", "post"} \X Workers)]
      BY <1>1 DEF TypeOK
    <2> QED
      BY <1>1, <2>1, <2>2 DEF TypeOK, jobs, queues, threads, history
  <1>8. FutureInv'
    <2>1. \A k \in Jobs : k[2] > calls[k[1]] => k # j
      BY <1>2
    <2> QED
      BY <1>1, <1>4, <2>1 DEF FutureInv, Untouched, Queued, jobs, queues, threads, history
  <1>9. CallerInv'
    <2> SUFFICES ASSUME NEW d \in Callers
                 PROVE  /\ cpc'[d] # <<"idle">> => calls[d] >= 1
                        /\ \A w \in Workers : BeforePush(cpc'[d], w) => Untouched(Job(d), w)'
                        /\ cpc'[d] = <<"finalize">> =>
                              iosb'[Job(d)] = <<>> /\ \A w \in Workers : receivers[Job(d)][w] = 0
      BY <1>1 DEF CallerInv, Job, jobs
    <2>1. CASE d = c
      <3>1. cpc'[d] = <<"idle">>
        BY <1>1, <2>1 DEF TypeOK
      <3> QED
        BY <3>1 DEF BeforePush
    <2>2. CASE d # c
      <3>1. cpc'[d] = cpc[d] /\ Job(d) # j /\ Job(d)' = Job(d)
        BY <1>1, <1>2, <2>2 DEF Job, TypeOK
      <3>2. \A w \in Workers : Untouched(Job(d), w)' <=> Untouched(Job(d), w)
        BY <1>1, <3>1 DEF Untouched, Queued, queues, threads, history
      <3>3. ASSUME cpc[d] = <<"finalize">> PROVE iosb'[Job(d)] = iosb[Job(d)]
        <4>1. Job(d) \in Jobs
          BY <3>3, JobFact DEF CallerInv
        <4> QED
          BY <1>4, <3>1, <4>1
      <3> QED
        BY <3>1, <3>2, <3>3 DEF CallerInv
    <2> QED
      BY <2>1, <2>2
  <1>10. QueueInv' /\ WorkerInv' /\ PendingInv'
    BY <1>1, QueueFrame, WorkerFrame, PendingFrame DEF queues, threads, history
  <1>11. IosbInv'
    <2>1. \A w \in Workers : ~ Finalizing(w, j)
      BY <1>5 DEF Finalizing
    <2>2. \A w \in Workers, k \in Jobs : Finalizing(w, k)' <=> Finalizing(w, k)
      BY <1>1 DEF Finalizing, threads
    <2>3. pending' = pending /\ fails' = fails
      BY <1>1 DEF jobs
    <2> SUFFICES ASSUME NEW k \in Jobs
                 PROVE  /\ iosb'[k] # <<>> => pending[k] = 0 /\ iosb'[k] = <<Failed(fails[k])>>
                        /\ \A w \in Workers : Finalizing(w, k) =>
                              /\ pending[k] = 0 /\ iosb'[k] = <<>>
                              /\ \A v \in Workers : Finalizing(v, k) => v = w
      BY <2>2, <2>3 DEF IosbInv
    <2>4. CASE k = j
      BY <1>4, <1>6, <2>1, <2>4
    <2>5. CASE k # j
      BY <1>4, <2>5 DEF IosbInv
    <2> QED
      BY <2>4, <2>5
  <1>12. NoUnexpectedCompletion' /\ NoLostWakeup'
    <2>1. \A w \in Workers : cpc[c] # <<"post", w>>
      BY <1>1
    <2>2. UNCHANGED <<wpc, queue, sem, surprised>>
      BY <1>1 DEF queues, threads, history
    <2>3. NoLostWakeup'
      BY <1>1, <2>1, <2>2, WakeupFrame
    <2> QED
      BY <2>2, <2>3 DEF NoUnexpectedCompletion
  <1> QED
    BY <1>7, <1>8, <1>9, <1>10, <1>11, <1>12

-----------------------------------------------------------------------------
(* Steps of the workers. *)

LEMMA HeldJob ==
    ASSUME TypeOK, WorkerInv, NEW w \in Workers, wpc[w] \in Working
    PROVE  wjob[w] \in Jobs /\ tried[wjob[w]][w] = wnext[w]
  BY DEF TypeOK, WorkerInv, NoJob

\* The worker moves while it holds no job.
LEMMA IdleMoves ==
    ASSUME TypeOK, WorkerInv, PendingInv, IosbInv,
           NEW w \in Workers, NEW pc \in {"wait", "drain", "exit", "gone"},
           wpc[w] \notin Working, wpc' = [wpc EXCEPT ![w] = pc],
           UNCHANGED <<wjob, wnext, wpending, receivers, pending, fails, iosb, tried>>
    PROVE  WorkerInv' /\ PendingInv' /\ IosbInv'
  <1>1. wpc'[w] = pc /\ \A v \in Workers : v # w => wpc'[v] = wpc[v]
    BY DEF TypeOK
  <1>2. WorkerInv'
    BY <1>1 DEF WorkerInv, Working
  <1>3. \A v \in Workers, j \in Jobs : Open(v, j)' = Open(v, j) /\ (Finalizing(v, j)' <=> Finalizing(v, j))
    BY <1>1 DEF Open, Finalizing, Working
  <1>4. PendingInv'
    BY <1>3, WorkersFact DEF PendingInv, Left
  <1>5. IosbInv'
    BY <1>3 DEF IosbInv
  <1> QED
    BY <1>2, <1>4, <1>5

LEMMA WakeInv ==
    ASSUME IInv, NEW w \in Workers, Wake(w)
    PROVE  IInv'
  <1> DEFINE pc == IF stop[w] THEN "exit" ELSE "drain"
  <1> USE DEF IInv
  <1>1. /\ wpc[w] = "wait" /\ sem[w] > 0 /\ sem' = [sem EXCEPT ![w] = @ - 1]
        /\ wpc' = [wpc EXCEPT ![w] = pc] /\ pc \in {"drain", "exit"}
        /\ UNCHANGED <<open, callers, jobs, queue, stop, wjob, wnext, wpending, iosb, history>>
    BY DEF Wake, Woken, WorkerGoto
  <1> HIDE DEF pc
  <1>2. TypeOK'
    BY <1>1 DEF TypeOK, callers, jobs, history
  <1>3. FutureInv' /\ CallerInv'
    <2>1. \A j \in Jobs, v \in Workers : Untouched(j, v) => Untouched(j, v)'
      BY <1>1 DEF Untouched, Queued, history
    <2> QED
      BY <1>1, <2>1, CallersFrame DEF jobs
  <1>4. QueueInv'
    BY <1>1, QueueFrame DEF history
  <1>5. WorkerInv' /\ PendingInv' /\ IosbInv'
    BY <1>1, IdleMoves DEF Working, jobs, history
  <1>6. NoUnexpectedCompletion' /\ NoLostWakeup'
    BY <1>1 DEF NoUnexpectedCompletion, NoLostWakeup, TypeOK, callers, history
  <1> QED
    BY <1>2, <1>3, <1>4, <1>5, <1>6

LEMMA QueueEmptyInv ==
    ASSUME IInv, NEW w \in Workers, QueueEmpty(w)
    PROVE  IInv'
  <1> DEFINE pc == IF stop[w] THEN "exit" ELSE "wait"
  <1> USE DEF IInv
  <1>1. /\ wpc[w] = "drain" /\ queue[w] = <<>>
        /\ wpc' = [wpc EXCEPT ![w] = pc] /\ pc \in {"wait", "exit"}
        /\ UNCHANGED <<open, callers, jobs, queues, wjob, wnext, wpending, iosb, history>>
    BY DEF QueueEmpty, WorkerGoto
  <1> HIDE DEF pc
  <1>2. TypeOK'
    BY <1>1 DEF TypeOK, callers, jobs, queues, history
  <1>3. FutureInv' /\ CallerInv'
    <2>1. \A j \in Jobs, v \in Workers : Untouched(j, v) => Untouched(j, v)'
      BY <1>1 DEF Untouched, Queued, history, queues
    <2> QED
      BY <1>1, <2>1, CallersFrame DEF jobs
  <1>4. QueueInv'
    BY <1>1, QueueFrame DEF history, queues
  <1>5. WorkerInv' /\ PendingInv' /\ IosbInv'
    BY <1>1, IdleMoves DEF Working, jobs, history
  <1>6. NoUnexpectedCompletion' /\ NoLostWakeup'
    BY <1>1 DEF NoUnexpectedCompletion, NoLostWakeup, TypeOK, callers, queues, history
  <1> QED
    BY <1>2, <1>3, <1>4, <1>5, <1>6

LEMMA StopClearInv ==
    ASSUME IInv, NEW w \in Workers, StopClear(w)
    PROVE  IInv'
  <1> USE DEF IInv
  <1>1. /\ wpc[w] = "exit" /\ wpc' = [wpc EXCEPT ![w] = "gone"]
        /\ queue' = [queue EXCEPT ![w] = <<>>]
        /\ UNCHANGED <<open, callers, jobs, sem, stop, wjob, wnext, wpending, iosb, history>>
    BY DEF StopClear, WorkerGoto
  <1>2. /\ queue'[w] = <<>> /\ Queued(w)' = {} /\ Distinct(queue'[w])
        /\ \A v \in Workers : v # w => queue'[v] = queue[v] /\ Queued(v)' = Queued(v)
    BY <1>1, EmptyDistinct DEF Queued, TypeOK
  <1>3. TypeOK'
    <2>1. queue' \in [Workers -> Seq(Jobs)]
      BY <1>1, EmptySeq, Zenon DEF TypeOK
    <2> QED
      BY <1>1, <2>1 DEF TypeOK, callers, jobs, history
  <1>4. FutureInv' /\ CallerInv'
    <2>1. \A j \in Jobs, v \in Workers : Untouched(j, v) => Untouched(j, v)'
      BY <1>1, <1>2 DEF Untouched, history
    <2> QED
      BY <1>1, <2>1, CallersFrame DEF jobs
  <1>5. QueueInv'
    BY <1>1, <1>2 DEF QueueInv, history
  <1>6. WorkerInv' /\ PendingInv' /\ IosbInv'
    BY <1>1, IdleMoves DEF Working, jobs, history
  <1>7. NoUnexpectedCompletion' /\ NoLostWakeup'
    BY <1>1, <1>2 DEF NoUnexpectedCompletion, NoLostWakeup, TypeOK, callers, history
  <1> QED
    BY <1>3, <1>4, <1>5, <1>6, <1>7

LEMMA StopRequestInv ==
    ASSUME IInv, NEW w \in Workers, StopRequest(w)
    PROVE  IInv'
  <1> USE DEF IInv
  <1>1. /\ stop' = [stop EXCEPT ![w] = TRUE] /\ sem' = [sem EXCEPT ![w] = @ + 1]
        /\ UNCHANGED <<open, callers, jobs, queue, threads, iosb, history>>
    BY DEF StopRequest
  <1>2. TypeOK'
    BY <1>1, SMTT(60) DEF TypeOK, callers, jobs, threads, history
  <1>3. FutureInv' /\ CallerInv'
    BY <1>1 DEF FutureInv, CallerInv, Untouched, Queued, Job, callers, jobs, threads, history
  <1>4. QueueInv' /\ WorkerInv' /\ PendingInv' /\ IosbInv'
    BY <1>1, QueueFrame, WorkerFrame, PendingFrame, IosbFrame DEF threads, history
  <1>5. \A v \in Workers : sem[v] > 0 => sem'[v] > 0
    BY <1>1 DEF TypeOK
  <1>6. NoUnexpectedCompletion' /\ NoLostWakeup'
    BY <1>1, <1>5 DEF NoUnexpectedCompletion, NoLostWakeup, callers, threads, history
  <1> QED
    BY <1>2, <1>3, <1>4, <1>6

LEMMA PopInv ==
    ASSUME IInv, NEW w \in Workers, Pop(w)
    PROVE  IInv'
  <1> DEFINE j == Head(queue[w])
  <1> USE DEF IInv
  <1>1. /\ wpc[w] = "drain" /\ queue[w] # <<>> /\ wpc' = [wpc EXCEPT ![w] = "send"]
        /\ wjob' = [wjob EXCEPT ![w] = j] /\ queue' = [queue EXCEPT ![w] = Tail(@)]
        /\ wnext' = [wnext EXCEPT ![w] = 0]
        /\ UNCHANGED <<open, callers, jobs, sem, stop, wpending, iosb, history>>
    BY DEF Pop, WorkerGoto
  <1>2. queue[w] \in Seq(Jobs) /\ Distinct(queue[w])
    BY DEF TypeOK, QueueInv
  <1>3. j \in Jobs /\ Tail(queue[w]) \in Seq(Jobs)
    BY <1>1, <1>2, HeadTailProperties
  <1>4. /\ j \in Queued(w) /\ Elems(Tail(queue[w])) = Queued(w) \ {j}
        /\ Distinct(Tail(queue[w]))
    BY <1>1, <1>2, TailDistinct DEF Queued
  <1> HIDE DEF j
  <1>5. /\ queue'[w] = Tail(queue[w]) /\ Queued(w)' = Queued(w) \ {j} /\ Distinct(queue'[w])
        /\ \A v \in Workers : v # w => queue'[v] = queue[v] /\ Queued(v)' = Queued(v)
    BY <1>1, <1>4 DEF Queued, TypeOK
  <1>6. /\ wjob'[w] = j /\ wnext'[w] = 0 /\ wpc'[w] = "send" /\ tried' = tried
        /\ \A v \in Workers : v # w => wjob'[v] = wjob[v] /\ wnext'[v] = wnext[v] /\ wpc'[v] = wpc[v]
    BY <1>1 DEF TypeOK, history
  <1>7. tried[j][w] = 0
    BY <1>4 DEF QueueInv
  <1>8. TypeOK'
    <2>1. queue' \in [Workers -> Seq(Jobs)]
      BY <1>1, <1>3 DEF TypeOK
    <2>2. wjob' \in [Workers -> Jobs \cup {<<>>}]
      BY <1>1, <1>3 DEF TypeOK
    <2>3. wnext' \in [Workers -> Nat]
      BY <1>1 DEF TypeOK
    <2>4. wpc' \in [Workers -> WorkerPCs]
      BY <1>1 DEF TypeOK, WorkerPCs
    <2> QED
      BY <1>1, <2>1, <2>2, <2>3, <2>4 DEF TypeOK, WorkerPCs, callers, jobs, history
  <1>9. FutureInv' /\ CallerInv'
    <2>1. ASSUME NEW k \in Jobs, NEW v \in Workers, Untouched(k, v) PROVE Untouched(k, v)'
      BY <1>4, <1>5, <1>6, <2>1 DEF Untouched
    <2> QED
      BY <1>1, <2>1, CallersFrame DEF jobs
  <1>10. QueueInv'
    BY <1>5, <1>6 DEF QueueInv
  <1>11. WorkerInv'
    <2>1. j # NoJob
      BY <1>3, NoJobFact
    <2> QED
      BY <1>1, <1>6, <1>7, <2>1 DEF WorkerInv, Working
  <1>12. \A v \in Workers, k \in Jobs : Open(v, k)' = Open(v, k) /\ (Finalizing(v, k)' <=> Finalizing(v, k))
    BY <1>1, <1>6 DEF Open, Finalizing
  <1>13. PendingInv'
    BY <1>1, <1>6, <1>12, WorkersFact DEF PendingInv, Left, jobs
  <1>14. IosbInv'
    BY <1>1, <1>12 DEF IosbInv, jobs
  <1>15. NoUnexpectedCompletion' /\ NoLostWakeup'
    BY <1>1, <1>5, <1>6 DEF NoUnexpectedCompletion, NoLostWakeup, callers, history
  <1> QED
    BY <1>8, <1>9, <1>10, <1>11, <1>13, <1>14, <1>15

LEMMA JobDoneInv ==
    ASSUME IInv, NEW w \in Workers, JobDone(w)
    PROVE  IInv'
  <1> USE DEF IInv
  <1>1. /\ wpc[w] = "send" /\ wpc' = [wpc EXCEPT ![w] = "drain"]
        /\ wjob' = [wjob EXCEPT ![w] = NoJob] /\ wnext' = [wnext EXCEPT ![w] = 0]
        /\ UNCHANGED <<open, callers, jobs, queues, wpending, iosb, history>>
    BY DEF JobDone, WorkerGoto
  <1>2. /\ wjob'[w] = NoJob /\ wnext'[w] = 0 /\ wpc'[w] = "drain" /\ tried' = tried
        /\ \A v \in Workers : v # w => wjob'[v] = wjob[v] /\ wnext'[v] = wnext[v] /\ wpc'[v] = wpc[v]
        /\ \A v \in Workers : Queued(v)' = Queued(v) /\ queue'[v] = queue[v]
    BY <1>1 DEF TypeOK, Queued, queues, history
  <1>3. TypeOK'
    BY <1>1 DEF TypeOK, NoJob, callers, jobs, queues, history
  <1>4. FutureInv' /\ CallerInv'
    <2>1. ASSUME NEW k \in Jobs, NEW v \in Workers, Untouched(k, v) PROVE Untouched(k, v)'
      BY <1>2, <2>1, NoJobFact DEF Untouched
    <2> QED
      BY <1>1, <2>1, CallersFrame DEF jobs
  <1>5. QueueInv'
    <2>1. \A v \in Workers : Queued(v) \subseteq Jobs
      BY ElemsType DEF TypeOK, Queued
    <2> QED
      BY <1>2, <2>1, NoJobFact DEF QueueInv
  <1>6. WorkerInv'
    BY <1>1, <1>2 DEF WorkerInv, Working
  <1>7. \A v \in Workers, k \in Jobs : Open(v, k)' = Open(v, k) /\ (Finalizing(v, k)' <=> Finalizing(v, k))
    BY <1>1, <1>2 DEF Open, Finalizing
  <1>8. PendingInv'
    BY <1>1, <1>2, <1>7, WorkersFact DEF PendingInv, Left, jobs
  <1>9. IosbInv'
    BY <1>1, <1>7 DEF IosbInv, jobs
  <1>10. NoUnexpectedCompletion' /\ NoLostWakeup'
    BY <1>1, <1>2 DEF NoUnexpectedCompletion, NoLostWakeup, callers, queues, history
  <1> QED
    BY <1>3, <1>4, <1>5, <1>6, <1>8, <1>9, <1>10

LEMMA SendOneInv ==
    ASSUME IInv, NEW w \in Workers, NEW ok \in BOOLEAN, SendOne(w, ok)
    PROVE  IInv'
  <1> USE DEF IInv
  <1>2. PICK j \in Jobs : j = wjob[w] /\ tried[j][w] = wnext[w]
    BY HeldJob DEF Working, SendOne
  <1>1. /\ wpc[w] = "send" /\ wnext[w] < receivers[j][w] /\ wpc' = [wpc EXCEPT ![w] = "load"]
        /\ wnext' = [wnext EXCEPT ![w] = @ + 1]
        /\ fails' = IF ok THEN fails ELSE [fails EXCEPT ![j][w] = @ + 1]
        /\ tried' = [tried EXCEPT ![j][w] = @ + 1]
        /\ UNCHANGED <<open, callers, receivers, pending, queues, wjob, wpending, iosb, surprised>>
    BY <1>2 DEF SendOne, WorkerGoto
  <1>3. /\ tried'[j][w] = tried[j][w] + 1
        /\ \A k \in Jobs, v \in Workers : k # j \/ v # w => tried'[k][v] = tried[k][v]
        /\ \A k \in Jobs : k # j => fails'[k] = fails[k]
    BY <1>1, <1>2 DEF TypeOK
  <1>4. /\ wnext'[w] = wnext[w] + 1 /\ wpc'[w] = "load" /\ wjob' = wjob /\ wjob[w] = j
        /\ \A v \in Workers : v # w => wnext'[v] = wnext[v] /\ wpc'[v] = wpc[v]
        /\ \A v \in Workers : Queued(v)' = Queued(v) /\ queue'[v] = queue[v]
    BY <1>1, <1>2 DEF TypeOK, Queued, queues
  <1>5. TypeOK'
    <2>1. tried' \in [Jobs -> [Workers -> Nat]]
      BY <1>1, <1>2 DEF TypeOK
    <2>2. fails' \in [Jobs -> [Workers -> Nat]]
      BY <1>1, <1>2 DEF TypeOK
    <2>3. wnext' \in [Workers -> Nat]
      BY <1>1 DEF TypeOK
    <2>4. wpc' \in [Workers -> WorkerPCs]
      BY <1>1 DEF TypeOK, WorkerPCs
    <2> QED
      BY <1>1, <2>1, <2>2, <2>3, <2>4 DEF TypeOK, WorkerPCs, callers, queues
  <1>6. FutureInv' /\ CallerInv'
    <2>1. ASSUME NEW k \in Jobs, NEW v \in Workers, Untouched(k, v) PROVE Untouched(k, v)'
      <3>1. k # j \/ v # w
        BY <1>4, <2>1 DEF Untouched
      <3> QED
        BY <1>3, <1>4, <2>1, <3>1 DEF Untouched
    <2> QED
      BY <1>1, <2>1, CallersFrame
  <1>7. QueueInv'
    <2>1. \A v \in Workers : Queued(v) \subseteq Jobs
      BY ElemsType DEF TypeOK, Queued
    <2> QED
      BY <1>3, <1>4, <2>1 DEF QueueInv
  <1>8. WorkerInv'
    <2>1. wnext[w] \in Nat
      BY DEF TypeOK
    <2>2. ASSUME NEW v \in Workers, v # w, wpc[v] \in Working
          PROVE  tried'[wjob[v]][v] = tried[wjob[v]][v]
      BY <1>3, <2>2, HeldJob
    <2> QED
      BY <1>1, <1>2, <1>3, <1>4, <2>1, <2>2 DEF WorkerInv, Working
  <1>9. /\ tried[j][w] + 1 <= receivers[j][w] /\ Open(w, j) = 0 /\ Open(w, j)' = 1
        /\ \A k \in Jobs, v \in Workers : k # j \/ v # w => Open(v, k)' = Open(v, k)
    <2>1. tried[j][w] \in Nat /\ receivers[j][w] \in Nat
      BY <1>2, LeftFact
    <2>2. tried[j][w] + 1 <= receivers[j][w]
      BY <1>1, <1>2, <2>1
    <2>3. Open(w, j) = 0 /\ Open(w, j)' = 1
      BY <1>1, <1>4 DEF Open
    <2>4. \A k \in Jobs, v \in Workers : k # j \/ v # w => Open(v, k)' = Open(v, k)
      BY <1>1, <1>4 DEF Open
    <2> QED
      BY <2>2, <2>3, <2>4
  <1>10. /\ Left(w, j)' = Left(w, j) /\ Left(w, j) > 0
         /\ \A k \in Jobs, v \in Workers : Left(v, k)' = Left(v, k)
    <2>1. tried[j][w] \in Nat /\ receivers[j][w] \in Nat /\ receivers' = receivers
      BY <1>1, <1>2, LeftFact
    <2>2. Left(w, j)' = Left(w, j) /\ Left(w, j) > 0
      BY <1>3, <1>9, <2>1 DEF Left
    <2>3. \A k \in Jobs, v \in Workers : k # j \/ v # w => Left(v, k)' = Left(v, k)
      BY <1>3, <1>9, <2>1 DEF Left
    <2> QED
      BY <2>2, <2>3
  <1>11. PendingInv'
    <2>1. \A k \in Jobs, v \in Workers : tried'[k][v] <= receivers[k][v]
      BY <1>3, <1>9 DEF PendingInv
    <2> QED
      BY <1>1, <1>10, <2>1, WorkersFact DEF PendingInv
  <1>12. IosbInv'
    <2>1. pending[j] # 0
      BY <1>2, <1>10, LeftFact
    <2>2. \A v \in Workers, k \in Jobs : Finalizing(v, k)' <=> Finalizing(v, k)
      BY <1>1, <1>4 DEF Finalizing
    <2> QED
      BY <1>1, <1>2, <1>3, <2>1, <2>2 DEF IosbInv
  <1>13. NoUnexpectedCompletion' /\ NoLostWakeup'
    BY <1>1, <1>4 DEF NoUnexpectedCompletion, NoLostWakeup, callers, queues
  <1> QED
    BY <1>5, <1>6, <1>7, <1>8, <1>11, <1>12, <1>13

\* complete_one reads pending_sends: its own try is not completed yet, so it
\* never reads 0.
LEMMA SawInv ==
    ASSUME IInv, NEW w \in Workers, wpc[w] \in {"load", "cas"}, Saw(w, pending[wjob[w]]),
           UNCHANGED <<open, callers, jobs, queues, wjob, wnext, iosb, tried>>
    PROVE  IInv'
  <1> DEFINE j == wjob[w]
  <1> USE DEF IInv
  <1>1. j \in Jobs
    BY HeldJob DEF Working
  <1> HIDE DEF j
  <1>2. pending[j] \in Nat /\ pending[j] > 0
    <2>1. Open(w, j) = 1
      BY DEF Open, j
    <2>2. Left(w, j) >= 1
      BY <1>1, <2>1, LeftFact DEF Left, PendingInv
    <2> QED
      BY <1>1, <2>2, LeftFact
  <1>3. /\ wpending' = [wpending EXCEPT ![w] = pending[j]] /\ surprised' = surprised
        /\ wpc' = [wpc EXCEPT ![w] = "cas"]
    <2>1. surprised' = (surprised \/ pending[j] = 0)
      BY DEF Saw, j
    <2>2. surprised \in BOOLEAN /\ pending[j] # 0
      BY <1>2 DEF TypeOK
    <2> QED
      BY <2>1, <2>2, Zenon DEF Saw, WorkerGoto, j
  <1>4. /\ wpc'[w] = "cas" /\ wpending'[w] = pending[j]
        /\ \A v \in Workers : v # w => wpending'[v] = wpending[v] /\ wpc'[v] = wpc[v]
    BY <1>3 DEF TypeOK
  <1>5. TypeOK'
    BY <1>2, <1>3 DEF TypeOK, callers, jobs, queues
  <1>6. FutureInv' /\ CallerInv'
    <2>1. ASSUME NEW k \in Jobs, NEW v \in Workers, Untouched(k, v) PROVE Untouched(k, v)'
      BY <2>1 DEF Untouched, Queued, queues
    <2> QED
      BY <2>1, CallersFrame DEF jobs
  <1>7. QueueInv'
    BY QueueFrame DEF queues
  <1>8. WorkerInv'
    BY <1>2, <1>4 DEF WorkerInv, Working
  <1>9. \A v \in Workers, k \in Jobs : Open(v, k)' = Open(v, k) /\ (Finalizing(v, k)' <=> Finalizing(v, k))
    BY <1>4 DEF Open, Finalizing
  <1>10. PendingInv'
    BY <1>9, WorkersFact DEF PendingInv, Left, jobs
  <1>11. IosbInv'
    BY <1>9 DEF IosbInv, jobs
  <1>12. NoUnexpectedCompletion' /\ NoLostWakeup'
    BY <1>3, <1>4 DEF NoUnexpectedCompletion, NoLostWakeup, callers, queues
  <1> QED
    BY <1>5, <1>6, <1>7, <1>8, <1>10, <1>11, <1>12

LEMMA CasSucceedsInv ==
    ASSUME IInv, NEW w \in Workers, CasSucceeds(w)
    PROVE  IInv'
  <1> DEFINE pc == IF LastOne(wpending[w] - 1) THEN "finalize" ELSE "send"
  <1> USE DEF IInv
  <1>2. PICK j \in Jobs : /\ j = wjob[w] /\ tried[j][w] = wnext[w] /\ wnext[w] > 0
                         /\ wpending[w] > 0 /\ wpending[w] \in Nat
    BY HeldJob DEF Working, WorkerInv, TypeOK, CasSucceeds
  <1>1. /\ wpc[w] = "cas" /\ pending[j] = wpending[w]
        /\ pending' = [pending EXCEPT ![j] = wpending[w] - 1]
        /\ wpending' = [wpending EXCEPT ![w] = 0]
        /\ wpc' = [wpc EXCEPT ![w] = pc] /\ pc \in {"finalize", "send"}
        /\ pc = "finalize" => wpending[w] - 1 = 0
        /\ UNCHANGED <<open, callers, receivers, fails, queues, wjob, wnext, iosb, history>>
    BY <1>2 DEF CasSucceeds, PendingIsMine, WorkerGoto, LastOne
  <1> HIDE DEF pc
  <1>3. /\ pending'[j] = pending[j] - 1 /\ pending[j] > 0 /\ pending[j] \in Nat
        /\ pc = "finalize" => pending'[j] = 0
        /\ \A k \in Jobs : k # j => pending'[k] = pending[k]
    BY <1>1, <1>2 DEF TypeOK
  <1>4. /\ wpc'[w] = pc /\ wpending'[w] = 0 /\ wjob' = wjob /\ wjob[w] = j
        /\ \A v \in Workers : v # w => wpending'[v] = wpending[v] /\ wpc'[v] = wpc[v]
    BY <1>1, <1>2 DEF TypeOK
  <1>5. TypeOK'
    <2>1. pending' \in [Jobs -> Nat]
      BY <1>1, <1>2 DEF TypeOK
    <2>2. wpc' \in [Workers -> WorkerPCs] /\ wpending' \in [Workers -> Nat]
      BY <1>1 DEF TypeOK, WorkerPCs
    <2> QED
      BY <1>1, <2>1, <2>2 DEF TypeOK, WorkerPCs, callers, queues, history
  <1>6. FutureInv' /\ CallerInv'
    <2>1. ASSUME NEW k \in Jobs, NEW v \in Workers, Untouched(k, v) PROVE Untouched(k, v)'
      BY <1>1, <2>1 DEF Untouched, Queued, queues, history
    <2>2. receivers[j][w] # 0
      BY <1>2, LeftFact DEF PendingInv, TypeOK
    <2> QED
      BY <1>1, <1>3, <2>1, <2>2, CallersFrame
  <1>7. QueueInv'
    BY <1>1, QueueFrame DEF queues, history
  <1>8. WorkerInv'
    BY <1>1, <1>2, <1>4 DEF WorkerInv, Working, history
  <1>9. PendingInv'
    <2>1. /\ Open(w, j) = 1 /\ Open(w, j)' = 0
          /\ \A v \in Workers, k \in Jobs : k # j \/ v # w => Open(v, k)' = Open(v, k)
      BY <1>1, <1>4 DEF Open
    <2>2. receivers' = receivers /\ tried' = tried
      BY <1>1 DEF history
    <2>3. /\ Left(w, j)' = Left(w, j) - 1
          /\ \A v \in Workers, k \in Jobs : k # j \/ v # w => Left(v, k)' = Left(v, k)
      <3>1. tried[j][w] \in Nat /\ receivers[j][w] \in Nat
        BY <1>2, LeftFact
      <3>2. Left(w, j)' = Left(w, j) - 1
        BY <2>1, <2>2, <3>1 DEF Left
      <3>3. \A v \in Workers, k \in Jobs : k # j \/ v # w => Left(v, k)' = Left(v, k)
        BY <2>1, <2>2 DEF Left
      <3> QED
        BY <3>2, <3>3
    <2>4. pending'[j] = Left("local", j)' + Left("remote", j)'
      <3>1. /\ Left("local", j) \in Nat /\ Left("remote", j) \in Nat
            /\ pending[j] = Left("local", j) + Left("remote", j)
        BY <1>2, LeftFact, WorkersFact
      <3>2. CASE w = "local"
        <4>1. Left("local", j)' = Left("local", j) - 1 /\ Left("remote", j)' = Left("remote", j)
          BY <1>2, <2>3, <3>2, WorkersFact
        <4> QED
          BY <1>3, <3>1, <4>1
      <3>3. CASE w = "remote"
        <4>1. Left("remote", j)' = Left("remote", j) - 1 /\ Left("local", j)' = Left("local", j)
          BY <1>2, <2>3, <3>3, WorkersFact
        <4> QED
          BY <1>3, <3>1, <4>1
      <3> QED
        BY <3>2, <3>3 DEF Workers
    <2>5. \A k \in Jobs : k # j => pending'[k] = Left("local", k)' + Left("remote", k)'
      BY <1>3, <2>3, WorkersFact DEF PendingInv
    <2>6. \A k \in Jobs, v \in Workers : tried'[k][v] <= receivers'[k][v]
      BY <2>2 DEF PendingInv
    <2> QED
      BY <2>4, <2>5, <2>6 DEF PendingInv
  <1>10. IosbInv'
    <2>1. iosb[j] = <<>> /\ \A v \in Workers : ~ Finalizing(v, j)
      BY <1>2, <1>3 DEF IosbInv
    <2>2. \A v \in Workers, k \in Jobs : Finalizing(v, k)' => Finalizing(v, k) \/ (v = w /\ k = j /\ pc = "finalize")
      BY <1>4 DEF Finalizing
    <2>3. iosb' = iosb /\ fails' = fails
      BY <1>1
    <2> SUFFICES ASSUME NEW k \in Jobs
                 PROVE  /\ iosb[k] # <<>> => pending'[k] = 0 /\ iosb[k] = <<Failed(fails[k])>>
                        /\ \A v \in Workers : Finalizing(v, k)' =>
                              /\ pending'[k] = 0 /\ iosb[k] = <<>>
                              /\ \A u \in Workers : Finalizing(u, k)' => u = v
      BY <2>3 DEF IosbInv
    <2>4. CASE k = j
      BY <1>3, <2>1, <2>2, <2>4
    <2>5. CASE k # j
      BY <1>3, <2>2, <2>5 DEF IosbInv
    <2> QED
      BY <2>4, <2>5
  <1>11. NoUnexpectedCompletion' /\ NoLostWakeup'
    BY <1>1, <1>4 DEF NoUnexpectedCompletion, NoLostWakeup, callers, queues, history
  <1> QED
    BY <1>5, <1>6, <1>7, <1>8, <1>9, <1>10, <1>11

LEMMA FinalizeInv ==
    ASSUME IInv, NEW w \in Workers, Finalize(w)
    PROVE  IInv'
  <1> DEFINE j == wjob[w]
  <1> USE DEF IInv
  <1>1. /\ wpc[w] = "finalize" /\ wpc' = [wpc EXCEPT ![w] = "send"]
        /\ iosb' = [iosb EXCEPT ![j] = Append(@, Failed(fails[j]))]
        /\ UNCHANGED <<open, callers, jobs, queues, wjob, wnext, wpending, history>>
    BY DEF Finalize, WriteIosb, WorkerGoto
  <1>2. j \in Jobs /\ tried[j][w] = wnext[w] /\ wnext[w] > 0
    BY <1>1, HeldJob DEF Working, WorkerInv
  <1>3. Finalizing(w, j)
    BY <1>1 DEF Finalizing
  <1>4. pending[j] = 0 /\ iosb[j] = <<>> /\ \A v \in Workers : Finalizing(v, j) => v = w
    BY <1>2, <1>3 DEF IosbInv
  <1>5. /\ wpc'[w] = "send" /\ wjob' = wjob /\ wjob[w] = j
        /\ \A v \in Workers : v # w => wpc'[v] = wpc[v]
    BY <1>1 DEF TypeOK
  <1> HIDE DEF j
  <1>6. iosb'[j] = <<Failed(fails[j])>> /\ \A k \in Jobs : k # j => iosb'[k] = iosb[k]
    BY <1>1, <1>2, <1>4, AppendToEmpty DEF TypeOK
  <1>7. TypeOK'
    <2>1. iosb' \in [Jobs -> Seq(BOOLEAN)]
      <3>1. Append(iosb[j], Failed(fails[j])) \in Seq(BOOLEAN)
        BY <1>2, FailedType, AppendProperties, Zenon DEF TypeOK
      <3> QED
        BY <1>1, <3>1, Zenon DEF TypeOK
    <2>2. wpc' \in [Workers -> WorkerPCs]
      BY <1>1 DEF TypeOK, WorkerPCs
    <2> QED
      BY <1>1, <2>1, <2>2 DEF TypeOK, WorkerPCs, callers, jobs, queues, history
  <1>8. FutureInv' /\ CallerInv'
    <2>1. ASSUME NEW k \in Jobs, NEW v \in Workers, Untouched(k, v) PROVE Untouched(k, v)'
      BY <1>1, <2>1 DEF Untouched, Queued, queues, history
    <2>2. receivers[j][w] # 0
      BY <1>2, LeftFact DEF PendingInv, TypeOK
    <2> QED
      BY <1>1, <1>6, <2>1, <2>2, CallersFrame DEF jobs
  <1>9. QueueInv'
    BY <1>1, QueueFrame DEF queues, history
  <1>10. WorkerInv'
    BY <1>1, <1>5 DEF WorkerInv, Working, history
  <1>11. /\ \A v \in Workers, k \in Jobs : Open(v, k)' = Open(v, k)
         /\ \A v \in Workers, k \in Jobs : Finalizing(v, k)' => Finalizing(v, k) /\ k # j
    <2>1. \A v \in Workers, k \in Jobs : Open(v, k)' = Open(v, k)
      BY <1>1, <1>5 DEF Open
    <2>2. ASSUME NEW v \in Workers, NEW k \in Jobs, Finalizing(v, k)' PROVE Finalizing(v, k) /\ k # j
      <3>1. v # w /\ Finalizing(v, k)
        BY <1>5, <2>2 DEF Finalizing
      <3> QED
        BY <1>4, <3>1
    <2> QED
      BY <2>1, <2>2
  <1>12. PendingInv'
    BY <1>1, <1>11, WorkersFact DEF PendingInv, Left, jobs, history
  <1>13. IosbInv'
    <2>1. pending' = pending /\ fails' = fails
      BY <1>1 DEF jobs
    <2> SUFFICES ASSUME NEW k \in Jobs
                 PROVE  /\ iosb'[k] # <<>> => pending[k] = 0 /\ iosb'[k] = <<Failed(fails[k])>>
                        /\ \A v \in Workers : Finalizing(v, k)' =>
                              /\ pending[k] = 0 /\ iosb'[k] = <<>>
                              /\ \A u \in Workers : Finalizing(u, k)' => u = v
      BY <2>1 DEF IosbInv
    <2>2. CASE k = j
      BY <1>4, <1>6, <1>11, <2>2
    <2>3. CASE k # j
      BY <1>6, <1>11, <2>3 DEF IosbInv
    <2> QED
      BY <2>2, <2>3
  <1>14. NoUnexpectedCompletion' /\ NoLostWakeup'
    BY <1>1, <1>5 DEF NoUnexpectedCompletion, NoLostWakeup, callers, queues, history
  <1> QED
    BY <1>7, <1>8, <1>9, <1>10, <1>12, <1>13, <1>14

-----------------------------------------------------------------------------
(* The theorems. *)

LEMMA UnchangedInv ==
    ASSUME IInv, UNCHANGED vars
    PROVE  IInv'
  <1> USE DEF IInv, vars, callers, jobs, queues, threads, history
  <1>1. TypeOK'
    BY DEF TypeOK
  <1>2. FutureInv' /\ CallerInv'
    BY DEF FutureInv, CallerInv, Untouched, Queued, Job
  <1>3. QueueInv' /\ WorkerInv' /\ PendingInv' /\ IosbInv'
    BY QueueFrame, WorkerFrame, PendingFrame, IosbFrame
  <1>4. NoUnexpectedCompletion' /\ NoLostWakeup'
    BY DEF NoUnexpectedCompletion, NoLostWakeup
  <1> QED
    BY <1>1, <1>2, <1>3, <1>4

LEMMA NextInv == IInv /\ [Next]_vars => IInv'
  <1> SUFFICES ASSUME IInv, [Next]_vars PROVE IInv'
    OBVIOUS
  <1>1. ASSUME NEW c \in Callers, NEW n \in [Workers -> 0 .. MaxReceivers], SendLabel(c, n) PROVE IInv'
    BY <1>1, SendLabelInv
  <1>2. ASSUME NEW c \in Callers, SendRefused(c) PROVE IInv'
    BY <1>2, SendRefusedInv
  <1>3. ASSUME NEW c \in Callers, CallerStep(c) PROVE IInv'
    BY <1>3, EnqueueCheckInv, EnqueuePushInv, EnqueuePostInv, CallerFinalizeInv DEF CallerStep
  <1>4. ASSUME CloseSend PROVE IInv'
    BY <1>4, CloseSendInv
  <1>5. ASSUME NEW w \in Workers, LoadPending(w) \/ CasFails(w) PROVE IInv'
    BY <1>5, SawInv DEF LoadPending, CasFails
  <1>6. ASSUME NEW w \in Workers, WorkerStep(w) PROVE IInv'
    BY <1>5, <1>6, WakeInv, PopInv, QueueEmptyInv, SendOneInv, CasSucceedsInv, FinalizeInv,
       JobDoneInv DEF WorkerStep
  <1>7. ASSUME NEW w \in Workers, StopRequest(w) \/ StopClear(w) PROVE IInv'
    BY <1>7, StopRequestInv, StopClearInv
  <1>8. ASSUME Done \/ UNCHANGED vars PROVE IInv'
    BY <1>8, UnchangedInv DEF Done
  <1> QED
    BY <1>1, <1>2, <1>3, <1>4, <1>6, <1>7, <1>8 DEF Next

\* The inductive invariant holds in every reachable state.
THEOREM PipelineInvariant == Spec => []IInv
  <1>1. Init => IInv
    BY InitInv
  <1>2. IInv /\ [Next]_vars => IInv'
    BY NextInv
  <1> QED
    BY <1>1, <1>2, PTL DEF Spec

\* Every variable of the send path keeps its type: in particular pending_sends,
\* a size_t that complete_one decrements, never goes below 0.
THEOREM PipelineTypes == Spec => []TypeOK
  <1>1. IInv => TypeOK
    BY DEF IInv
  <1> QED
    BY <1>1, PipelineInvariant, PTL

\* write_send_iosb is called at most once per job, after every receiver of the
\* job was tried exactly once, and it reports a failure exactly if a receiver
\* failed, however the two workers interleave in complete_one.
THEOREM IosbTruth == Spec => []IosbTellsTheTruth
  <1>1. IInv => IosbTellsTheTruth
    <2> SUFFICES ASSUME IInv, NEW j \in Jobs, iosb[j] # <<>>
                 PROVE  /\ iosb[j] = <<\E w \in Workers : fails[j][w] > 0>>
                        /\ \A w \in Workers : Finished(w, j)
      BY DEF IosbTellsTheTruth
    <2> USE DEF IInv
    <2>1. pending[j] = 0 /\ iosb[j] = <<Failed(fails[j])>>
      BY DEF IosbInv
    <2>2. Failed(fails[j]) <=> \E w \in Workers : fails[j][w] > 0
      <3>1. fails[j]["local"] \in Nat /\ fails[j]["remote"] \in Nat
        BY WorkersFact DEF TypeOK
      <3> QED
        BY <3>1 DEF Failed, Workers
    <2>3. \A w \in Workers : tried[j][w] = receivers[j][w]
      <3>1. \A w \in Workers : Left(w, j) = 0
        BY <2>1, LeftFact
      <3> QED
        BY <3>1, LeftFact DEF Left, Open, PendingInv
    <2>4. Failed(fails[j]) = (\E w \in Workers : fails[j][w] > 0)
      <3>1. Failed(fails[j]) \in BOOLEAN
        BY FailedType
      <3> QED
        BY <2>2, <3>1, Zenon
    <2> QED
      BY <2>1, <2>3, <2>4 DEF Finished
  <1> QED
    BY <1>1, PipelineInvariant, PTL

\* complete_one never finds pending_sends at 0 when it has a send to complete.
THEOREM CompletionsExpected == Spec => []NoUnexpectedCompletion
  <1>1. IInv => NoUnexpectedCompletion
    BY DEF IInv
  <1> QED
    BY <1>1, PipelineInvariant, PTL

\* A job is never left in the queue of a worker that sleeps for good: the
\* semaphore counts every push, also across stop and its extra post.
THEOREM WakeupsKept == Spec => []NoLostWakeup
  <1>1. IInv => NoLostWakeup
    BY DEF IInv
  <1> QED
    BY <1>1, PipelineInvariant, PTL
=============================================================================
