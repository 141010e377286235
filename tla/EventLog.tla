------------------------------ MODULE EventLog ------------------------------
(***************************************************************************)
(* The lock-free ring of event records: threads log (log_payload, log_hot, *)
(* log_hot_no_time) while another writes the ring out (write_evtlog).      *)
(*                                                                         *)
(* A record has two parts that are written and copied one after the other, *)
(* the fields of fixed size and the payload.  Steps take effect in program *)
(* order, as stores and loads do on x86.                                   *)
(***************************************************************************)
EXTENDS Integers, FiniteSets

CONSTANTS
    Threads,   \* threads that log
    EVENT_LOG_CAPACITY,
    SeqMod,    \* 2^32, the width of m_seq, scaled down
    MaxEvents  \* bound: events logged

ASSUME EventLogAssumption ==
    /\ EVENT_LOG_CAPACITY \in Nat \ {0} /\ SeqMod \in Nat \ {0, 1} /\ MaxEvents \in Nat

Slots == 0 .. EVENT_LOG_CAPACITY - 1
Kinds == {"payload", "hot"}   \* the two hot functions differ in the tick only
Nothing == 0

VARIABLES
    m_seq, m_idx,
    rec,     \* m_evt_logs: commit_seq; the event whose fixed fields, and whose
             \* payload, are there; whether payload_len is not zero
    log,     \* the threads that log
    dump,    \* the thread in write_evtlog
    line,    \* the line it wrote last
    \* History, read by no step of the code:
    kind,    \* which function logged each event; its domain are the events so far
    newest,  \* the event that claimed each record last
    lapped   \* records that two threads have written to at the same time

vars == <<m_seq, m_idx, rec, log, dump, line, kind, newest, lapped>>
history == <<kind, newest, lapped>>

Events == DOMAIN kind
\* owner is the event that stored commit_seq.
Blank == [commit |-> 0, owner |-> Nothing, fixed |-> Nothing, hasPayload |-> FALSE, payload |-> Nothing]

-----------------------------------------------------------------------------
(* Logging *)

At(t, pc) == log[t].pc = pc
Goto(t, pc) == log' = [log EXCEPT ![t].pc = pc]
Put(t, r) == rec' = [rec EXCEPT ![log[t].slot] = r]
Mine(t) == rec[log[t].slot]

\* m_seq.fetch_add
TakeSeq(t, k) ==
    LET e == Cardinality(Events) + 1
    IN  /\ At(t, "idle") /\ e <= MaxEvents
        /\ m_seq' = (m_seq + 1) % SeqMod
        /\ log' = [log EXCEPT ![t] = [@ EXCEPT !.pc = "index", !.event = e, !.seq = m_seq]]
        /\ kind' = [i \in Events \union {e} |-> IF i = e THEN k ELSE kind[i]]
        /\ UNCHANGED <<m_idx, rec, dump, line, newest, lapped>>

Writing(s) == {t \in Threads : log[t].slot = s /\ log[t].pc \in {"mark", "fixed", "payload", "commit"}}

\* m_idx.fetch_add, another atomic: the order of records need not be that of
\* the sequence numbers.
TakeIndex(t) ==
    LET s == m_idx % EVENT_LOG_CAPACITY
    IN  /\ At(t, "index")
        /\ m_idx' = m_idx + 1
        /\ log' = [log EXCEPT ![t] = [@ EXCEPT !.pc = "mark", !.slot = s]]
        /\ newest' = [newest EXCEPT ![s] = log[t].event]
        /\ lapped' = IF Writing(s) # {} THEN lapped \union {s} ELSE lapped
        /\ UNCHANGED <<m_seq, rec, dump, line, kind>>

\* "mark invalid while writing"
Marked(r) == [r EXCEPT !.commit = 0]

Mark(t) ==
    /\ At(t, "mark")
    /\ Put(t, Marked(Mine(t)))
    /\ Goto(t, "fixed")
    /\ UNCHANGED <<m_seq, m_idx, dump, line, history>>

WriteFixed(t) ==
    /\ At(t, "fixed")
    /\ Put(t, [Mine(t) EXCEPT !.fixed = log[t].event])
    /\ Goto(t, "payload")
    /\ UNCHANGED <<m_seq, m_idx, dump, line, history>>

\* Mutant: payload_len is left as it was.
WithoutPayload_Stale(r) == r
WithoutPayload(r) == [r EXCEPT !.hasPayload = FALSE]

\* log_payload replaces the payload, the others only set payload_len to 0.
WritePayload(t) ==
    LET e == log[t].event
    IN  /\ At(t, "payload")
        /\ Put(t, IF kind[e] = "payload" THEN [Mine(t) EXCEPT !.hasPayload = TRUE, !.payload = e]
                  ELSE WithoutPayload(Mine(t)))
        /\ Goto(t, "commit")
        /\ UNCHANGED <<m_seq, m_idx, dump, line, history>>

Commit(t) ==
    /\ At(t, "commit")
    /\ Put(t, [Mine(t) EXCEPT !.commit = log[t].seq, !.owner = log[t].event])
    /\ Goto(t, "idle")
    /\ UNCHANGED <<m_seq, m_idx, dump, line, history>>

-----------------------------------------------------------------------------
(* write_evtlog *)

DumpGoto(pc, s) == dump' = [dump EXCEPT !.pc = pc, !.slot = s]
NextRecord == IF dump.slot + 1 \in Slots THEN DumpGoto("load", dump.slot + 1) ELSE DumpGoto("idle", 0)

StartDump ==
    /\ dump.pc = "idle"
    /\ DumpGoto("load", 0)
    /\ line' = Blank
    /\ UNCHANGED <<m_seq, m_idx, rec, log, history>>

\* "confirm this value is not currently being written to"
Load ==
    /\ dump.pc = "load"
    /\ IF rec[dump.slot].commit = 0 THEN NextRecord
       ELSE dump' = [dump EXCEPT !.pc = "fixed", !.copy.commit = rec[dump.slot].commit,
                                 !.copy.owner = rec[dump.slot].owner]
    /\ UNCHANGED <<m_seq, m_idx, rec, log, line, history>>

\* The memcpy, in two parts.
CopyFixed ==
    /\ dump.pc = "fixed"
    /\ dump' = [dump EXCEPT !.pc = "payload", !.copy.fixed = rec[dump.slot].fixed]
    /\ UNCHANGED <<m_seq, m_idx, rec, log, line, history>>

CopyPayload ==
    /\ dump.pc = "payload"
    /\ dump' = [dump EXCEPT !.pc = "check", !.copy.hasPayload = rec[dump.slot].hasPayload,
                            !.copy.payload = rec[dump.slot].payload]
    /\ UNCHANGED <<m_seq, m_idx, rec, log, line, history>>

\* Mutant: the sequence number is not compared again.
Changed_Unchecked(s) == FALSE
\* "was record changed while we were copying?"
Changed(s) == dump.copy.commit # rec[s].commit

WriteLine ==
    /\ dump.pc = "check"
    /\ line' = IF Changed(dump.slot) THEN line ELSE dump.copy
    /\ NextRecord
    /\ UNCHANGED <<m_seq, m_idx, rec, log, history>>

-----------------------------------------------------------------------------
Init ==
    /\ m_seq = 1 /\ m_idx = 0
    /\ rec = [s \in Slots |-> Blank]
    /\ log = [t \in Threads |-> [pc |-> "idle", event |-> Nothing, seq |-> 0, slot |-> 0]]
    /\ dump = [pc |-> "idle", slot |-> 0, copy |-> Blank]
    /\ line = Blank
    /\ kind = [e \in {} |-> "hot"]
    /\ newest = [s \in Slots |-> Nothing]
    /\ lapped = {}

Next ==
    \/ \E t \in Threads :
          \/ \E k \in Kinds : TakeSeq(t, k)
          \/ TakeIndex(t) \/ Mark(t) \/ WriteFixed(t) \/ WritePayload(t) \/ Commit(t)
    \/ StartDump \/ Load \/ CopyFixed \/ CopyPayload \/ WriteLine

Spec == Init /\ [][Next]_vars

-----------------------------------------------------------------------------
(* Properties *)

\* All that a record or a line shows is of the event that committed it.
Intact(r) ==
    r.owner # Nothing =>
        /\ r.fixed = r.owner
        /\ r.hasPayload <=> kind[r.owner] = "payload"
        /\ r.hasPayload => r.payload = r.owner

\* While no two threads have been in one record at once, a line that is
\* written out is never a mixture of two events, although the copy is made
\* without a lock while threads log.
LinesIntact == lapped = {} => Intact(line)

\* The number that m_seq, which starts at 1 and wraps, gives to the e-th event.
Seq32(e) == e % SeqMod

\* While no two threads have been in one record at once, a record at rest holds,
\* complete, the event that claimed it last and shows that event's number.  A
\* full ring overwrites older events and nothing else replaces or hides one, but
\* for the event that gets the number 0 when m_seq wraps: write_evtlog takes it
\* for a record that is being written and skips it.
NewestKept ==
    lapped = {} =>
        \A s \in Slots : Writing(s) = {} =>
            /\ rec[s].owner = newest[s] /\ Intact(rec[s])
            /\ newest[s] # Nothing => rec[s].commit = Seq32(newest[s])
=============================================================================
