--------------------------- MODULE EventLogProofs ---------------------------
(***************************************************************************)
(* The event log for any number of threads, records and events.  While no  *)
(* thread has lapped another one inside a record, a record at rest holds   *)
(* the event that claimed it last, with its number; and as long as the     *)
(* sequence numbers have not come round, every line that is written out is *)
(* one event.                                                              *)
(***************************************************************************)
EXTENDS EventLog, FiniteSetTheorems, TLAPS

-----------------------------------------------------------------------------
(* The inductive invariant. *)

Count == Cardinality(Events)
Rec == [commit : Nat, owner : Nat, fixed : Nat, hasPayload : BOOLEAN, payload : Nat]

TypeInv ==
    /\ m_seq \in Nat /\ m_idx \in Nat
    /\ rec \in [Slots -> Rec]
    /\ log \in [Threads -> [pc : {"idle", "index", "mark", "fixed", "payload", "commit"},
                            event : Nat, seq : Nat, slot : Slots]]
    /\ dump \in [pc : {"idle", "load", "fixed", "payload", "check"}, slot : Slots, copy : Rec]
    /\ line \in Rec
    /\ Count \in 0 .. MaxEvents /\ Events = 1 .. Count /\ kind \in [Events -> Kinds]
    /\ newest \in [Slots -> Nat] /\ lapped \subseteq Slots

Active(t) == log[t].pc # "idle"

\* Every event is logged by one thread and committed once.
OwnerInv ==
    /\ \A t \in Threads : Active(t) => log[t].event \in Events
    /\ \A t, u \in Threads : Active(t) /\ Active(u) /\ log[t].event = log[u].event => t = u
    /\ \A s \in Slots : /\ rec[s].owner \in Events \union {Nothing}
                        /\ \A t \in Threads : Active(t) => rec[s].owner # log[t].event
    /\ dump.copy.owner \in Events \union {Nothing}
    /\ \A t \in Threads : Active(t) => dump.copy.owner # log[t].event
    /\ line.owner \in Events \union {Nothing}

\* The payload of r is that of event e.
PayloadOf(r, e) == (r.hasPayload <=> kind[e] = "payload") /\ (r.hasPayload => r.payload = e)

\* How far the thread is with the record r.
Progress(t, r) ==
    /\ log[t].pc \in {"fixed", "payload", "commit"} => r.commit = 0
    /\ log[t].pc \in {"payload", "commit"} => r.fixed = log[t].event
    /\ log[t].pc = "commit" => PayloadOf(r, log[t].event)

\* While nobody was lapped a record has one writer, and is intact until that
\* one has marked it.
WriterInv ==
    lapped = {} => \A s \in Slots :
        /\ \A t, u \in Writing(s) : t = u
        /\ \A t \in Writing(s) : newest[s] = log[t].event /\ Progress(t, rec[s])
        /\ Writing(s) = {} => rec[s].owner = newest[s]
        /\ (\A t \in Writing(s) : log[t].pc = "mark") => Intact(rec[s])

IInv == TypeInv /\ OwnerInv /\ WriterInv

-----------------------------------------------------------------------------

LEMMA SlotFact == 0 \in Slots
  BY EventLogAssumption DEF Slots

LEMMA BlankFact ==
    Blank \in Rec /\ Blank.commit = 0 /\ Blank.owner = Nothing
  BY DEF Blank, Rec, Nothing

LEMMA LogFact ==
    ASSUME TypeInv, NEW t \in Threads
    PROVE  /\ log[t].pc \in {"idle", "index", "mark", "fixed", "payload", "commit"}
           /\ log[t].event \in Nat /\ log[t].seq \in Nat /\ log[t].slot \in Slots
           /\ Mine(t) \in Rec
  BY DEF TypeInv, Mine

LEMMA RecFact ==
    ASSUME NEW r \in Rec
    PROVE  /\ r.commit \in Nat /\ r.owner \in Nat /\ r.fixed \in Nat /\ r.hasPayload \in BOOLEAN
           /\ r.payload \in Nat
  BY DEF Rec

LEMMA InitInv == Init => IInv
  <1> SUFFICES ASSUME Init PROVE IInv
    OBVIOUS
  <1>1. Events = {} /\ Count = 0 /\ kind \in [Events -> Kinds]
    BY FS_EmptySet DEF Init, Events, Count
  <1>2. TypeInv
    <2>1. Count \in 0 .. MaxEvents /\ Events = 1 .. Count
      BY <1>1, EventLogAssumption
    <2>2. /\ rec \in [Slots -> Rec] /\ line \in Rec /\ newest \in [Slots -> Nat] /\ lapped \subseteq Slots
          /\ dump \in [pc : {"idle", "load", "fixed", "payload", "check"}, slot : Slots, copy : Rec]
      BY SlotFact, BlankFact DEF Init, Nothing
    <2>3. log \in [Threads -> [pc : {"idle", "index", "mark", "fixed", "payload", "commit"},
                               event : Nat, seq : Nat, slot : Slots]]
      BY SlotFact DEF Init, Nothing
    <2> QED
      BY <1>1, <2>1, <2>2, <2>3 DEF TypeInv, Init
  <1>3. \A t \in Threads : ~Active(t) /\ \A s \in Slots : Writing(s) = {}
    BY DEF Init, Active, Writing
  <1>4. OwnerInv
    BY <1>3, BlankFact DEF OwnerInv, Init
  <1>5. WriterInv
    <2>1. \A s \in Slots : Writing(s) = {}
      BY DEF Init, Writing
    <2> QED
      BY <2>1, BlankFact DEF WriterInv, Intact, Init
  <1> QED
    BY <1>2, <1>4, <1>5 DEF IInv

-----------------------------------------------------------------------------
(* Claiming a record. *)

LEMMA TakeSeqInv ==
    ASSUME IInv, NEW t \in Threads, NEW k \in Kinds, TakeSeq(t, k)
    PROVE  IInv'
  <1> USE DEF IInv
  <1>1. PICK e : e = Count + 1
    OBVIOUS
  <1>2. /\ log[t].pc = "idle" /\ e <= MaxEvents
        /\ m_seq' = (m_seq + 1) % SeqMod
        /\ log' = [log EXCEPT ![t] = [@ EXCEPT !.pc = "index", !.event = e, !.seq = m_seq]]
        /\ kind' = [i \in Events \union {e} |-> IF i = e THEN k ELSE kind[i]]
        /\ UNCHANGED <<m_idx, rec, dump, line, newest, lapped>>
    BY <1>1 DEF TakeSeq, At, Count
  <1>3. Count \in Nat /\ e \in Nat /\ e \notin Events /\ e # Nothing /\ MaxEvents \in Nat
    BY <1>1, EventLogAssumption DEF TypeInv, Nothing
  <1>4. Events' = 1 .. e /\ Count' = e /\ kind' \in [Events' -> Kinds]
        /\ Events \subseteq Events' /\ \A i \in Events : kind'[i] = kind[i]
    <2>1. Events' = Events \union {e}
      BY <1>2 DEF Events
    <2>2. Events' = 1 .. e
      BY <1>1, <1>3, <2>1 DEF TypeInv
    <2>3. Cardinality(1 .. e) = e
      <3>1. 1 \in Int /\ e \in Int
        BY <1>3
      <3>2. Cardinality(1 .. e) = IF 1 > e THEN 0 ELSE e - 1 + 1
        BY <3>1, FS_Interval, Zenon
      <3> QED
        BY <1>1, <1>3, <3>2
    <2>4. Count' = e
      BY <2>2, <2>3 DEF Count
    <2>5. kind' \in [Events' -> Kinds] /\ \A i \in Events : kind'[i] = kind[i]
      BY <1>2, <1>3, <2>1 DEF TypeInv
    <2> QED
      BY <2>1, <2>2, <2>4, <2>5
  <1>5. /\ log'[t].pc = "index" /\ log'[t].event = e
        /\ \A u \in Threads : u # t => log'[u] = log[u]
    BY <1>2 DEF TypeInv
  <1>6. TypeInv'
    <2>1. m_seq' \in Nat
      BY <1>2, EventLogAssumption DEF TypeInv
    <2>2. log' \in [Threads -> [pc : {"idle", "index", "mark", "fixed", "payload", "commit"},
                                event : Nat, seq : Nat, slot : Slots]]
      BY <1>2, <1>3 DEF TypeInv
    <2>3. Count' \in 0 .. MaxEvents
      BY <1>2, <1>3, <1>4
    <2> QED
      BY <1>2, <1>4, <2>1, <2>2, <2>3 DEF TypeInv
  <1>7. \A u \in Threads : u # t => (Active(u)' <=> Active(u)) /\ log'[u].event = log[u].event
    BY <1>5 DEF Active
  <1>8. OwnerInv'
    BY <1>2, <1>3, <1>4, <1>5, <1>7 DEF OwnerInv, Active
  <1>9. WriterInv'
    <2> SUFFICES ASSUME lapped = {}, NEW s \in Slots
                 PROVE  /\ \A v, u \in Writing(s)' : v = u
                        /\ \A v \in Writing(s)' : newest[s] = log'[v].event /\ Progress(v, rec[s])'
                        /\ Writing(s)' = {} => rec[s].owner = newest[s]
                        /\ (\A v \in Writing(s)' : log'[v].pc = "mark") => Intact(rec[s])'
      BY <1>2 DEF WriterInv
    <2>1. Writing(s)' = Writing(s) /\ \A v \in Writing(s) : v \in Threads /\ v # t /\ log'[v] = log[v] /\ Active(v)
      BY <1>2, <1>5 DEF Writing, Active
    <2>2. \A v \in Writing(s) : Progress(v, rec[s]) => Progress(v, rec[s])'
      BY <1>2, <1>4, <2>1 DEF Progress, PayloadOf, OwnerInv
    <2>3. Intact(rec[s]) => Intact(rec[s])'
      BY <1>2, <1>4 DEF Intact, OwnerInv
    <2> QED
      BY <2>1, <2>2, <2>3 DEF WriterInv
  <1> QED
    BY <1>6, <1>8, <1>9

LEMMA TakeIndexInv ==
    ASSUME IInv, NEW t \in Threads, TakeIndex(t)
    PROVE  IInv'
  <1> USE DEF IInv
  <1>1. PICK s : s = m_idx % EVENT_LOG_CAPACITY
    OBVIOUS
  <1>2. /\ log[t].pc = "index" /\ m_idx' = m_idx + 1
        /\ log' = [log EXCEPT ![t] = [@ EXCEPT !.pc = "mark", !.slot = s]]
        /\ newest' = [newest EXCEPT ![s] = log[t].event]
        /\ lapped' = IF Writing(s) # {} THEN lapped \union {s} ELSE lapped
        /\ UNCHANGED <<m_seq, rec, dump, line, kind>>
    BY <1>1 DEF TakeIndex, At
  <1>3. s \in Slots
    BY <1>1, EventLogAssumption DEF TypeInv, Slots
  <1>4. /\ log'[t].pc = "mark" /\ log'[t].event = log[t].event /\ log'[t].slot = s
        /\ \A u \in Threads : u # t => log'[u] = log[u]
    BY <1>2 DEF TypeInv
  <1>5. Events' = Events /\ Count' = Count
    BY <1>2 DEF Events, Count
  <1>6. TypeInv'
    <2>1. log' \in [Threads -> [pc : {"idle", "index", "mark", "fixed", "payload", "commit"},
                                event : Nat, seq : Nat, slot : Slots]]
      BY <1>2, <1>3, ZenonT(60) DEF TypeInv
    <2>2. newest' \in [Slots -> Nat]
      BY <1>2, LogFact DEF TypeInv
    <2> QED
      BY <1>2, <1>3, <1>5, <2>1, <2>2, SMTT(60) DEF TypeInv
  <1>7. \A u \in Threads : (Active(u)' <=> Active(u)) /\ log'[u].event = log[u].event
    BY <1>2, <1>4 DEF Active
  <1>8. OwnerInv'
    BY <1>2, <1>5, <1>7 DEF OwnerInv
  <1>9. WriterInv'
    <2> SUFFICES ASSUME lapped' = {}, NEW q \in Slots
                 PROVE  /\ \A v, u \in Writing(q)' : v = u
                        /\ \A v \in Writing(q)' : newest'[q] = log'[v].event /\ Progress(v, rec[q])'
                        /\ Writing(q)' = {} => rec[q].owner = newest'[q]
                        /\ (\A v \in Writing(q)' : log'[v].pc = "mark") => Intact(rec[q])'
      BY <1>2 DEF WriterInv
    <2>1. lapped = {} /\ Writing(s) = {}
      BY <1>2
    <2>2. CASE q = s
      <3>1. Writing(q)' = {t} /\ newest'[q] = log'[t].event
        BY <1>2, <1>3, <1>4, <2>1, <2>2 DEF Writing, TypeInv
      <3>2. Intact(rec[q]) /\ (Intact(rec[q]) <=> Intact(rec[q])')
        BY <1>2, <1>3, <2>1, <2>2 DEF WriterInv, Intact
      <3>3. Progress(t, rec[q])'
        BY <1>4 DEF Progress
      <3> QED
        BY <3>1, <3>2, <3>3
    <2>3. CASE q # s
      <3>1. newest'[q] = newest[q]
        BY <1>2, <2>3 DEF TypeInv
      <3>2. Writing(q)' = Writing(q) /\ \A v \in Writing(q) : v \in Threads /\ v # t /\ log'[v] = log[v]
        BY <1>2, <1>4, <2>3 DEF Writing
      <3>3. \A v \in Writing(q) : Progress(v, rec[q]) => Progress(v, rec[q])'
        BY <1>2, <3>2 DEF Progress, PayloadOf
      <3>4. Intact(rec[q]) => Intact(rec[q])'
        BY <1>2 DEF Intact
      <3> QED
        BY <2>1, <3>1, <3>2, <3>3, <3>4 DEF WriterInv
    <2> QED
      BY <2>2, <2>3
  <1> QED
    BY <1>6, <1>8, <1>9

-----------------------------------------------------------------------------
(* Writing a record. *)

\* A thread stores r in its record and goes on; idle is the step that commits.
LEMMA PutInv ==
    ASSUME IInv, NEW t \in Threads, log[t].pc \in {"mark", "fixed", "payload", "commit"},
           NEW r \in Rec, NEW pc \in {"fixed", "payload", "commit", "idle"}, Put(t, r), Goto(t, pc),
           UNCHANGED <<m_seq, m_idx, dump, line, history>>,
           r.owner = IF pc = "idle" THEN log[t].event ELSE Mine(t).owner,
           lapped = {} => /\ pc # "idle" => r.commit = 0
                          /\ pc \in {"payload", "commit"} => r.fixed = log[t].event
                          /\ pc = "commit" => PayloadOf(r, log[t].event)
                          /\ pc = "idle" => Intact(r)
    PROVE  IInv'
  <1> USE DEF IInv
  <1>1. PICK s \in Slots : s = log[t].slot
    BY LogFact
  <1>2. rec' = [rec EXCEPT ![s] = r] /\ log' = [log EXCEPT ![t].pc = pc]
    BY <1>1 DEF Put, Goto
  <1>3. UNCHANGED <<m_seq, m_idx, dump, line, kind, newest, lapped>> /\ Events' = Events /\ Count' = Count
    BY DEF history, Events, Count
  <1>4. /\ log'[t].pc = pc /\ log'[t].event = log[t].event /\ log'[t].slot = s
        /\ \A u \in Threads : u # t => log'[u] = log[u]
        /\ rec'[s] = r /\ \A q \in Slots : q # s => rec'[q] = rec[q]
    BY <1>1, <1>2 DEF TypeInv
  <1>5. TypeInv'
    <2>1. log' \in [Threads -> [pc : {"idle", "index", "mark", "fixed", "payload", "commit"},
                                event : Nat, seq : Nat, slot : Slots]]
      BY <1>2 DEF TypeInv
    <2>2. rec' \in [Slots -> Rec]
      BY <1>2 DEF TypeInv
    <2> QED
      BY <1>3, <2>1, <2>2 DEF TypeInv
  <1>6. Active(t) /\ \A u \in Threads : (Active(u)' => Active(u)) /\ log'[u].event = log[u].event
    BY <1>4 DEF Active
  <1>7. OwnerInv'
    <2>1. \A u \in Threads : Active(u)' => log'[u].event \in Events'
      BY <1>3, <1>6 DEF OwnerInv
    <2>2. \A v, u \in Threads : Active(v)' /\ Active(u)' /\ log'[v].event = log'[u].event => v = u
      BY <1>6 DEF OwnerInv
    <2>3. ASSUME NEW q \in Slots
          PROVE  /\ rec'[q].owner \in Events' \union {Nothing}
                 /\ \A u \in Threads : Active(u)' => rec'[q].owner # log'[u].event
      <3>1. CASE q = s /\ pc = "idle"
        <4>1. r.owner = log[t].event /\ ~Active(t)'
          BY <1>4, <3>1 DEF Active
        <4> QED
          BY <1>3, <1>4, <1>6, <3>1, <4>1 DEF OwnerInv
      <3>2. CASE ~(q = s /\ pc = "idle")
        <4>1. rec'[q].owner = rec[q].owner
          BY <1>1, <1>4, <3>2 DEF Mine
        <4> QED
          BY <1>3, <1>6, <4>1 DEF OwnerInv
      <3> QED
        BY <3>1, <3>2
    <2>4. /\ dump'.copy.owner \in Events' \union {Nothing} /\ line'.owner \in Events' \union {Nothing}
          /\ \A u \in Threads : Active(u)' => dump'.copy.owner # log'[u].event
      BY <1>3, <1>6 DEF OwnerInv
    <2> QED
      BY <2>1, <2>2, <2>3, <2>4 DEF OwnerInv
  <1>8. WriterInv'
    <2> SUFFICES ASSUME lapped = {}, NEW q \in Slots
                 PROVE  /\ \A v, u \in Writing(q)' : v = u
                        /\ \A v \in Writing(q)' : newest[q] = log'[v].event /\ Progress(v, rec[q])'
                        /\ Writing(q)' = {} => rec'[q].owner = newest[q]
                        /\ (\A v \in Writing(q)' : log'[v].pc = "mark") => Intact(rec[q])'
      BY <1>3 DEF WriterInv
    <2>1. CASE q = s
      <3>1. Writing(q) = {t} /\ newest[q] = log[t].event
        <4>1. t \in Writing(q)
          BY <1>1, <2>1 DEF Writing
        <4> QED
          BY <4>1 DEF WriterInv
      <3>2. Writing(q)' = IF pc = "idle" THEN {} ELSE {t}
        <4>1. ASSUME NEW v \in Threads, v # t PROVE v \notin Writing(q)'
          <5>1. v \notin Writing(q)
            BY <3>1, <4>1
          <5> QED
            BY <1>4, <4>1, <5>1 DEF Writing
        <4>2. t \in Writing(q)' <=> pc # "idle"
          BY <1>1, <1>4, <2>1 DEF Writing
        <4>3. \A v \in Writing(q)' : v \in Threads
          BY DEF Writing
        <4> QED
          BY <4>1, <4>2, <4>3
      <3>3. pc # "idle" => Progress(t, rec[q])'
        BY <1>3, <1>4, <2>1 DEF Progress, PayloadOf
      <3>4. pc = "idle" => rec'[q].owner = newest[q] /\ Intact(rec[q])'
        BY <1>3, <1>4, <2>1, <3>1 DEF Intact
      <3> QED
        BY <1>4, <3>1, <3>2, <3>3, <3>4
    <2>2. CASE q # s
      <3>1. Writing(q)' = Writing(q) /\ \A v \in Writing(q) : v \in Threads /\ log'[v] = log[v]
        BY <1>1, <1>4, <2>2 DEF Writing
      <3>2. rec'[q] = rec[q]
        BY <1>4, <2>2
      <3>3. \A v \in Writing(q) : Progress(v, rec[q]) => Progress(v, rec[q])'
        BY <1>3, <3>1, <3>2 DEF Progress, PayloadOf
      <3>4. Intact(rec[q]) => Intact(rec[q])'
        BY <1>3, <3>2 DEF Intact
      <3> QED
        BY <3>1, <3>2, <3>3, <3>4 DEF WriterInv
    <2> QED
      BY <2>1, <2>2
  <1> QED
    BY <1>5, <1>7, <1>8

\* What the writer of a record knows about it.
LEMMA MineFact ==
    ASSUME IInv, NEW t \in Threads, log[t].pc \in {"mark", "fixed", "payload", "commit"}
    PROVE  Mine(t) \in Rec /\ (lapped = {} => Progress(t, Mine(t)))
  <1>1. t \in Writing(log[t].slot)
    BY DEF Writing
  <1> QED
    BY <1>1, LogFact DEF IInv, WriterInv, Mine

LEMMA MarkInv ==
    ASSUME IInv, NEW t \in Threads, Mark(t)
    PROVE  IInv'
  <1> DEFINE r == Marked(Mine(t))
  <1>1. /\ log[t].pc = "mark" /\ Put(t, r) /\ Goto(t, "fixed")
        /\ UNCHANGED <<m_seq, m_idx, dump, line, history>>
    BY DEF Mark, At
  <1>2. Mine(t) \in Rec
    BY <1>1, MineFact
  <1>3. r \in Rec /\ r.commit = 0 /\ r.owner = Mine(t).owner
    BY <1>2 DEF Marked, Rec
  <1> HIDE DEF r
  <1> QED
    BY <1>1, <1>3, PutInv

LEMMA WriteFixedInv ==
    ASSUME IInv, NEW t \in Threads, WriteFixed(t)
    PROVE  IInv'
  <1> DEFINE r == [Mine(t) EXCEPT !.fixed = log[t].event]
  <1>1. /\ log[t].pc = "fixed" /\ Put(t, r) /\ Goto(t, "payload")
        /\ UNCHANGED <<m_seq, m_idx, dump, line, history>>
    BY DEF WriteFixed, At
  <1>2. Mine(t) \in Rec /\ (lapped = {} => Mine(t).commit = 0) /\ log[t].event \in Nat
    BY <1>1, MineFact, LogFact DEF Progress, IInv
  <1>3. r \in Rec /\ r.commit = Mine(t).commit /\ r.owner = Mine(t).owner /\ r.fixed = log[t].event
    BY <1>2 DEF Rec
  <1> HIDE DEF r
  <1> QED
    BY <1>1, <1>2, <1>3, PutInv

LEMMA WritePayloadInv ==
    ASSUME IInv, NEW t \in Threads, WritePayload(t)
    PROVE  IInv'
  <1> DEFINE e == log[t].event
             r == IF kind[e] = "payload" THEN [Mine(t) EXCEPT !.hasPayload = TRUE, !.payload = e]
                  ELSE WithoutPayload(Mine(t))
  <1>1. /\ log[t].pc = "payload" /\ Put(t, r) /\ Goto(t, "commit")
        /\ UNCHANGED <<m_seq, m_idx, dump, line, history>>
    BY DEF WritePayload, At
  <1>2. /\ Mine(t) \in Rec /\ e \in Nat
        /\ lapped = {} => Mine(t).commit = 0 /\ Mine(t).fixed = e
    BY <1>1, MineFact, LogFact DEF Progress, IInv
  <1>3. /\ r \in Rec /\ r.commit = Mine(t).commit /\ r.owner = Mine(t).owner /\ r.fixed = Mine(t).fixed
        /\ PayloadOf(r, e)
    <2>1. CASE kind[e] = "payload"
      BY <1>2, <2>1 DEF Rec, PayloadOf
    <2>2. CASE kind[e] # "payload"
      BY <1>2, <2>2 DEF Rec, PayloadOf, WithoutPayload
    <2> QED
      BY <2>1, <2>2
  <1> HIDE DEF r
  <1> QED
    BY <1>1, <1>2, <1>3, PutInv

LEMMA CommitInv ==
    ASSUME IInv, NEW t \in Threads, Commit(t)
    PROVE  IInv'
  <1> DEFINE r == [Mine(t) EXCEPT !.commit = log[t].seq, !.owner = log[t].event]
  <1>1. /\ log[t].pc = "commit" /\ Put(t, r) /\ Goto(t, "idle")
        /\ UNCHANGED <<m_seq, m_idx, dump, line, history>>
    BY DEF Commit, At
  <1>2. /\ Mine(t) \in Rec /\ log[t].event \in Nat /\ log[t].seq \in Nat
        /\ lapped = {} => Mine(t).fixed = log[t].event /\ PayloadOf(Mine(t), log[t].event)
    BY <1>1, MineFact, LogFact DEF Progress, IInv
  <1>3. /\ r \in Rec /\ r.owner = log[t].event /\ r.fixed = Mine(t).fixed
        /\ r.hasPayload = Mine(t).hasPayload /\ r.payload = Mine(t).payload
    BY <1>2 DEF Rec
  <1> HIDE DEF r
  <1>4. lapped = {} => Intact(r)
    BY <1>2, <1>3 DEF Intact, PayloadOf
  <1> QED
    BY <1>1, <1>3, <1>4, PutInv

-----------------------------------------------------------------------------
(* write_evtlog changes no record. *)

\* The copy and the line are of events that were committed.
LEMMA DumpInv ==
    ASSUME IInv, UNCHANGED <<m_seq, m_idx, rec, log, history>>,
           dump' \in [pc : {"idle", "load", "fixed", "payload", "check"}, slot : Slots, copy : Rec],
           line' \in Rec,
           dump'.copy.owner \in {dump.copy.owner} \union {rec[s].owner : s \in Slots},
           line'.owner \in {line.owner, dump.copy.owner, Nothing}
    PROVE  IInv'
  <1> USE DEF IInv
  <1>1. UNCHANGED <<m_seq, m_idx, rec, log, kind, newest, lapped>> /\ Events' = Events /\ Count' = Count
    BY DEF history, Events, Count
  <1>2. TypeInv'
    BY <1>1 DEF TypeInv
  <1>3. OwnerInv'
    BY <1>1 DEF OwnerInv, Active
  <1>4. WriterInv'
    BY <1>1 DEF WriterInv, Writing, Progress, PayloadOf, Intact
  <1> QED
    BY <1>2, <1>3, <1>4

DumpStep == StartDump \/ Load \/ CopyFixed \/ CopyPayload \/ WriteLine

LEMMA NextRecordFact ==
    ASSUME TypeInv, NextRecord
    PROVE  /\ dump' \in [pc : {"idle", "load", "fixed", "payload", "check"}, slot : Slots, copy : Rec]
           /\ dump'.pc \in {"load", "idle"} /\ dump'.copy = dump.copy
  BY SlotFact DEF TypeInv, NextRecord, DumpGoto

LEMMA DumpStepFact ==
    ASSUME IInv, DumpStep
    PROVE  /\ UNCHANGED <<m_seq, m_idx, rec, log, history>>
           /\ dump' \in [pc : {"idle", "load", "fixed", "payload", "check"}, slot : Slots, copy : Rec]
           /\ line' \in Rec
           /\ dump'.copy.owner \in {dump.copy.owner} \union {rec[s].owner : s \in Slots}
           /\ line'.owner \in {line.owner, dump.copy.owner, Nothing}
  <1> USE DEF IInv
  <1>0. /\ dump \in [pc : {"idle", "load", "fixed", "payload", "check"}, slot : Slots, copy : Rec]
        /\ line \in Rec /\ dump.slot \in Slots /\ dump.copy \in Rec /\ rec[dump.slot] \in Rec
    BY DEF TypeInv
  <1>1. CASE StartDump
    BY <1>0, <1>1, SlotFact, BlankFact DEF StartDump, DumpGoto
  <1>2. CASE Load
    <2>1. UNCHANGED <<m_seq, m_idx, rec, log, line, history>>
      BY <1>2 DEF Load
    <2>2. CASE NextRecord
      BY <1>0, <2>1, <2>2, NextRecordFact
    <2>3. CASE dump' = [dump EXCEPT !.pc = "fixed", !.copy.commit = rec[dump.slot].commit,
                                    !.copy.owner = rec[dump.slot].owner]
      BY <1>0, <2>1, <2>3 DEF Rec
    <2> QED
      BY <1>2, <2>2, <2>3 DEF Load
  <1>3. CASE CopyFixed
    BY <1>0, <1>3 DEF CopyFixed, Rec
  <1>4. CASE CopyPayload
    BY <1>0, <1>4 DEF CopyPayload, Rec
  <1>5. CASE WriteLine
    BY <1>0, <1>5, NextRecordFact DEF WriteLine
  <1> QED
    BY <1>1, <1>2, <1>3, <1>4, <1>5 DEF DumpStep

LEMMA NextInv == IInv /\ [Next]_vars => IInv'
  <1> SUFFICES ASSUME IInv, [Next]_vars PROVE IInv'
    OBVIOUS
  <1>1. ASSUME NEW t \in Threads, NEW k \in Kinds, TakeSeq(t, k) PROVE IInv'
    BY <1>1, TakeSeqInv
  <1>2. ASSUME NEW t \in Threads,
               TakeIndex(t) \/ Mark(t) \/ WriteFixed(t) \/ WritePayload(t) \/ Commit(t)
        PROVE  IInv'
    BY <1>2, TakeIndexInv, MarkInv, WriteFixedInv, WritePayloadInv, CommitInv
  <1>3. CASE DumpStep
    BY <1>3, DumpStepFact, DumpInv
  <1>4. CASE UNCHANGED vars
    <2>1. UNCHANGED <<m_seq, m_idx, rec, log, dump, line, kind, newest, lapped>>
      BY <1>4 DEF vars
    <2> QED
      BY <2>1 DEF IInv, TypeInv, OwnerInv, WriterInv, Active, Writing, Progress, PayloadOf, Intact, Count, Events
  <1> QED
    BY <1>1, <1>2, <1>3, <1>4 DEF Next, DumpStep

-----------------------------------------------------------------------------
(* Sequence numbers. *)

\* Nobody has touched the record since its last commit.
Settled(s) == rec[s].owner # Nothing /\ \A t \in Writing(s) : log[t].pc = "mark"

\* The numbers follow the events, however often they come round.
NumberInv ==
    /\ m_seq = Seq32(Count + 1)
    /\ \A t \in Threads : Active(t) => log[t].seq = Seq32(log[t].event)
    /\ \A s \in Slots : Settled(s) => rec[s].commit = Seq32(rec[s].owner)

NInv == IInv /\ NumberInv

LEMMA DivMod ==
    ASSUME NEW a \in Nat, NEW b \in Nat \ {0}
    PROVE  a % b \in 0 .. (b - 1) /\ a \div b \in Nat /\ a = b * (a \div b) + (a % b)
  BY Z3

LEMMA ModUnique ==
    ASSUME NEW a \in Nat, NEW b \in Nat \ {0}, NEW q \in Nat, NEW r \in 0 .. (b - 1), a = b * q + r
    PROVE  a % b = r
  BY Z3

LEMMA SeqNext ==
    ASSUME NEW n \in Nat
    PROVE  (Seq32(n) + 1) % SeqMod = Seq32(n + 1)
  <1>1. PICK m \in Nat \ {0} : m = SeqMod /\ m > 1
    BY EventLogAssumption
  <1>2. PICK r \in 0 .. (m - 1) : r = n % m
    BY DivMod
  <1>3. PICK q \in Nat : n = m * q + r
    BY <1>2, DivMod
  <1>4. CASE r + 1 = m
    <2>1. (r + 1) % m = 0
      BY <1>4
    <2>2. q + 1 \in Nat /\ n + 1 = m * (q + 1) + 0 /\ 0 \in 0 .. (m - 1)
      BY <1>3, <1>4, Z3
    <2>3. n + 1 \in Nat
      OBVIOUS
    <2>4. (n + 1) % m = 0
      BY <2>2, <2>3, ModUnique, Zenon
    <2> QED
      BY <1>1, <1>2, <2>1, <2>4 DEF Seq32
  <1>5. CASE r + 1 < m
    <2>1. (r + 1) % m = r + 1
      BY <1>5
    <2>2. n + 1 = m * q + (r + 1) /\ r + 1 \in 0 .. (m - 1)
      BY <1>3, <1>5, Z3
    <2>3. n + 1 \in Nat
      OBVIOUS
    <2>4. (n + 1) % m = r + 1
      BY <2>2, <2>3, ModUnique, Zenon
    <2> QED
      BY <1>1, <1>2, <2>1, <2>4 DEF Seq32
  <1> QED
    BY <1>4, <1>5

LEMMA InitNumber == Init => NInv
  <1> SUFFICES ASSUME Init PROVE NInv
    OBVIOUS
  <1>1. IInv /\ Count = 0
    BY InitInv, FS_EmptySet DEF Init, Count, Events
  <1>2. 1 % SeqMod = 1
    BY EventLogAssumption
  <1> QED
    BY <1>1, <1>2, BlankFact DEF NInv, NumberInv, Init, Seq32, Active, Settled

LEMMA TakeSeqNumber ==
    ASSUME NInv, NEW t \in Threads, NEW k \in Kinds, TakeSeq(t, k), IInv'
    PROVE  NumberInv'
  <1> USE DEF NInv
  <1>1. PICK e : e = Count + 1
    OBVIOUS
  <1>2. /\ e <= MaxEvents /\ m_seq' = (m_seq + 1) % SeqMod
        /\ log' = [log EXCEPT ![t] = [@ EXCEPT !.pc = "index", !.event = e, !.seq = m_seq]]
        /\ kind' = [i \in Events \union {e} |-> IF i = e THEN k ELSE kind[i]]
        /\ UNCHANGED <<m_idx, rec, dump, line, newest, lapped>>
    BY <1>1 DEF TakeSeq, Count
  <1>3. Count \in Nat /\ Count < MaxEvents /\ MaxEvents \in Nat /\ Events = 1 .. Count
    BY <1>1, <1>2, EventLogAssumption DEF IInv, TypeInv
  <1>4. Count' = Count + 1
    <2>1. Events' = 1 .. e /\ Events' = 1 .. Count' /\ Count' \in Nat
      <3>1. Events' = Events \union {e}
        BY <1>2 DEF Events
      <3>2. Events' = 1 .. Count' /\ Count' \in 0 .. MaxEvents
        BY DEF IInv, TypeInv
      <3>3. Events \union {e} = 1 .. e
        BY <1>1, <1>3
      <3> QED
        BY <1>3, <3>1, <3>2, <3>3
    <2>2. e \in 1 .. Count' /\ Count' \in 1 .. e
      <3>1. Count' >= 1
        BY <1>1, <1>3, <2>1
      <3> QED
        BY <1>1, <1>3, <2>1, <3>1
    <2> QED
      BY <1>1, <1>3, <2>1, <2>2
  <1>5. m_seq' = Seq32(Count' + 1) /\ m_seq = Seq32(e)
    <2>1. m_seq = Seq32(e) /\ Count' = e /\ e \in Nat
      BY <1>1, <1>3, <1>4 DEF NumberInv
    <2> QED
      BY <1>2, <2>1, SeqNext
  <1>6. /\ log[t].pc = "idle" /\ log'[t].pc = "index" /\ log'[t].seq = m_seq /\ log'[t].event = e
        /\ \A u \in Threads : u # t => log'[u] = log[u]
    <2>1. log[t].pc = "idle"
      BY DEF TakeSeq, At
    <2> QED
      BY <1>2, <2>1 DEF IInv, TypeInv
  <1>7. \A u \in Threads : Active(u)' => log'[u].seq = Seq32(log'[u].event)
    BY <1>5, <1>6 DEF NumberInv, Active
  <1>8. \A s \in Slots : Settled(s)' => Settled(s)
    <2>1. \A s \in Slots : \A u \in Writing(s) : u \in Writing(s)' /\ log'[u] = log[u]
      BY <1>6 DEF Writing
    <2> QED
      BY <1>2, <2>1 DEF Settled
  <1>9. \A s \in Slots : Settled(s)' => rec'[s].commit = Seq32(rec'[s].owner)
    BY <1>2, <1>8 DEF NumberInv
  <1> QED
    BY <1>5, <1>7, <1>9 DEF NumberInv, Seq32

LEMMA TakeIndexNumber ==
    ASSUME NInv, NEW t \in Threads, TakeIndex(t), IInv'
    PROVE  NumberInv'
  <1> USE DEF NInv
  <1>1. /\ log[t].pc = "index" /\ UNCHANGED <<m_seq, rec, kind>> /\ Count' = Count
        /\ \E s : log' = [log EXCEPT ![t] = [@ EXCEPT !.pc = "mark", !.slot = s]]
    BY DEF TakeIndex, At, Count, Events
  <1>2. /\ log'[t].event = log[t].event /\ log'[t].seq = log[t].seq
        /\ \A u \in Threads : u # t => log'[u] = log[u]
    <2>1. PICK s : log' = [log EXCEPT ![t] = [@ EXCEPT !.pc = "mark", !.slot = s]]
      BY <1>1
    <2> QED
      BY <2>1 DEF IInv, TypeInv
  <1>3. \A u \in Threads : Active(u)' => log'[u].seq = Seq32(log'[u].event)
    BY <1>1, <1>2 DEF NumberInv, Active
  <1>4. \A s \in Slots : Settled(s)' => Settled(s)
    <2>1. \A s \in Slots : \A u \in Writing(s) : u \in Writing(s)' /\ log'[u] = log[u]
      BY <1>1, <1>2 DEF Writing
    <2> QED
      BY <1>1, <2>1 DEF Settled
  <1>5. \A s \in Slots : Settled(s)' => rec'[s].commit = Seq32(rec'[s].owner)
    BY <1>1, <1>4 DEF NumberInv
  <1> QED
    BY <1>1, <1>3, <1>5 DEF NumberInv, Seq32

\* A thread in a record either stays there, past the mark, or commits.
LEMMA PutNumber ==
    ASSUME NInv, NEW t \in Threads, log[t].pc \in {"mark", "fixed", "payload", "commit"},
           NEW r, NEW pc \in {"fixed", "payload", "commit", "idle"}, Put(t, r), Goto(t, pc),
           UNCHANGED <<m_seq, m_idx, dump, line, history>>, IInv',
           pc = "idle" => r.commit = log[t].seq /\ r.owner = log[t].event
    PROVE  NumberInv'
  <1> USE DEF NInv
  <1>1. PICK s \in Slots : s = log[t].slot
    BY LogFact DEF IInv
  <1>2. /\ rec'[s] = r /\ \A q \in Slots : q # s => rec'[q] = rec[q]
    BY <1>1 DEF Put, IInv, TypeInv
  <1>3. /\ log'[t].pc = pc /\ log'[t].slot = s
        /\ log'[t].event = log[t].event /\ log'[t].seq = log[t].seq
        /\ \A u \in Threads : u # t => log'[u] = log[u]
    BY <1>1 DEF Goto, IInv, TypeInv
  <1>4. UNCHANGED <<m_seq, kind>> /\ Count' = Count
    BY DEF history, Count, Events
  <1>5. \A u \in Threads : Active(u)' => log'[u].seq = Seq32(log'[u].event)
    BY <1>3 DEF NumberInv, Active
  <1>6. ASSUME NEW q \in Slots, Settled(q)' PROVE rec'[q].commit = Seq32(rec'[q].owner)
    <2>1. CASE q # s
      <3>1. \A u \in Writing(q) : u \in Writing(q)' /\ log'[u] = log[u]
        BY <1>1, <1>3, <2>1 DEF Writing
      <3>2. Settled(q)
        BY <1>2, <1>6, <2>1, <3>1 DEF Settled
      <3> QED
        BY <1>2, <2>1, <3>2 DEF NumberInv
    <2>2. CASE q = s /\ pc # "idle"
      <3>1. t \in Writing(s)' /\ log'[t].pc # "mark"
        BY <1>3, <2>2 DEF Writing
      <3> QED
        BY <1>6, <2>2, <3>1 DEF Settled
    <2>3. CASE q = s /\ pc = "idle"
      <3>1. log[t].seq = Seq32(log[t].event)
        BY DEF NumberInv, Active
      <3> QED
        BY <1>2, <2>3, <3>1
    <2> QED
      BY <2>1, <2>2, <2>3
  <1> QED
    BY <1>4, <1>5, <1>6 DEF NumberInv, Seq32

LEMMA WriteNumber ==
    ASSUME NInv, NEW t \in Threads, Mark(t) \/ WriteFixed(t) \/ WritePayload(t) \/ Commit(t), IInv'
    PROVE  NumberInv'
  <1>1. CASE Mark(t)
    BY <1>1, PutNumber DEF Mark, At
  <1>2. CASE WriteFixed(t)
    BY <1>2, PutNumber DEF WriteFixed, At
  <1>3. CASE WritePayload(t)
    BY <1>3, PutNumber DEF WritePayload, At
  <1>4. CASE Commit(t)
    <2> DEFINE r == [Mine(t) EXCEPT !.commit = log[t].seq, !.owner = log[t].event]
    <2>1. /\ Put(t, r) /\ Goto(t, "idle") /\ log[t].pc = "commit"
          /\ UNCHANGED <<m_seq, m_idx, dump, line, history>>
      BY <1>4 DEF Commit, At
    <2>2. r.commit = log[t].seq /\ r.owner = log[t].event
      BY LogFact DEF NInv, IInv, Rec
    <2> HIDE DEF r
    <2> QED
      BY <2>1, <2>2, PutNumber
  <1> QED
    BY <1>1, <1>2, <1>3, <1>4

LEMMA NextNumber == NInv /\ [Next]_vars => NInv'
  <1> SUFFICES ASSUME NInv, [Next]_vars PROVE NInv'
    OBVIOUS
  <1>1. IInv'
    BY NextInv DEF NInv
  <1>2. CASE DumpStep
    <2>1. UNCHANGED <<m_seq, rec, log, kind>>
      BY <1>2, DumpStepFact DEF NInv, history
    <2> QED
      BY <1>1, <2>1 DEF NInv, NumberInv, Seq32, Active, Settled, Writing, Count, Events
  <1>3. CASE UNCHANGED vars
    <2>1. UNCHANGED <<m_seq, rec, log, kind>>
      BY <1>3 DEF vars
    <2> QED
      BY <1>1, <2>1 DEF NInv, NumberInv, Seq32, Active, Settled, Writing, Count, Events
  <1> QED
    BY <1>1, <1>2, <1>3, TakeSeqNumber, TakeIndexNumber, WriteNumber DEF Next, DumpStep, NInv

-----------------------------------------------------------------------------
(* The copy. *)

\* A record that shows a number shows its owner's.
SeqInv ==
    \A s \in Slots : rec[s].commit # 0 => rec[s].owner # Nothing /\ rec[s].commit = Seq32(rec[s].owner)

\* What was copied is of the event whose number was read, unless the record
\* shows another number by now.
CopyInv ==
    dump.pc \in {"fixed", "payload", "check"} =>
        /\ dump.copy.commit # 0 /\ dump.copy.owner # Nothing
        /\ dump.copy.commit = Seq32(dump.copy.owner)
        /\ lapped = {} /\ rec[dump.slot].commit = dump.copy.commit =>
              /\ dump.pc \in {"payload", "check"} => dump.copy.fixed = dump.copy.owner
              /\ dump.pc = "check" => PayloadOf(dump.copy, dump.copy.owner)

CInv == NInv /\ SeqInv /\ CopyInv /\ LinesIntact

LEMMA SeqUnique ==
    ASSUME MaxEvents <= SeqMod, NEW a \in 1 .. MaxEvents, NEW b \in 1 .. MaxEvents, Seq32(a) = Seq32(b)
    PROVE  a = b
  <1>1. ASSUME NEW e \in 1 .. MaxEvents PROVE Seq32(e) = IF e = SeqMod THEN 0 ELSE e
    <2>1. SeqMod \in Nat \ {0} /\ e \in Nat /\ e <= SeqMod /\ e > 0
      BY EventLogAssumption
    <2>2. CASE e = SeqMod
      BY <2>1, <2>2 DEF Seq32
    <2>3. CASE e < SeqMod
      BY <2>1, <2>3 DEF Seq32
    <2> QED
      BY <2>1, <2>2, <2>3
  <1> QED
    BY <1>1, EventLogAssumption

LEMMA InitCopy == Init => CInv
  <1> SUFFICES ASSUME Init PROVE CInv
    OBVIOUS
  <1>1. NInv
    BY InitNumber
  <1>3. SeqInv
    BY BlankFact DEF SeqInv, Init
  <1>4. CopyInv
    BY DEF CopyInv, Init
  <1>5. LinesIntact
    BY BlankFact DEF LinesIntact, Init, Intact
  <1> QED
    BY <1>1, <1>3, <1>4, <1>5 DEF CInv

\* A record that shows a number is intact: its writer has not marked it yet.
LEMMA ShownIntact ==
    ASSUME IInv, lapped = {}, NEW s \in Slots, rec[s].commit # 0
    PROVE  Intact(rec[s])
  <1>1. ASSUME NEW t \in Writing(s) PROVE log[t].pc = "mark"
    <2>1. Progress(t, rec[s]) /\ log[t].pc \in {"mark", "fixed", "payload", "commit"}
      BY DEF IInv, WriterInv, Writing
    <2> QED
      BY <2>1 DEF Progress
  <1> QED
    BY <1>1 DEF IInv, WriterInv

\* The line and the copy stay what they were when the events that exist do.
LEMMA KindStays ==
    ASSUME IInv, CopyInv, LinesIntact, UNCHANGED <<dump, line, rec>>, lapped \subseteq lapped',
           \A e \in Events : kind'[e] = kind[e]
    PROVE  CopyInv' /\ LinesIntact'
  <1>1. LinesIntact'
    <2> SUFFICES ASSUME lapped' = {}, line.owner # Nothing PROVE Intact(line)'
      BY DEF LinesIntact, Intact
    <2>1. Intact(line) /\ kind'[line.owner] = kind[line.owner]
      BY DEF LinesIntact, IInv, OwnerInv
    <2> QED
      BY <2>1 DEF Intact
  <1>2. CopyInv'
    <2> SUFFICES ASSUME dump.pc \in {"fixed", "payload", "check"}
                 PROVE  /\ dump.copy.commit # 0 /\ dump.copy.owner # Nothing
                        /\ dump.copy.commit = Seq32(dump.copy.owner)
                        /\ lapped' = {} /\ rec[dump.slot].commit = dump.copy.commit =>
                              /\ dump.pc \in {"payload", "check"} => dump.copy.fixed = dump.copy.owner
                              /\ dump.pc = "check" => PayloadOf(dump.copy, dump.copy.owner)'
      BY DEF CopyInv, Seq32
    <2>1. dump.copy.owner # Nothing /\ dump.copy.owner \in Events
      BY DEF CopyInv, IInv, OwnerInv
    <2>2. PayloadOf(dump.copy, dump.copy.owner) => PayloadOf(dump.copy, dump.copy.owner)'
      BY <2>1 DEF PayloadOf
    <2> QED
      BY <2>2 DEF CopyInv
  <1> QED
    BY <1>1, <1>2

LEMMA TakeSeqCopy ==
    ASSUME CInv, NEW t \in Threads, NEW k \in Kinds, TakeSeq(t, k), NInv'
    PROVE  CInv'
  <1> USE DEF CInv, NInv
  <1>1. PICK e : e = Count + 1
    OBVIOUS
  <1>2. /\ kind' = [i \in Events \union {e} |-> IF i = e THEN k ELSE kind[i]]
        /\ UNCHANGED <<rec, dump, line, lapped>>
    BY <1>1 DEF TakeSeq, Count
  <1>3. SeqInv'
    BY <1>2 DEF SeqInv, Seq32
  <1>4. \A i \in Events : kind'[i] = kind[i]
    BY <1>1, <1>2 DEF IInv, TypeInv
  <1> QED
    BY <1>2, <1>3, <1>4, KindStays

LEMMA TakeIndexCopy ==
    ASSUME CInv, NEW t \in Threads, TakeIndex(t), NInv'
    PROVE  CInv'
  <1> USE DEF CInv, NInv
  <1>1. lapped \subseteq lapped' /\ UNCHANGED <<rec, dump, line, kind>>
    BY DEF TakeIndex
  <1>3. SeqInv'
    BY <1>1 DEF SeqInv, Seq32
  <1>4. CopyInv' /\ LinesIntact'
    BY <1>1, KindStays
  <1> QED
    BY <1>3, <1>4

\* A thread that stores r in its record: only a commit shows a number, and it
\* is never the number that the copy was made under.
LEMMA PutCopy ==
    ASSUME CInv, NEW t \in Threads, Active(t), NEW r \in Rec, NEW pc, Put(t, r), Goto(t, pc),
           UNCHANGED <<m_seq, m_idx, dump, line, history>>, NInv',
           r.commit # 0 => r.owner # Nothing /\ r.commit = Seq32(r.owner),
           lapped = {} => r.commit = 0 \/ r.commit # dump.copy.commit
                            \/ dump.pc \notin {"fixed", "payload", "check"}
    PROVE  CInv'
  <1> USE DEF CInv, NInv
  <1>1. PICK s \in Slots : s = log[t].slot
    BY LogFact DEF IInv
  <1>2. rec' = [rec EXCEPT ![s] = r] /\ log' = [log EXCEPT ![t].pc = pc]
    BY <1>1 DEF Put, Goto
  <1>3. UNCHANGED <<m_seq, m_idx, dump, line, kind, newest, lapped>> /\ Count' = Count
    BY DEF history, Count, Events
  <1>4. /\ rec'[s] = r /\ \A q \in Slots : q # s => rec'[q] = rec[q]
        /\ \A u \in Threads : (Active(u)' => Active(u)) /\ log'[u].event = log[u].event /\ log'[u].seq = log[u].seq
    BY <1>2, SMTT(60) DEF IInv, TypeInv, Active
  <1>5. SeqInv'
    <2>1. \A q \in Slots : rec'[q].commit # 0 =>
             rec'[q].owner # Nothing /\ rec'[q].commit = Seq32(rec'[q].owner)
      BY <1>4 DEF SeqInv
    <2> QED
      BY <2>1 DEF SeqInv, Seq32
  <1>6. LinesIntact'
    BY <1>3 DEF LinesIntact, Intact
  <1>7. CopyInv'
    <2>1. dump.slot \in Slots
      BY DEF IInv, TypeInv
    <2>2. CASE dump.slot = s
      BY <1>3, <1>4, <2>2 DEF CopyInv, Seq32
    <2>3. CASE dump.slot # s
      <3>1. rec'[dump.slot] = rec[dump.slot]
        BY <1>4, <2>1, <2>3
      <3> QED
        BY <1>3, <3>1 DEF CopyInv, PayloadOf, Seq32
    <2> QED
      BY <2>2, <2>3
  <1> QED
    BY <1>5, <1>6, <1>7

LEMMA WriteCopy ==
    ASSUME MaxEvents <= SeqMod, CInv, NEW t \in Threads,
           Mark(t) \/ WriteFixed(t) \/ WritePayload(t) \/ Commit(t), NInv'
    PROVE  CInv'
  <1> USE DEF CInv, NInv
  <1>0. /\ UNCHANGED <<m_seq, m_idx, dump, line, history>>
        /\ log[t].pc \in {"mark", "fixed", "payload", "commit"} /\ Active(t)
    BY DEF Mark, WriteFixed, WritePayload, Commit, At, Active
  <1>1. /\ Mine(t) \in Rec /\ log[t].event \in Nat /\ log[t].seq \in Nat
        /\ Mine(t).commit # 0 => Mine(t).owner # Nothing /\ Mine(t).commit = Seq32(Mine(t).owner)
        /\ lapped = {} => Progress(t, Mine(t))
    BY <1>0, MineFact, LogFact DEF SeqInv, Mine, IInv
  <1>2. CASE Mark(t)
    <2> DEFINE r == Marked(Mine(t))
    <2>1. Put(t, r) /\ Goto(t, "fixed")
      BY <1>2 DEF Mark
    <2>2. r \in Rec /\ r.commit = 0
      BY <1>1 DEF Marked, Rec
    <2> HIDE DEF r
    <2> QED
      BY <1>0, <2>1, <2>2, PutCopy
  <1>3. CASE WriteFixed(t)
    <2> DEFINE r == [Mine(t) EXCEPT !.fixed = log[t].event]
    <2>1. Put(t, r) /\ Goto(t, "payload") /\ (lapped = {} => Mine(t).commit = 0)
      BY <1>1, <1>3 DEF WriteFixed, At, Progress
    <2>2. r \in Rec /\ r.commit = Mine(t).commit /\ r.owner = Mine(t).owner
      BY <1>1 DEF Rec
    <2> HIDE DEF r
    <2> QED
      BY <1>0, <1>1, <2>1, <2>2, PutCopy
  <1>4. CASE WritePayload(t)
    <2> DEFINE e == log[t].event
               r == IF kind[e] = "payload" THEN [Mine(t) EXCEPT !.hasPayload = TRUE, !.payload = e]
                    ELSE WithoutPayload(Mine(t))
    <2>1. Put(t, r) /\ Goto(t, "commit") /\ (lapped = {} => Mine(t).commit = 0)
      BY <1>1, <1>4 DEF WritePayload, At, Progress
    <2>2. r \in Rec /\ r.commit = Mine(t).commit /\ r.owner = Mine(t).owner
      BY <1>1 DEF Rec, WithoutPayload
    <2> HIDE DEF r
    <2> QED
      BY <1>0, <1>1, <2>1, <2>2, PutCopy
  <1>5. CASE Commit(t)
    <2> DEFINE r == [Mine(t) EXCEPT !.commit = log[t].seq, !.owner = log[t].event]
    <2>1. Put(t, r) /\ Goto(t, "idle")
      BY <1>5 DEF Commit
    <2>2. r \in Rec /\ r.commit = log[t].seq /\ r.owner = log[t].event
      BY <1>1 DEF Rec
    <2> HIDE DEF r
    <2>3. log[t].seq = Seq32(log[t].event) /\ log[t].event \in 1 .. MaxEvents /\ log[t].event # Nothing
      BY <1>0, EventLogAssumption, SMTT(60) DEF NumberInv, IInv, TypeInv, OwnerInv, Nothing
    <2>4. ASSUME r.commit = dump.copy.commit, dump.pc \in {"fixed", "payload", "check"} PROVE FALSE
      <3>1. dump.copy.owner \in 1 .. MaxEvents /\ Seq32(dump.copy.owner) = Seq32(log[t].event)
        BY <2>2, <2>3, <2>4, EventLogAssumption, SMTT(60) DEF CopyInv, IInv, TypeInv, OwnerInv
      <3>2. dump.copy.owner = log[t].event
        BY <2>3, <3>1, SeqUnique
      <3> QED
        BY <1>0, <3>2 DEF IInv, OwnerInv
    <2> QED
      BY <1>0, <2>1, <2>2, <2>3, <2>4, PutCopy
  <1> QED
    BY <1>2, <1>3, <1>4, <1>5

LEMMA DumpCopy ==
    ASSUME MaxEvents <= SeqMod, CInv, DumpStep, NInv'
    PROVE  CInv'
  <1> USE DEF CInv, NInv
  <1>1. UNCHANGED <<m_seq, m_idx, rec, log, kind, newest, lapped>> /\ Count' = Count
    BY DumpStepFact DEF history, Count, Events
  <1>2. SeqInv'
    BY <1>1 DEF SeqInv, Active, Seq32
  <1>3. /\ dump \in [pc : {"idle", "load", "fixed", "payload", "check"}, slot : Slots, copy : Rec]
        /\ dump.slot \in Slots /\ dump.copy \in Rec /\ rec[dump.slot] \in Rec
    BY DEF IInv, TypeInv
  <1>4. CASE StartDump
    <2>1. line' = Blank /\ dump'.pc = "load"
      BY <1>3, <1>4 DEF StartDump, DumpGoto
    <2> QED
      BY <1>2, <2>1, BlankFact DEF CopyInv, LinesIntact, Intact
  <1>5. CASE Load
    <2>1. line' = line
      BY <1>5 DEF Load
    <2>2. LinesIntact'
      BY <1>1, <2>1 DEF LinesIntact, Intact
    <2>3. CASE NextRecord
      BY <1>2, <2>2, <2>3, NextRecordFact DEF CopyInv, IInv
    <2>4. CASE rec[dump.slot].commit # 0
               /\ dump' = [dump EXCEPT !.pc = "fixed", !.copy.commit = rec[dump.slot].commit,
                                       !.copy.owner = rec[dump.slot].owner]
      <3>1. /\ dump'.pc = "fixed" /\ dump'.copy.commit = rec[dump.slot].commit
            /\ dump'.copy.owner = rec[dump.slot].owner
        BY <1>3, <2>4 DEF Rec
      <3>2. rec[dump.slot].owner # Nothing /\ rec[dump.slot].commit = Seq32(rec[dump.slot].owner)
        BY <1>3, <2>4 DEF SeqInv
      <3> QED
        BY <1>2, <2>2, <2>4, <3>1, <3>2 DEF CopyInv, Seq32
    <2> QED
      BY <1>5, <2>3, <2>4 DEF Load
  \* The record still shows the number: it is intact and of the same event.
  <1>6. ASSUME dump.pc \in {"fixed", "payload", "check"}, lapped = {},
               rec[dump.slot].commit = dump.copy.commit
        PROVE  /\ rec[dump.slot].owner = dump.copy.owner /\ dump.copy.owner # Nothing
               /\ rec[dump.slot].fixed = dump.copy.owner
               /\ PayloadOf(rec[dump.slot], dump.copy.owner)
    <2>1. Intact(rec[dump.slot]) /\ rec[dump.slot].owner # Nothing
      BY <1>3, <1>6, ShownIntact DEF CopyInv, SeqInv
    <2>2. rec[dump.slot].owner = dump.copy.owner
      <3>1. rec[dump.slot].owner \in 1 .. MaxEvents /\ dump.copy.owner \in 1 .. MaxEvents
        BY <1>3, <1>6, <2>1, EventLogAssumption DEF CopyInv, IInv, TypeInv, OwnerInv
      <3>2. Seq32(rec[dump.slot].owner) = Seq32(dump.copy.owner)
        BY <1>3, <1>6 DEF CopyInv, SeqInv
      <3> QED
        BY <3>1, <3>2, SeqUnique
    <2> QED
      BY <2>1, <2>2 DEF Intact, PayloadOf
  <1>7. CASE CopyFixed
    <2>1. /\ dump'.pc = "payload" /\ dump'.copy.fixed = rec[dump.slot].fixed /\ dump'.slot = dump.slot
          /\ dump'.copy.commit = dump.copy.commit /\ dump'.copy.owner = dump.copy.owner
          /\ line' = line /\ dump.pc = "fixed"
      BY <1>3, <1>7 DEF CopyFixed, Rec
    <2>2. LinesIntact'
      BY <1>1, <2>1 DEF LinesIntact, Intact
    <2> QED
      BY <1>1, <1>2, <1>6, <2>1, <2>2 DEF CopyInv, Seq32
  <1>8. CASE CopyPayload
    <2>1. /\ dump'.pc = "check" /\ dump'.copy.fixed = dump.copy.fixed /\ dump'.slot = dump.slot
          /\ dump'.copy.commit = dump.copy.commit /\ dump'.copy.owner = dump.copy.owner
          /\ dump'.copy.hasPayload = rec[dump.slot].hasPayload
          /\ dump'.copy.payload = rec[dump.slot].payload
          /\ line' = line /\ dump.pc = "payload"
      BY <1>3, <1>8 DEF CopyPayload, Rec
    <2>2. LinesIntact'
      BY <1>1, <2>1 DEF LinesIntact, Intact
    <2>3. PayloadOf(rec[dump.slot], dump.copy.owner) => PayloadOf(dump.copy, dump.copy.owner)'
      BY <1>1, <2>1 DEF PayloadOf
    <2> QED
      BY <1>1, <1>2, <1>6, <2>1, <2>2, <2>3 DEF CopyInv, Seq32
  <1>9. CASE WriteLine
    <2>1. /\ dump.pc = "check" /\ NextRecord
          /\ line' = IF dump.copy.commit # rec[dump.slot].commit THEN line ELSE dump.copy
      BY <1>9 DEF WriteLine, Changed
    <2>2. LinesIntact'
      <3> SUFFICES ASSUME lapped = {} PROVE Intact(line)'
        BY <1>1 DEF LinesIntact
      <3>1. CASE line' = line
        BY <1>1, <3>1 DEF LinesIntact, Intact
      <3>2. CASE line' = dump.copy /\ dump.copy.commit = rec[dump.slot].commit
        <4>1. dump.copy.fixed = dump.copy.owner /\ PayloadOf(dump.copy, dump.copy.owner)
          BY <2>1, <3>2 DEF CopyInv
        <4> QED
          BY <1>1, <3>2, <4>1 DEF Intact, PayloadOf
      <3> QED
        BY <2>1, <3>1, <3>2
    <2> QED
      BY <1>2, <2>1, <2>2, NextRecordFact DEF CopyInv, IInv
  <1> QED
    BY <1>4, <1>5, <1>7, <1>8, <1>9 DEF DumpStep

LEMMA NextCopy == MaxEvents <= SeqMod /\ CInv /\ [Next]_vars => CInv'
  <1> SUFFICES ASSUME MaxEvents <= SeqMod, CInv, [Next]_vars PROVE CInv'
    OBVIOUS
  <1>1. NInv'
    BY NextNumber DEF CInv
  <1>2. CASE UNCHANGED vars
    <2>1. UNCHANGED <<m_seq, m_idx, rec, log, dump, line, kind, newest, lapped>>
      BY <1>2 DEF vars
    <2> QED
      BY <1>1, <2>1 DEF CInv, SeqInv, CopyInv, LinesIntact, Intact, PayloadOf, Seq32, Active, Count, Events
  <1> QED
    BY <1>1, <1>2, TakeSeqCopy, TakeIndexCopy, WriteCopy, DumpCopy DEF Next, DumpStep

-----------------------------------------------------------------------------
(* The theorems. *)

\* The inductive invariant of the threads that log.
THEOREM LogInvariant == Spec => []NInv
  <1>1. Init => NInv
    BY InitNumber
  <1>2. NInv /\ [Next]_vars => NInv'
    BY NextNumber
  <1> QED
    BY <1>1, <1>2, PTL DEF Spec

\* A record that nobody is writing holds, complete, the event that claimed it
\* last and shows that event's number, for any number of threads and events and
\* however often m_seq comes round, while no thread has lapped another inside a
\* record.
THEOREM NewestIsKept == Spec => []NewestKept
  <1>1. NInv => NewestKept
    BY DEF NInv, IInv, WriterInv, NumberInv, Settled, NewestKept
  <1> QED
    BY <1>1, LogInvariant, PTL

\* write_evtlog, which copies without a lock and only compares the sequence
\* number before and after, writes no mixture of two events, while no thread
\* has lapped another inside a record and the 32 bits of the number suffice for
\* the events.  (When they do not, a record may show the same number again.)
THEOREM WholeLines ==
    ASSUME MaxEvents <= SeqMod
    PROVE  Spec => []LinesIntact
  <1>1. Init => CInv
    BY InitCopy
  <1>2. CInv /\ [Next]_vars => CInv'
    BY NextCopy
  <1>3. CInv => LinesIntact
    BY DEF CInv
  <1> QED
    BY <1>1, <1>2, <1>3, PTL DEF Spec
=============================================================================
