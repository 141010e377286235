------------------------ MODULE RecvDeliveryProofs ------------------------
(***************************************************************************)
(* What a receive handle promises its application, for every number of     *)
(* handles, delivering threads, slots and IOSBs: the indices stay inside   *)
(* their arrays, no unread message is overwritten, an IOSB leads to its    *)
(* message, and an idle or closed handle is served at most once more.      *)
(***************************************************************************)
EXTENDS RecvDelivery, SequenceTheorems, TLAPS

AllModes == {"OVERWRITE", "BUFFER_FULL", "EVERY_MESSAGE", "SIGNAL_ALL_WRITE_ALL"}
Places == 0 .. NumIosb - 1

\* The types of what TypeOK leaves out, and the exact type of the IOSBs.
TypeInv ==
    /\ TypeOK
    /\ mode \in [Handles -> AllModes]
    /\ iosb \in [Handles -> [Places -> Iosbs]]
    /\ offset \in [Deliverers -> Nat]
    /\ late \in [Handles -> [Deliverers -> Nat]]

NoRepetition(s) == \A i, j \in 1 .. Len(s) : s[i] = s[j] => i = j

\* A thread between two messages has no subscribers left to serve, one that
\* serves them has begun a message; no handle is listed twice, and only
\* handles that were opened are listed.
ListInv ==
    /\ NoRepetition(route)
    /\ \A h \in Handles : Contains(route, h) => h \in opened
    /\ \A d \in Deliverers :
         /\ dpc[d] = "idle" <=> subs[d] = <<>>
         /\ dpc[d] # "idle" => sent[d] > 0
         /\ NoRepetition(subs[d])
         /\ \A h \in Handles : Contains(subs[d], h) => h \in opened

\* A thread that has written to h since it was idle or closed is not about to
\* do so again: it will see that h is idle, or it has no more h in its list
\* and will find none in the next.
LateRow(h, d) ==
    /\ late[h][d] <= 1
    /\ late[h][d] # 0 =>
         /\ ~(dpc[d] = "write" /\ Head(subs[d]) = h)
         /\ idle[h] \/ (h \in opened /\ ~Contains(route, h) /\ ~Contains(subs[d], h))
LateInv == \A h \in Handles : \A d \in Deliverers : LateRow(h, d)

\* The slot that was written t messages before the one before slot i.
Back(i, t) == IF i > t THEN i - t - 1 ELSE i - t - 1 + Slots

\* The newest message of h but t.
Newest(h, t) == stored[h][Len(stored[h]) - t]

\* Message t from the end, and those stored after it, have no offset.
PlainSince(h, t) == \A u \in 0 .. t : Newest(h, u).off = 0

\* The unread messages lie one after the other before the index, in the buffer
\* in use, and are whole unless they or a later one came with an offset.
WindowRow(h) ==
    /\ Len(stored[h]) <= Slots
    /\ Unread(h) <= Len(stored[h])
    /\ mode[h] \in Keeping => count[h] <= Slots
    /\ h \notin opened => count[h] = 0
    /\ \A t \in 0 .. Unread(h) - 1 :
         /\ Newest(h, t).buf = primary[h]
         /\ Newest(h, t).slot = Back(index[h], t)
         /\ PlainSince(h, t) => Intact(h, Newest(h, t))
WindowInv == \A h \in Handles : WindowRow(h)

\* Message m has been begun, and h is no longer in the list of its thread if it
\* is the current one: it will not be stored for h again.
Done(h, m) ==
    /\ m[2] <= sent[m[1]]
    /\ m[2] = sent[m[1]] => ~Contains(subs[m[1]], h)

\* An IOSB agrees with every stored message that it names.
IosbRow(h) ==
    /\ \A j \in 1 .. Len(stored[h]) : Done(h, stored[h][j].msg)
    /\ \A i \in Places : iosb[h][i] # NoMsg =>
         /\ Done(h, iosb[h][i].msg)
         /\ \A j \in 1 .. Len(stored[h]) :
              iosb[h][i].msg = stored[h][j].msg =>
                iosb[h][i].buf = stored[h][j].buf /\ iosb[h][i].slot = stored[h][j].slot
IosbInv == \A h \in Handles : IosbRow(h)

IInv == TypeInv /\ ListInv /\ LateInv /\ WindowInv /\ IosbInv

-----------------------------------------------------------------------------
(* Sequences *)

\* Taking the head of a list that has no repetitions.
LEMMA TailFacts ==
    ASSUME NEW s \in Seq(Handles), s # <<>>
    PROVE  /\ Head(s) \in Handles /\ Tail(s) \in Seq(Handles) /\ Contains(s, Head(s))
           /\ Len(s) = 1 <=> Tail(s) = <<>>
           /\ \A e : Contains(Tail(s), e) => Contains(s, e)
           /\ NoRepetition(s) => NoRepetition(Tail(s)) /\ ~Contains(Tail(s), Head(s))
<1>1. /\ Head(s) \in Handles /\ Tail(s) \in Seq(Handles)
      /\ Len(Tail(s)) = Len(s) - 1
      /\ \A i \in 1 .. Len(Tail(s)) : Tail(s)[i] = s[i + 1]
  BY HeadTailProperties
<1>2. Len(s) \in Nat /\ Len(s) # 0 /\ Head(s) = s[1]
  BY EmptySeq
<1>3. Contains(s, Head(s))
  BY <1>2 DEF Contains
<1>4. Len(s) = 1 <=> Tail(s) = <<>>
  BY <1>1, <1>2, EmptySeq
<1>5. ASSUME NEW e, Contains(Tail(s), e) PROVE Contains(s, e)
  <2>1. PICK i \in 1 .. Len(Tail(s)) : Tail(s)[i] = e
    BY <1>5 DEF Contains
  <2>2. i + 1 \in 1 .. Len(s) /\ s[i + 1] = e
    BY <1>1, <1>2, <2>1
  <2>3. QED
    BY <2>2 DEF Contains
<1>6. ASSUME NoRepetition(s) PROVE NoRepetition(Tail(s)) /\ ~Contains(Tail(s), Head(s))
  <2>1. \A i \in 1 .. Len(Tail(s)) : i + 1 \in 1 .. Len(s) /\ Tail(s)[i] = s[i + 1]
    BY <1>1, <1>2
  <2>2. NoRepetition(Tail(s))
    <3>1. ASSUME NEW i \in 1 .. Len(Tail(s)), NEW j \in 1 .. Len(Tail(s)),
                 Tail(s)[i] = Tail(s)[j]
          PROVE  i = j
      <4>1. i + 1 = j + 1
        BY <1>6, <2>1, <3>1 DEF NoRepetition
      <4>2. QED
        BY <4>1
    <3>2. QED
      BY <3>1 DEF NoRepetition
  <2>3. ASSUME NEW i \in 1 .. Len(Tail(s)), Tail(s)[i] = Head(s) PROVE FALSE
    <3>1. i + 1 = 1
      BY <1>2, <1>6, <2>1, <2>3 DEF NoRepetition
    <3>2. QED
      BY <3>1
  <2>4. QED
    BY <2>2, <2>3 DEF Contains
<1>7. QED
  BY <1>1, <1>3, <1>4, <1>5, <1>6

\* A handle at the end of a list that does not have it yet.
LEMMA AppendFacts ==
    ASSUME NEW s \in Seq(Handles), NEW h \in Handles
    PROVE  /\ Append(s, h) \in Seq(Handles)
           /\ \A e : Contains(Append(s, h), e) <=> Contains(s, e) \/ e = h
           /\ NoRepetition(s) /\ ~Contains(s, h) => NoRepetition(Append(s, h))
<1>1. /\ Append(s, h) \in Seq(Handles) /\ Len(Append(s, h)) = Len(s) + 1
      /\ \A i \in 1 .. Len(s) : Append(s, h)[i] = s[i]
      /\ Append(s, h)[Len(s) + 1] = h
      /\ Len(s) \in Nat
  BY AppendProperties, LenProperties
<1>2. ASSUME NEW e PROVE Contains(Append(s, h), e) <=> Contains(s, e) \/ e = h
  BY <1>1 DEF Contains
<1>3. ASSUME NoRepetition(s), ~Contains(s, h) PROVE NoRepetition(Append(s, h))
  BY <1>1, <1>3 DEF NoRepetition, Contains
<1>4. QED
  BY <1>1, <1>2, <1>3

\* Closing takes one handle out of a list and leaves the others.
LEMMA RemoveFacts ==
    ASSUME NEW s \in Seq(Handles), NEW h, NoRepetition(s), Contains(s, h)
    PROVE  /\ RemoveFirst(s, h) \in Seq(Handles)
           /\ NoRepetition(RemoveFirst(s, h))
           /\ ~Contains(RemoveFirst(s, h), h)
           /\ \A e : Contains(RemoveFirst(s, h), e) => Contains(s, e)
<1>1. PICK k \in 1 .. Len(s) : s[k] = h
  BY DEF Contains
<1>2. Len(s) \in Nat /\ \A i \in 1 .. Len(s) : s[i] \in Handles
  BY LenProperties, ElementOfSeq
<1>3. {i \in 1 .. Len(s) : s[i] = h} = {k}
  BY <1>1 DEF NoRepetition
<1>4. Min({k}) = k
  BY <1>1, <1>2 DEF Min
<1>5. SelectInSeq(s, LAMBDA v : v = h) = k
  BY <1>3, <1>4 DEF SelectInSeq
<1>6. RemoveFirst(s, h) = RemoveAt(s, k)
  BY <1>1, <1>5 DEF RemoveFirst
<1> DEFINE a == SubSeq(s, 1, k - 1)
           b == SubSeq(s, k + 1, Len(s))
           r == a \o b
<1>7. /\ a \in Seq(Handles) /\ Len(a) = k - 1
      /\ \A i \in 1 .. k - 1 : a[i] = s[i]
  <2>1. \A i \in 1 .. k - 1 : s[i] \in Handles
    BY <1>1, <1>2
  <2>2. 1 \in Int /\ k - 1 \in Int
    BY <1>1
  <2>3. /\ a \in Seq(Handles)
        /\ Len(a) = IF 1 <= k - 1 THEN (k - 1) - 1 + 1 ELSE 0
        /\ \A i \in 1 .. (k - 1) - 1 + 1 : a[i] = s[1 + i - 1]
    BY <2>1, <2>2, SubSeqProperties
  <2>4. QED
    BY <1>1, <2>3
<1>8. /\ b \in Seq(Handles) /\ Len(b) = Len(s) - k
      /\ \A i \in 1 .. Len(s) - k : b[i] = s[k + i]
  <2>1. \A i \in k + 1 .. Len(s) : s[i] \in Handles
    BY <1>1, <1>2
  <2>2. k + 1 \in Int /\ Len(s) \in Int
    BY <1>1, <1>2
  <2>3. /\ b \in Seq(Handles)
        /\ Len(b) = IF k + 1 <= Len(s) THEN Len(s) - (k + 1) + 1 ELSE 0
        /\ \A i \in 1 .. Len(s) - (k + 1) + 1 : b[i] = s[(k + 1) + i - 1]
    BY <2>1, <2>2, SubSeqProperties
  <2>4. QED
    BY <1>1, <1>2, <2>3
<1>9. /\ r \in Seq(Handles) /\ Len(r) = Len(s) - 1
      /\ \A i \in 1 .. Len(s) - 1 : r[i] = IF i < k THEN s[i] ELSE s[i + 1]
  <2>1. /\ r \in Seq(Handles) /\ Len(r) = Len(a) + Len(b)
        /\ \A i \in 1 .. Len(a) + Len(b) : r[i] = IF i <= Len(a) THEN a[i] ELSE b[i - Len(a)]
    BY <1>7, <1>8, ConcatProperties
  <2>2. Len(a) + Len(b) = Len(s) - 1
    <3> HIDE DEF a, b, r
    <3>1. QED
      BY <1>1, <1>2, <1>7, <1>8
  <2>3. ASSUME NEW i \in 1 .. Len(s) - 1 PROVE r[i] = IF i < k THEN s[i] ELSE s[i + 1]
    <3> HIDE DEF a, b, r
    <3>1. CASE i < k
      BY <1>1, <1>2, <1>7, <2>1, <2>2, <3>1
    <3>2. CASE ~(i < k)
      <4>1. i - (k - 1) \in 1 .. Len(s) - k /\ k + (i - (k - 1)) = i + 1
        BY <1>1, <1>2, <3>2
      <4>2. r[i] = b[i - (k - 1)]
        BY <1>1, <1>2, <1>7, <2>1, <2>2, <3>2
      <4>3. QED
        BY <1>8, <3>2, <4>1, <4>2
    <3>3. QED
      BY <3>1, <3>2
  <2>4. QED
    BY <2>1, <2>2, <2>3
<1>10. RemoveFirst(s, h) = r
  BY <1>6 DEF RemoveAt
<1> HIDE DEF a, b, r
<1>11. ASSUME NEW i \in 1 .. Len(r)
       PROVE  \E j \in 1 .. Len(s) : r[i] = s[j] /\ j # k
  BY <1>1, <1>2, <1>9
<1>12. \A e : Contains(r, e) => Contains(s, e)
  BY <1>11 DEF Contains
<1>13. ~Contains(r, h)
  BY <1>1, <1>11 DEF Contains, NoRepetition
<1>14. NoRepetition(r)
  <2>1. ASSUME NEW i \in 1 .. Len(r), NEW j \in 1 .. Len(r), r[i] = r[j] PROVE i = j
    <3> DEFINE up(n) == IF n < k THEN n ELSE n + 1
    <3>1. \A n \in 1 .. Len(r) : up(n) \in 1 .. Len(s) /\ r[n] = s[up(n)]
      BY <1>1, <1>2, <1>9
    <3>2. up(i) = up(j)
      BY <2>1, <3>1 DEF NoRepetition
    <3>3. QED
      BY <1>1, <1>9, <3>2
  <2>2. QED
    BY <2>1 DEF NoRepetition
<1>15. QED
  BY <1>9, <1>10, <1>12, <1>13, <1>14

-----------------------------------------------------------------------------
(* Slots and cells *)

\* The index goes round the slots.
LEMMA FollowingSlot ==
    ASSUME NEW i \in 0 .. Slots - 1
    PROVE  /\ Following(i) = IF i = Slots - 1 THEN 0 ELSE i + 1
           /\ Following(i) \in 0 .. Slots - 1
<1>1. Slots \in Nat /\ Slots > 0
  BY SizesAssumption
<1>2. CASE i = Slots - 1
  <2>1. i + 1 = Slots /\ Slots % Slots = 0
    BY <1>1, <1>2
  <2>2. QED
    BY <1>1, <1>2, <2>1 DEF Following
<1>3. CASE i # Slots - 1
  <2>1. i + 1 \in 0 .. Slots - 1
    BY <1>1, <1>3
  <2>2. (i + 1) % Slots = i + 1
    BY <1>1, <2>1
  <2>3. QED
    BY <1>3, <2>1, <2>2 DEF Following
<1>4. QED
  BY <1>2, <1>3

\* Seen from the following slot, every slot is one further back, and no slot
\* comes round again before all others.
LEMMA BackFacts ==
    ASSUME NEW i \in 0 .. Slots - 1
    PROVE  /\ Back(Following(i), 0) = i
           /\ \A t \in 1 .. Slots - 1 : Back(Following(i), t) = Back(i, t - 1)
           /\ \A t \in 0 .. Slots - 2 : Back(i, t) # i /\ Back(i, t) \in 0 .. Slots - 1
<1>1. Slots \in Nat /\ Slots > 0
  BY SizesAssumption
<1>2. Following(i) = IF i = Slots - 1 THEN 0 ELSE i + 1
  BY FollowingSlot
<1>3. Back(Following(i), 0) = i
  BY <1>1, <1>2 DEF Back
<1>4. \A t \in 1 .. Slots - 1 : Back(Following(i), t) = Back(i, t - 1)
  BY <1>1, <1>2 DEF Back
<1>5. \A t \in 0 .. Slots - 2 : Back(i, t) # i /\ Back(i, t) \in 0 .. Slots - 1
  BY <1>1 DEF Back
<1>6. QED
  BY <1>3, <1>4, <1>5

\* Without an offset, messages in different slots share no cell.
LEMMA TargetsApart ==
    ASSUME NEW i \in Nat, NEW j \in Nat, i # j
    PROVE  Target(i, 0) \cap Target(j, 0) = {}
<1>1. SlotSize \in Nat
  BY SizesAssumption
<1>2. ASSUME NEW a \in Nat, NEW b \in Nat, a < b
      PROVE  (a + 1) * SlotSize <= b * SlotSize
  <2>1. PICK k \in Nat : b = a + 1 + k
    <3>1. b - (a + 1) \in Nat /\ b = a + 1 + (b - (a + 1))
      BY <1>2
    <3>2. QED
      BY <3>1
  <2>2. b * SlotSize = (a + 1) * SlotSize + k * SlotSize
    BY <1>1, <2>1
  <2>3. k * SlotSize \in Nat /\ (a + 1) * SlotSize \in Nat
    BY <1>1
  <2>4. QED
    BY <2>2, <2>3
<1>3. ASSUME NEW a \in Nat, NEW b \in Nat, a < b, NEW c \in Cells,
             c \in Target(a, 0), c \in Target(b, 0)
      PROVE  FALSE
  <2>1. (a + 1) * SlotSize <= b * SlotSize
    BY <1>2, <1>3
  <2>2. c < (a + 1) * SlotSize + 0 /\ c >= b * SlotSize + 0
    BY <1>3 DEF Target
  <2>3. c \in Int /\ (a + 1) * SlotSize \in Int /\ b * SlotSize \in Int
    BY <1>1, SizesAssumption DEF Cells
  <2>4. QED
    BY <2>1, <2>2, <2>3
<1>4. ASSUME NEW c, c \in Target(i, 0), c \in Target(j, 0) PROVE FALSE
  <2>1. c \in Cells
    BY <1>4 DEF Target
  <2>2. i < j \/ j < i
    OBVIOUS
  <2>3. QED
    BY <1>3, <1>4, <2>1, <2>2
<1>5. QED
  BY <1>4

\* What Store makes of the history: e at the end, and only Slots of them.
Pushed(s, e) == LET q == Append(s, e) IN IF Len(q) > Slots THEN Tail(q) ELSE q

LEMMA PushedFacts ==
    ASSUME NEW s \in Seq(Stored), Len(s) <= Slots, NEW e \in Stored
    PROVE  /\ Pushed(s, e) \in Seq(Stored)
           /\ Len(Pushed(s, e)) = IF Len(s) = Slots THEN Slots ELSE Len(s) + 1
           /\ Pushed(s, e)[Len(Pushed(s, e))] = e
           /\ \A t \in 1 .. Len(Pushed(s, e)) - 1 :
                Pushed(s, e)[Len(Pushed(s, e)) - t] = s[Len(s) - (t - 1)]
           /\ \A j \in 1 .. Len(Pushed(s, e)) :
                Pushed(s, e)[j] = e \/ \E i \in 1 .. Len(s) : Pushed(s, e)[j] = s[i]
<1> DEFINE q == Append(s, e)
<1>1. /\ q \in Seq(Stored) /\ q # <<>> /\ Len(q) = Len(s) + 1
      /\ \A i \in 1 .. Len(s) : q[i] = s[i]
      /\ q[Len(s) + 1] = e
  BY AppendProperties
<1>2. Len(s) \in Nat /\ Slots \in Nat /\ Slots > 0
  BY SizesAssumption, LenProperties
<1>3. /\ Tail(q) \in Seq(Stored) /\ Len(Tail(q)) = Len(q) - 1
      /\ \A i \in 1 .. Len(Tail(q)) : Tail(q)[i] = q[i + 1]
  BY <1>1, HeadTailProperties
<1>4. CASE Len(s) = Slots
  <2>1. Pushed(s, e) = Tail(q)
    BY <1>1, <1>2, <1>4 DEF Pushed
  <2> HIDE DEF q
  <2>2. PICK r : r = Tail(q)
    OBVIOUS
  <2>3. Len(r) = Len(s) /\ \A i \in 1 .. Len(s) : r[i] = q[i + 1]
    BY <1>1, <1>2, <1>3, <2>2
  <2>4. r[Len(s)] = e /\ \A i \in 1 .. Len(s) - 1 : r[i] = s[i + 1]
    BY <1>1, <1>2, <1>4, <2>3
  <2>5. ASSUME NEW t \in 1 .. Len(r) - 1 PROVE r[Len(r) - t] = s[Len(s) - (t - 1)]
    <3>1. Len(s) - t \in 1 .. Len(s) - 1 /\ Len(s) - t + 1 = Len(s) - (t - 1)
      BY <1>2, <2>3
    <3>2. QED
      BY <2>3, <2>4, <3>1
  <2>6. ASSUME NEW j \in 1 .. Len(r) PROVE r[j] = e \/ \E i \in 1 .. Len(s) : r[j] = s[i]
    BY <1>2, <2>3, <2>4
  <2>7. Pushed(s, e) = r /\ r \in Seq(Stored) /\ Len(r) = Slots /\ r[Len(r)] = e
    BY <1>3, <1>4, <2>1, <2>2, <2>3, <2>4
  <2>8. QED
    BY <1>4, <2>5, <2>6, <2>7
<1>5. CASE Len(s) # Slots
  <2>1. Pushed(s, e) = q
    BY <1>1, <1>2, <1>5 DEF Pushed
  <2> HIDE DEF q
  <2>2. ASSUME NEW t \in 1 .. Len(q) - 1 PROVE q[Len(q) - t] = s[Len(s) - (t - 1)]
    <3>1. Len(q) - t \in 1 .. Len(s) /\ Len(q) - t = Len(s) - (t - 1)
      BY <1>1, <1>2
    <3>2. QED
      BY <1>1, <3>1
  <2>3. ASSUME NEW j \in 1 .. Len(q) PROVE q[j] = e \/ \E i \in 1 .. Len(s) : q[j] = s[i]
    BY <1>1, <1>2
  <2>4. QED
    BY <1>1, <1>5, <2>1, <2>2, <2>3, ZenonT(60)
<1>6. QED
  BY <1>4, <1>5

-----------------------------------------------------------------------------
(* What a step leaves alone *)

\* Nothing of a handle's window is disturbed when the count does not grow.
LEMMA WindowShrinks ==
    ASSUME TypeInv, NEW h \in Handles, WindowRow(h),
           stored'[h] = stored[h], mode'[h] = mode[h], primary'[h] = primary[h],
           index'[h] = index[h], mem'[h] = mem[h],
           h \in opened => h \in opened',
           count'[h] \in Nat, count'[h] <= count[h]
    PROVE  WindowRow(h)'
<1>1. count[h] \in Nat /\ Slots \in Nat /\ Len(stored[h]) \in Nat
  BY SizesAssumption, LenProperties DEF TypeInv, TypeOK
<1>2. Unread(h)' <= Unread(h) /\ Unread(h)' \in Nat /\ Unread(h) \in Nat
  BY <1>1 DEF Unread
<1>3. /\ Len(stored'[h]) <= Slots
      /\ Unread(h)' <= Len(stored'[h])
      /\ mode'[h] \in Keeping => count'[h] <= Slots
      /\ h \notin opened' => count'[h] = 0
  BY <1>1, <1>2 DEF WindowRow
<1>4. ASSUME NEW t \in 0 .. Unread(h)' - 1
      PROVE  /\ Newest(h, t)'.buf = primary'[h]
             /\ Newest(h, t)'.slot = Back(index'[h], t)
             /\ PlainSince(h, t)' => Intact(h, Newest(h, t))'
  <2>1. t \in 0 .. Unread(h) - 1
    BY <1>2
  <2>2. /\ Newest(h, t).buf = primary[h]
        /\ Newest(h, t).slot = Back(index[h], t)
        /\ PlainSince(h, t) => Intact(h, Newest(h, t))
    BY <2>1 DEF WindowRow
  <2>3. \A u : Newest(h, u)' = Newest(h, u)
    BY DEF Newest
  <2>4. PlainSince(h, t)' <=> PlainSince(h, t)
    BY <2>3 DEF PlainSince
  <2>5. Intact(h, Newest(h, t))' <=> Intact(h, Newest(h, t))
    BY <2>3 DEF Intact
  <2>6. QED
    BY <2>2, <2>3, <2>4, <2>5
<1>5. QED
  BY <1>3, <1>4 DEF WindowRow

\* A handle with nothing unread has no window.
LEMMA WindowEmpty ==
    ASSUME TypeInv, NEW h \in Handles, WindowRow(h), stored'[h] = stored[h], count'[h] = 0
    PROVE  WindowRow(h)'
<1>1. Slots \in Nat /\ Slots > 0 /\ Len(stored[h]) \in Nat
  BY SizesAssumption, LenProperties DEF TypeInv, TypeOK
<1>2. Unread(h)' = 0
  BY <1>1 DEF Unread
<1>3. QED
  BY <1>1, <1>2 DEF WindowRow

\* A message that is done stays done while its thread's list shrinks or a later
\* message takes its place.
LEMMA DoneStays ==
    ASSUME NEW h \in Handles, NEW m \in Messages, Done(h, m),
           sent \in [Deliverers -> Nat],
           LET d == m[1]
           IN  \/ sent'[d] = sent[d] /\ (Contains(subs'[d], h) => Contains(subs[d], h))
               \/ sent'[d] = sent[d] + 1
    PROVE  Done(h, m)'
<1>1. m[1] \in Deliverers /\ m[2] \in Nat
  BY SizesAssumption DEF Messages
<1>2. sent[m[1]] \in Nat
  BY <1>1
<1>3. QED
  BY <1>1, <1>2 DEF Done

\* The messages of the history and of the IOSBs are messages.
LEMMA MessageTypes ==
    ASSUME TypeInv, NEW h \in Handles
    PROVE  /\ Len(stored[h]) \in Nat
           /\ \A j \in 1 .. Len(stored[h]) : stored[h][j] \in Stored /\ stored[h][j].msg \in Messages
           /\ \A i \in Places : iosb[h][i] # NoMsg => iosb[h][i].msg \in Messages
<1>1. stored[h] \in Seq(Stored)
  BY DEF TypeInv, TypeOK
<1>2. \A j \in 1 .. Len(stored[h]) : stored[h][j] \in Stored
  BY <1>1, ElementOfSeq
<1>3. \A s \in Stored : s.msg \in Messages
  BY DEF Stored
<1>4. ASSUME NEW i \in Places, iosb[h][i] # NoMsg PROVE iosb[h][i].msg \in Messages
  <2>1. iosb[h][i] \in Iosbs
    BY DEF TypeInv
  <2>2. QED
    BY <1>4, <2>1 DEF Iosbs
<1>5. QED
  BY <1>1, <1>2, <1>3, <1>4, LenProperties

\* Every step that leaves the history and the IOSBs alone keeps IosbInv.
LEMMA IosbKept ==
    ASSUME TypeInv, IosbInv, UNCHANGED <<stored, iosb>>,
           \A d \in Deliverers :
             \/ sent'[d] = sent[d] /\ \A h \in Handles : Contains(subs'[d], h) => Contains(subs[d], h)
             \/ sent'[d] = sent[d] + 1
    PROVE  IosbInv'
<1>1. sent \in [Deliverers -> Nat]
  BY SizesAssumption DEF TypeInv, TypeOK
<1>2. ASSUME NEW h \in Handles, NEW m \in Messages, Done(h, m) PROVE Done(h, m)'
  <2>1. m[1] \in Deliverers
    BY DEF Messages
  <2>2. QED
    BY <1>1, <1>2, <2>1, DoneStays
<1>3. ASSUME NEW h \in Handles PROVE IosbRow(h)'
  <2>1. IosbRow(h)
    BY DEF IosbInv
  <2>2. \A j \in 1 .. Len(stored[h]) : Done(h, stored[h][j].msg)'
    BY <1>2, <2>1, MessageTypes DEF IosbRow
  <2>3. \A i \in Places : iosb[h][i] # NoMsg => Done(h, iosb[h][i].msg)'
    BY <1>2, <2>1, MessageTypes DEF IosbRow
  <2>4. QED
    BY <2>1, <2>2, <2>3 DEF IosbRow
<1>4. QED
  BY <1>3 DEF IosbInv

\* Every step that leaves the buffers alone keeps WindowInv.
LEMMA WindowKept ==
    ASSUME TypeInv, WindowInv, UNCHANGED <<buffer, stored, mode, opened>>
    PROVE  WindowInv'
<1>1. ASSUME NEW h \in Handles PROVE WindowRow(h)'
  <2>1. WindowRow(h)
    BY DEF WindowInv
  <2>2. count[h] \in Nat
    BY SizesAssumption DEF TypeInv, TypeOK
  <2>3. QED
    BY <2>1, <2>2, WindowShrinks DEF buffer
<1>2. QED
  BY <1>1 DEF WindowInv

-----------------------------------------------------------------------------
(* The steps of the application *)

LEMMA OpenRecvStep ==
    ASSUME IInv, NEW h \in Handles, NEW m \in Modes, OpenRecv(h, m)
    PROVE  IInv'
<1>1. TypeInv /\ ListInv /\ LateInv /\ WindowInv /\ IosbInv
  BY DEF IInv
<1>2. /\ h \notin opened /\ opened' = opened \union {h} /\ route' = Append(route, h)
      /\ mode' = [mode EXCEPT ![h] = m]
      /\ UNCHANGED <<idle, apc, primary, mem, index, count, iosb, iosbIndex, sem>>
      /\ UNCHANGED <<sent, offset, subs, dpc, stored, late>>
  BY DEF OpenRecv, buffer, status, threads, history
<1>3. /\ route \in Seq(Handles) /\ NoRepetition(route) /\ ~Contains(route, h)
      /\ route' \in Seq(Handles) /\ NoRepetition(route')
      /\ \A e : Contains(route', e) <=> Contains(route, e) \/ e = h
  <2>1. route \in Seq(Handles) /\ NoRepetition(route) /\ ~Contains(route, h)
    BY <1>1, <1>2 DEF TypeInv, TypeOK, ListInv
  <2>2. QED
    BY <1>2, <2>1, AppendFacts
<1>4. TypeInv'
  <2>1. m \in AllModes
    BY ModesAssumption DEF AllModes
  <2>2. mode' \in [Handles -> AllModes] /\ opened' \subseteq Handles
    BY <1>1, <1>2, <2>1 DEF TypeInv, TypeOK
  <2>3. QED
    BY <1>1, <1>2, <1>3, <2>2 DEF TypeInv, TypeOK
<1>5. ListInv'
  BY <1>1, <1>2, <1>3 DEF ListInv
<1>6. LateInv'
  BY <1>1, <1>2, <1>3 DEF LateInv, LateRow
<1>7. WindowInv'
  <2>1. ASSUME NEW g \in Handles PROVE WindowRow(g)'
    <3>1. WindowRow(g) /\ count[g] \in Nat
      BY <1>1, SizesAssumption DEF WindowInv, TypeInv, TypeOK
    <3>2. CASE g = h
      <4>1. count[h] = 0
        BY <1>2, <3>1, <3>2 DEF WindowRow
      <4>2. QED
        BY <1>1, <1>2, <3>1, <3>2, <4>1, WindowEmpty
    <3>3. CASE g # h
      <4>1. mode'[g] = mode[g]
        BY <1>1, <1>2, <3>3 DEF TypeInv
      <4>2. g \in opened => g \in opened'
        BY <1>2
      <4>3. QED
        BY <1>1, <1>2, <3>1, <4>1, <4>2, WindowShrinks
    <3>4. QED
      BY <3>2, <3>3
  <2>2. QED
    BY <2>1 DEF WindowInv
<1>8. IosbInv'
  BY <1>1, <1>2, IosbKept
<1>9. QED
  BY <1>4, <1>5, <1>6, <1>7, <1>8 DEF IInv

LEMMA CloseRecvStep ==
    ASSUME IInv, NEW h \in Handles, CloseRecv(h)
    PROVE  IInv'
<1>1. TypeInv /\ ListInv /\ LateInv /\ WindowInv /\ IosbInv
  BY DEF IInv
<1>2. /\ Contains(route, h) /\ route' = RemoveFirst(route, h)
      /\ UNCHANGED <<opened, mode, idle, apc, buffer, status, threads, history>>
  BY DEF CloseRecv, Call
<1>3. /\ route' \in Seq(Handles) /\ NoRepetition(route')
      /\ \A e : Contains(route', e) => Contains(route, e)
  <2>1. route \in Seq(Handles) /\ NoRepetition(route)
    BY <1>1 DEF TypeInv, TypeOK, ListInv
  <2>2. QED
    BY <1>2, <2>1, RemoveFacts
<1>4. TypeInv'
  BY <1>1, <1>2, <1>3 DEF TypeInv, TypeOK, buffer, status, threads, history
<1>5. ListInv'
  BY <1>1, <1>2, <1>3 DEF ListInv, threads
<1>6. LateInv'
  BY <1>1, <1>2, <1>3 DEF LateInv, LateRow, threads, history
<1>7. WindowInv'
  BY <1>1, <1>2, WindowKept DEF history
<1>8. IosbInv'
  BY <1>1, <1>2, IosbKept DEF history, status, threads
<1>9. QED
  BY <1>4, <1>5, <1>6, <1>7, <1>8 DEF IInv

\* Taking back a number of messages never goes below none.
LEMMA ReducedFacts ==
    ASSUME NEW n \in 0 .. CountMod - 1, NEW k \in Nat
    PROVE  Reduced(n, k) \in 0 .. CountMod - 1 /\ Reduced(n, k) <= n
BY SizesAssumption DEF Reduced

\* The two calls that take messages back: recv_dismiss, and the application
\* that has been woken.
LEMMA CountReduced ==
    ASSUME IInv, NEW h \in Handles, NEW k \in Nat,
           count' = [count EXCEPT ![h] = Reduced(@, k)],
           apc' \in [Handles -> {"wait", "awake"}],
           UNCHANGED <<route, opened, mode, idle, primary, mem, index, status, threads, history>>
    PROVE  IInv'
<1>1. TypeInv /\ ListInv /\ LateInv /\ WindowInv /\ IosbInv
  BY DEF IInv
<1>2. /\ count' \in [Handles -> 0 .. CountMod - 1]
      /\ \A g \in Handles : count'[g] \in Nat /\ count'[g] <= count[g]
  <2>1. count \in [Handles -> 0 .. CountMod - 1]
    BY <1>1 DEF TypeInv, TypeOK
  <2>2. \A g \in Handles : count[g] \in Nat
    BY <2>1, SizesAssumption
  <2>3. Reduced(count[h], k) \in 0 .. CountMod - 1 /\ Reduced(count[h], k) <= count[h]
    BY <2>1, ReducedFacts
  <2>4. QED
    BY <2>1, <2>2, <2>3, SizesAssumption
<1>3. TypeInv'
  BY <1>1, <1>2 DEF TypeInv, TypeOK, status, threads, history
<1>4. ListInv'
  BY <1>1 DEF ListInv, threads
<1>5. LateInv'
  BY <1>1 DEF LateInv, LateRow, threads, history
<1>6. WindowInv'
  <2>1. ASSUME NEW g \in Handles PROVE WindowRow(g)'
    <3>1. WindowRow(g)
      BY <1>1 DEF WindowInv
    <3>2. QED
      BY <1>1, <1>2, <3>1, WindowShrinks DEF history
  <2>2. QED
    BY <2>1 DEF WindowInv
<1>7. IosbInv'
  BY <1>1, IosbKept DEF history, status, threads
<1>8. QED
  BY <1>3, <1>4, <1>5, <1>6, <1>7 DEF IInv

LEMMA DismissSteps ==
    ASSUME IInv, NEW h \in Handles,
           (\E k \in 1 .. Slots + 1 : RecvDismiss(h, k)) \/ AppDismiss(h)
    PROVE  IInv'
<1>1. apc \in [Handles -> {"wait", "awake"}]
  BY DEF IInv, TypeInv, TypeOK
<1>2. ASSUME NEW k \in 1 .. Slots + 1, RecvDismiss(h, k) PROVE IInv'
  <2>1. k \in Nat
    BY SizesAssumption
  <2>2. QED
    BY <1>1, <1>2, <2>1, CountReduced DEF RecvDismiss
<1>3. ASSUME AppDismiss(h) PROVE IInv'
  <2>1. apc' \in [Handles -> {"wait", "awake"}] /\ 1 \in Nat
    BY <1>1, <1>3 DEF AppDismiss
  <2>2. QED
    BY <1>3, <2>1, CountReduced DEF AppDismiss
<1>4. QED
  BY <1>2, <1>3

\* The two calls that empty the buffer: recv_reset, and recv_redirect, which
\* also changes the buffer.
LEMMA EmptySteps ==
    ASSUME IInv, NEW h \in Handles, RecvReset(h) \/ RecvRedirect(h)
    PROVE  IInv'
<1>1. TypeInv /\ ListInv /\ LateInv /\ WindowInv /\ IosbInv
  BY DEF IInv
<1>2. /\ count' = [count EXCEPT ![h] = 0] /\ index' = [index EXCEPT ![h] = 0]
      /\ primary' = primary \/ primary' = [primary EXCEPT ![h] = IF @ = "buf" THEN "aux" ELSE "buf"]
      /\ UNCHANGED <<route, opened, mode, idle, apc, mem, status, threads, history>>
  BY DEF RecvReset, RecvRedirect
<1>3. /\ count' \in [Handles -> 0 .. CountMod - 1] /\ index' \in [Handles -> 0 .. Slots - 1]
      /\ primary' \in [Handles -> Buffers]
      /\ count'[h] = 0
  <2>1. count \in [Handles -> 0 .. CountMod - 1] /\ index \in [Handles -> 0 .. Slots - 1]
    BY <1>1 DEF TypeInv, TypeOK
  <2>2. primary \in [Handles -> Buffers]
    BY <1>1 DEF TypeInv, TypeOK
  <2>3. 0 \in 0 .. CountMod - 1 /\ 0 \in 0 .. Slots - 1
    BY SizesAssumption
  <2>4. count' \in [Handles -> 0 .. CountMod - 1] /\ index' \in [Handles -> 0 .. Slots - 1]
    BY <1>2, <2>1, <2>3
  <2>5. primary' \in [Handles -> Buffers]
    BY <1>2, <2>2 DEF Buffers
  <2>6. QED
    BY <1>2, <2>1, <2>4, <2>5
<1>4. TypeInv'
  BY <1>1, <1>2, <1>3 DEF TypeInv, TypeOK, status, threads, history
<1>5. ListInv'
  BY <1>1, <1>2 DEF ListInv, threads
<1>6. LateInv'
  BY <1>1, <1>2 DEF LateInv, LateRow, threads, history
<1>7. WindowInv'
  <2>1. ASSUME NEW g \in Handles PROVE WindowRow(g)'
    <3>1. WindowRow(g) /\ count[g] \in Nat
      BY <1>1, SizesAssumption DEF WindowInv, TypeInv, TypeOK
    <3>2. CASE g = h
      BY <1>1, <1>2, <1>3, <3>1, <3>2, WindowEmpty DEF history
    <3>3. CASE g # h
      <4>1. count'[g] = count[g] /\ index'[g] = index[g] /\ primary'[g] = primary[g]
        BY <1>1, <1>2, <3>3 DEF TypeInv, TypeOK
      <4>2. QED
        BY <1>1, <1>2, <3>1, <4>1, WindowShrinks DEF history
    <3>4. QED
      BY <3>2, <3>3
  <2>2. QED
    BY <2>1 DEF WindowInv
<1>8. IosbInv'
  BY <1>1, <1>2, IosbKept DEF history, status, threads
<1>9. QED
  BY <1>4, <1>5, <1>6, <1>7, <1>8 DEF IInv

LEMMA IdleSteps ==
    ASSUME IInv, NEW h \in Handles, RecvIdle(h) \/ RecvResume(h)
    PROVE  IInv'
<1>1. TypeInv /\ ListInv /\ LateInv /\ WindowInv /\ IosbInv
  BY DEF IInv
<1>2. /\ UNCHANGED <<route, opened, mode, apc, buffer, status, threads, stored>>
      /\ \/ idle' = [idle EXCEPT ![h] = TRUE] /\ late' = late
         \/ idle' = [idle EXCEPT ![h] = FALSE] /\ late' = [late EXCEPT ![h] = [d \in Deliverers |-> 0]]
  BY DEF RecvIdle, RecvResume, history
<1>3. idle' \in [Handles -> BOOLEAN] /\ late' \in [Handles -> [Deliverers -> Nat]]
  <2>1. idle \in [Handles -> BOOLEAN] /\ late \in [Handles -> [Deliverers -> Nat]]
    BY <1>1 DEF TypeInv, TypeOK
  <2>2. idle' \in [Handles -> BOOLEAN]
    BY <1>2, <2>1
  <2>3. [d \in Deliverers |-> 0] \in [Deliverers -> Nat]
    OBVIOUS
  <2>4. late' \in [Handles -> [Deliverers -> Nat]]
    BY <1>2, <2>1, <2>3
  <2>5. QED
    BY <2>2, <2>4
<1>4. TypeInv'
  BY <1>1, <1>2, <1>3 DEF TypeInv, TypeOK, buffer, status, threads
<1>5. ListInv'
  BY <1>1, <1>2 DEF ListInv, threads
<1>6. LateInv'
  <2>1. idle \in [Handles -> BOOLEAN] /\ late \in [Handles -> [Deliverers -> Nat]]
    BY <1>1 DEF TypeInv, TypeOK
  <2>2. ASSUME NEW g \in Handles, NEW d \in Deliverers PROVE LateRow(g, d)'
    <3>1. LateRow(g, d)
      BY <1>1 DEF LateInv
    <3>2. \/ late'[g][d] = late[g][d] /\ (idle[g] => idle'[g])
          \/ late'[g][d] = 0
      BY <1>2, <2>1
    <3>3. QED
      BY <1>2, <3>1, <3>2 DEF LateRow, threads
  <2>3. QED
    BY <2>2 DEF LateInv
<1>7. WindowInv'
  BY <1>1, <1>2, WindowKept
<1>8. IosbInv'
  BY <1>1, <1>2, IosbKept DEF status, threads
<1>9. QED
  BY <1>4, <1>5, <1>6, <1>7, <1>8 DEF IInv

LEMMA AppWaitStep ==
    ASSUME IInv, NEW h \in Handles, AppWait(h)
    PROVE  IInv'
<1>1. TypeInv /\ ListInv /\ LateInv /\ WindowInv /\ IosbInv
  BY DEF IInv
<1>2. /\ sem[h] > 0 /\ sem' = [sem EXCEPT ![h] = @ - 1] /\ apc' = [apc EXCEPT ![h] = "awake"]
      /\ UNCHANGED <<route, opened, mode, idle, buffer, iosb, iosbIndex, threads, history>>
  BY DEF AppWait
<1>3. sem' \in [Handles -> Nat] /\ apc' \in [Handles -> {"wait", "awake"}]
  BY <1>1, <1>2 DEF TypeInv, TypeOK
<1>4. TypeInv'
  BY <1>1, <1>2, <1>3 DEF TypeInv, TypeOK, buffer, threads, history
<1>5. ListInv'
  BY <1>1, <1>2 DEF ListInv, threads
<1>6. LateInv'
  BY <1>1, <1>2 DEF LateInv, LateRow, threads, history
<1>7. WindowInv'
  BY <1>1, <1>2, WindowKept DEF history
<1>8. IosbInv'
  BY <1>1, <1>2, IosbKept DEF history, threads
<1>9. QED
  BY <1>4, <1>5, <1>6, <1>7, <1>8 DEF IInv

-----------------------------------------------------------------------------
(* The steps of a delivering thread *)

LEMMA DistributeStep ==
    ASSUME IInv, NEW d \in Deliverers, NEW o \in Offsets, Distribute(d, o)
    PROVE  IInv'
<1>1. TypeInv /\ ListInv /\ LateInv /\ WindowInv /\ IosbInv
  BY DEF IInv
<1>2. /\ dpc[d] = "idle" /\ sent[d] < MaxMsgs /\ route # <<>>
      /\ sent' = [sent EXCEPT ![d] = @ + 1] /\ offset' = [offset EXCEPT ![d] = o]
      /\ subs' = [subs EXCEPT ![d] = route] /\ dpc' = [dpc EXCEPT ![d] = "examine"]
      /\ UNCHANGED <<route, opened, mode, idle, apc, calls, buffer, status, history>>
  BY DEF Distribute, Goto, handles
<1>3. /\ sent \in [Deliverers -> 0 .. MaxMsgs] /\ offset \in [Deliverers -> Nat]
      /\ subs \in [Deliverers -> Seq(Handles)] /\ route \in Seq(Handles)
      /\ dpc \in [Deliverers -> {"idle", "examine", "write"}]
  BY <1>1 DEF TypeInv, TypeOK
<1>4. /\ sent' \in [Deliverers -> 0 .. MaxMsgs] /\ offset' \in [Deliverers -> Nat]
      /\ subs' \in [Deliverers -> Seq(Handles)]
      /\ dpc' \in [Deliverers -> {"idle", "examine", "write"}]
  <2>1. sent[d] + 1 \in 0 .. MaxMsgs /\ o \in Nat
    BY <1>2, <1>3, SizesAssumption
  <2>2. QED
    BY <1>2, <1>3, <2>1
<1>5. /\ subs'[d] = route /\ dpc'[d] = "examine" /\ sent'[d] = sent[d] + 1 /\ sent[d] \in Nat
      /\ \A e \in Deliverers : e # d => subs'[e] = subs[e] /\ dpc'[e] = dpc[e] /\ sent'[e] = sent[e]
  BY <1>2, <1>3, SizesAssumption
<1>6. TypeInv'
  BY <1>1, <1>2, <1>4 DEF TypeInv, TypeOK, buffer, status, history
<1>7. ListInv'
  <2>1. ASSUME NEW e \in Deliverers
        PROVE  /\ dpc'[e] = "idle" <=> subs'[e] = <<>>
               /\ dpc'[e] # "idle" => sent'[e] > 0
               /\ NoRepetition(subs'[e])
               /\ \A h \in Handles : Contains(subs'[e], h) => h \in opened'
    BY <1>1, <1>2, <1>5 DEF ListInv
  <2>2. QED
    BY <1>1, <1>2, <2>1 DEF ListInv
<1>8. LateInv'
  <2>1. ASSUME NEW h \in Handles, NEW e \in Deliverers PROVE LateRow(h, e)'
    BY <1>1, <1>2, <1>5 DEF LateInv, LateRow, history
  <2>2. QED
    BY <2>1 DEF LateInv
<1>9. WindowInv'
  BY <1>1, <1>2, WindowKept DEF history
<1>10. IosbInv'
  BY <1>1, <1>2, <1>5, IosbKept DEF history, status
<1>11. QED
  BY <1>6, <1>7, <1>8, <1>9, <1>10 DEF IInv

LEMMA UnknownLabelStep ==
    ASSUME IInv, NEW d \in Deliverers, UnknownLabel(d)
    PROVE  IInv'
<1>1. TypeInv /\ ListInv /\ LateInv /\ WindowInv /\ IosbInv
  BY DEF IInv
<1>2. /\ dpc[d] = "idle" /\ sent[d] < MaxMsgs /\ sent' = [sent EXCEPT ![d] = @ + 1]
      /\ UNCHANGED <<route, opened, mode, idle, apc, calls, buffer, status, offset, subs, dpc, history>>
  BY DEF UnknownLabel, handles
<1>3. sent \in [Deliverers -> 0 .. MaxMsgs]
  BY <1>1 DEF TypeInv, TypeOK
<1>4. sent' \in [Deliverers -> 0 .. MaxMsgs] /\ \A e \in Deliverers : sent'[e] = sent[e] \/ sent'[e] = sent[e] + 1
  <2>1. sent[d] + 1 \in 0 .. MaxMsgs
    BY <1>2, <1>3, SizesAssumption
  <2>2. QED
    BY <1>2, <1>3, <2>1
<1>5. TypeInv'
  BY <1>1, <1>2, <1>4 DEF TypeInv, TypeOK, buffer, status, history
<1>6. ListInv'
  <2>1. \A e \in Deliverers : e # d => sent'[e] = sent[e]
    BY <1>2, <1>3
  <2>2. QED
    BY <1>1, <1>2, <2>1 DEF ListInv
<1>7. LateInv'
  BY <1>1, <1>2 DEF LateInv, LateRow, history
<1>8. WindowInv'
  BY <1>1, <1>2, WindowKept DEF history
<1>9. IosbInv'
  BY <1>1, <1>2, <1>4, IosbKept DEF history, status
<1>10. QED
  BY <1>5, <1>6, <1>7, <1>8, <1>9 DEF IInv

\* What NextSubscriber does to the list and the place of its thread.
LEMMA NextSubscriberFacts ==
    ASSUME TypeInv, ListInv, NEW d \in Deliverers, dpc[d] # "idle", NextSubscriber(d)
    PROVE  /\ subs[d] # <<>> /\ Head(subs[d]) \in Handles /\ Head(subs[d]) \in opened
           /\ Contains(subs[d], Head(subs[d]))
           /\ subs' \in [Deliverers -> Seq(Handles)]
           /\ dpc' \in [Deliverers -> {"idle", "examine", "write"}]
           /\ dpc'[d] # "write" /\ (dpc'[d] = "idle" <=> subs'[d] = <<>>)
           /\ NoRepetition(subs'[d]) /\ ~Contains(subs'[d], Head(subs[d]))
           /\ \A e : Contains(subs'[d], e) => Contains(subs[d], e)
           /\ \A e \in Deliverers : e # d => subs'[e] = subs[e] /\ dpc'[e] = dpc[e]
<1>1. /\ subs \in [Deliverers -> Seq(Handles)]
      /\ dpc \in [Deliverers -> {"idle", "examine", "write"}]
  BY DEF TypeInv, TypeOK
<1>2. subs[d] \in Seq(Handles) /\ subs[d] # <<>> /\ NoRepetition(subs[d])
  BY <1>1 DEF ListInv
<1>3. /\ subs' = [subs EXCEPT ![d] = Tail(@)]
      /\ dpc' = [dpc EXCEPT ![d] = IF Len(subs[d]) = 1 THEN "idle" ELSE "examine"]
  BY DEF NextSubscriber, Goto
<1>4. subs'[d] = Tail(subs[d]) /\ dpc'[d] = IF Len(subs[d]) = 1 THEN "idle" ELSE "examine"
  BY <1>1, <1>3
<1>5. /\ Head(subs[d]) \in Handles /\ Tail(subs[d]) \in Seq(Handles)
      /\ Contains(subs[d], Head(subs[d]))
      /\ Len(subs[d]) = 1 <=> Tail(subs[d]) = <<>>
      /\ \A e : Contains(Tail(subs[d]), e) => Contains(subs[d], e)
      /\ NoRepetition(Tail(subs[d])) /\ ~Contains(Tail(subs[d]), Head(subs[d]))
  BY <1>2, TailFacts
<1>6. Head(subs[d]) \in opened
  BY <1>5 DEF ListInv
<1>7. /\ subs' \in [Deliverers -> Seq(Handles)]
      /\ dpc' \in [Deliverers -> {"idle", "examine", "write"}]
      /\ \A e \in Deliverers : e # d => subs'[e] = subs[e] /\ dpc'[e] = dpc[e]
  BY <1>1, <1>3, <1>5
<1>8. QED
  BY <1>2, <1>4, <1>5, <1>6, <1>7

LEMMA ExamineStep ==
    ASSUME IInv, NEW d \in Deliverers, Examine(d)
    PROVE  IInv'
<1>1. TypeInv /\ ListInv /\ LateInv /\ WindowInv /\ IosbInv
  BY DEF IInv
<1>2. /\ dpc[d] = "examine"
      /\ UNCHANGED <<route, opened, mode, idle, apc, calls, buffer, status, sent, offset, history>>
  BY DEF Examine, handles
<1>3. CASE Refuses(Head(subs[d]), offset[d])
  <2>1. NextSubscriber(d)
    BY <1>3 DEF Examine
  <2>2. /\ subs' \in [Deliverers -> Seq(Handles)]
        /\ dpc' \in [Deliverers -> {"idle", "examine", "write"}]
        /\ dpc'[d] # "write" /\ (dpc'[d] = "idle" <=> subs'[d] = <<>>)
        /\ NoRepetition(subs'[d])
        /\ \A e : Contains(subs'[d], e) => Contains(subs[d], e)
        /\ \A e \in Deliverers : e # d => subs'[e] = subs[e] /\ dpc'[e] = dpc[e]
    BY <1>1, <1>2, <2>1, NextSubscriberFacts
  <2>3. TypeInv'
    BY <1>1, <1>2, <2>2 DEF TypeInv, TypeOK, buffer, status, history
  <2>4. ListInv'
    <3>1. ASSUME NEW e \in Deliverers
          PROVE  /\ dpc'[e] = "idle" <=> subs'[e] = <<>>
                 /\ dpc'[e] # "idle" => sent'[e] > 0
                 /\ NoRepetition(subs'[e])
                 /\ \A h \in Handles : Contains(subs'[e], h) => h \in opened'
      BY <1>1, <1>2, <2>2 DEF ListInv
    <3>2. QED
      BY <1>1, <1>2, <3>1 DEF ListInv
  <2>5. LateInv'
    <3>1. ASSUME NEW h \in Handles, NEW e \in Deliverers PROVE LateRow(h, e)'
      BY <1>1, <1>2, <2>2 DEF LateInv, LateRow, history
    <3>2. QED
      BY <3>1 DEF LateInv
  <2>6. IosbInv'
    BY <1>1, <1>2, <2>2, IosbKept DEF history, status
  <2>7. WindowInv'
    BY <1>1, <1>2, WindowKept DEF history
  <2>8. QED
    BY <2>3, <2>4, <2>5, <2>6, <2>7 DEF IInv
<1>4. CASE ~Refuses(Head(subs[d]), offset[d])
  <2>1. dpc' = [dpc EXCEPT ![d] = "write"] /\ subs' = subs
    BY <1>4 DEF Examine, Goto
  <2>2. dpc' \in [Deliverers -> {"idle", "examine", "write"}]
    BY <1>1, <2>1 DEF TypeInv, TypeOK
  <2>3. dpc'[d] = "write" /\ \A e \in Deliverers : e # d => dpc'[e] = dpc[e]
    BY <1>1, <2>1 DEF TypeInv, TypeOK
  <2>4. TypeInv'
    BY <1>1, <1>2, <2>1, <2>2 DEF TypeInv, TypeOK, buffer, status, history
  <2>5. ListInv'
    BY <1>1, <1>2, <2>1, <2>3 DEF ListInv
  <2>6. LateInv'
    <3>1. ASSUME NEW h \in Handles, NEW e \in Deliverers PROVE LateRow(h, e)'
      <4>1. CASE e = d /\ h = Head(subs[d])
        <5>1. subs[d] \in Seq(Handles) /\ subs[d] # <<>>
          BY <1>1, <1>2 DEF TypeInv, TypeOK, ListInv
        <5>2. Contains(subs[d], h) /\ ~idle[h]
          BY <1>4, <4>1, <5>1, TailFacts DEF Refuses
        <5>3. late[h][d] = 0
          BY <1>1, <5>2 DEF LateInv, LateRow
        <5>4. QED
          BY <1>2, <4>1, <5>3 DEF LateRow, history
      <4>2. CASE ~(e = d /\ h = Head(subs[d]))
        BY <1>1, <1>2, <2>1, <2>3, <4>2 DEF LateInv, LateRow, history
      <4>3. QED
        BY <4>1, <4>2
    <3>2. QED
      BY <3>1 DEF LateInv
  <2>7. IosbInv'
    BY <1>1, <1>2, <2>1, IosbKept DEF history, status
  <2>8. WindowInv'
    BY <1>1, <1>2, WindowKept DEF history
  <2>9. QED
    BY <2>4, <2>5, <2>6, <2>7, <2>8 DEF IInv
<1>5. QED
  BY <1>3, <1>4

\* The step under the handle's lock: whether m is stored, whether an IOSB is
\* written, whether the semaphore is posted.
LEMMA WriteShape ==
    ASSUME TypeInv, ListInv, NEW d \in Deliverers, Write(d), NEW h, h = Head(subs[d]), NEW m, m = Message(d)
    PROVE  /\ h \in Handles /\ h \in opened /\ m \in Messages /\ m[1] = d /\ m[2] = sent[d]
           /\ Contains(subs[d], h) /\ dpc[d] = "write" /\ NextSubscriber(d)
           /\ IF HasRoom(h) THEN Store(h, m, offset[d]) ELSE UNCHANGED <<mem, index, count, stored>>
           /\ UNCHANGED <<iosb, iosbIndex>> \/ WriteIosb(h, m)
           /\ UNCHANGED sem \/ Signal(h)
           /\ late' = [late EXCEPT ![h][d] = IF idle[h] \/ ~Contains(route, h) THEN @ + 1 ELSE @]
           /\ UNCHANGED <<route, opened, mode, idle, apc, calls, primary, sent, offset>>
<1>1. /\ dpc[d] = "write" /\ NextSubscriber(d)
      /\ IF HasRoom(h) THEN Store(h, m, offset[d]) ELSE UNCHANGED <<mem, index, count, stored>>
      /\ late' = [late EXCEPT ![h][d] = IF idle[h] \/ ~Contains(route, h) THEN @ + 1 ELSE @]
      /\ UNCHANGED <<route, opened, mode, idle, apc, calls, primary, sent, offset>>
  BY DEF Write, handles
<1>2. /\ UNCHANGED <<iosb, iosbIndex>> \/ WriteIosb(h, m)
      /\ UNCHANGED sem \/ Signal(h)
  <2>1. CASE mode[h] = "OVERWRITE"
    BY <2>1 DEF Write
  <2>2. CASE mode[h] = "BUFFER_FULL"
    BY <2>2 DEF Write, status
  <2>3. CASE mode[h] \notin {"OVERWRITE", "BUFFER_FULL"}
    BY <2>3 DEF Write
  <2>4. QED
    BY <2>1, <2>2, <2>3
<1>3. h \in Handles /\ h \in opened /\ Contains(subs[d], h)
  BY <1>1, NextSubscriberFacts
<1>4. m \in Messages /\ m[1] = d /\ m[2] = sent[d]
  <2>1. sent[d] \in 1 .. MaxMsgs
    <3>1. sent[d] \in 0 .. MaxMsgs /\ sent[d] > 0
      BY <1>1 DEF TypeInv, TypeOK, ListInv
    <3>2. QED
      BY <3>1, SizesAssumption
  <2>2. QED
    BY <2>1 DEF Message, Messages
<1>5. QED
  BY <1>1, <1>2, <1>3, <1>4

\* Storing m keeps the types of the buffer and of the history.
LEMMA StoreTypes ==
    ASSUME TypeInv, WindowInv, NEW h \in Handles, NEW m \in Messages, NEW o \in Nat, Store(h, m, o)
    PROVE  /\ mem' \in [Handles -> [Buffers -> [Cells -> Messages \union {NoMsg}]]]
           /\ count' \in [Handles -> 0 .. CountMod - 1]
           /\ index' \in [Handles -> 0 .. Slots - 1]
           /\ stored' \in [Handles -> Seq(Stored)]
           /\ \A g \in Handles : g # h =>
                /\ mem'[g] = mem[g] /\ count'[g] = count[g]
                /\ index'[g] = index[g] /\ stored'[g] = stored[g]
           /\ \A c \in Cells : mem'[h][primary[h]][c] =
                IF c \in Target(index[h], o) THEN m ELSE mem[h][primary[h]][c]
           /\ count'[h] = (count[h] + 1) % CountMod
           /\ index'[h] = Following(index[h])
           /\ stored'[h] = Pushed(stored[h], [msg |-> m, buf |-> primary[h], slot |-> index[h], off |-> o])
           /\ [msg |-> m, buf |-> primary[h], slot |-> index[h], off |-> o] \in Stored
<1>1. /\ mem \in [Handles -> [Buffers -> [Cells -> Messages \union {NoMsg}]]]
      /\ count \in [Handles -> 0 .. CountMod - 1]
      /\ index \in [Handles -> 0 .. Slots - 1]
      /\ stored \in [Handles -> Seq(Stored)]
      /\ primary[h] \in Buffers
  BY DEF TypeInv, TypeOK
<1>2. /\ mem' = [mem EXCEPT ![h][primary[h]] = [c \in Cells |-> IF c \in Target(index[h], o) THEN m ELSE @[c]]]
      /\ count' = [count EXCEPT ![h] = (@ + 1) % CountMod]
      /\ index' = [index EXCEPT ![h] = Following(@)]
      /\ stored' = [stored EXCEPT ![h] =
            Pushed(@, [msg |-> m, buf |-> primary[h], slot |-> index[h], off |-> o])]
  BY DEF Store, Copy, Pushed
<1>3. [msg |-> m, buf |-> primary[h], slot |-> index[h], off |-> o] \in Stored
  BY <1>1 DEF Stored
<1>4. (count[h] + 1) % CountMod \in 0 .. CountMod - 1
  <2>1. count[h] \in Nat /\ CountMod \in Nat /\ CountMod > 0
    BY <1>1, SizesAssumption
  <2>2. QED
    BY <2>1
<1>5. Following(index[h]) \in 0 .. Slots - 1
  BY <1>1, FollowingSlot
<1>6. Pushed(stored[h], [msg |-> m, buf |-> primary[h], slot |-> index[h], off |-> o]) \in Seq(Stored)
  <2>1. Len(stored[h]) <= Slots /\ stored[h] \in Seq(Stored)
    BY <1>1 DEF WindowInv, WindowRow
  <2>2. QED
    BY <1>3, <2>1, PushedFacts
<1>7. count' \in [Handles -> 0 .. CountMod - 1] /\ index' \in [Handles -> 0 .. Slots - 1]
  BY <1>1, <1>2, <1>4, <1>5
<1>8. stored' \in [Handles -> Seq(Stored)]
  BY <1>1, <1>2, <1>6
<1>9. /\ count'[h] = (count[h] + 1) % CountMod /\ index'[h] = Following(index[h])
      /\ stored'[h] = Pushed(stored[h], [msg |-> m, buf |-> primary[h], slot |-> index[h], off |-> o])
  BY <1>1, <1>2
<1>10. PICK new : new = [c \in Cells |-> IF c \in Target(index[h], o) THEN m ELSE mem[h][primary[h]][c]]
  OBVIOUS
<1>11. new \in [Cells -> Messages \union {NoMsg}]
  BY <1>1, <1>10
<1>12. mem' = [mem EXCEPT ![h] = [mem[h] EXCEPT ![primary[h]] = new]]
  BY <1>1, <1>2, <1>10
<1>13. [mem[h] EXCEPT ![primary[h]] = new] \in [Buffers -> [Cells -> Messages \union {NoMsg}]]
  BY <1>1, <1>11
<1>14. mem' \in [Handles -> [Buffers -> [Cells -> Messages \union {NoMsg}]]]
  BY <1>1, <1>12, <1>13
<1>15. mem'[h][primary[h]] = new
  BY <1>1, <1>12
<1>16. \A g \in Handles : g # h =>
          /\ mem'[g] = mem[g] /\ count'[g] = count[g]
          /\ index'[g] = index[g] /\ stored'[g] = stored[g]
  BY <1>1, <1>2, <1>12
<1>17. QED
  BY <1>3, <1>7, <1>8, <1>9, <1>10, <1>14, <1>15, <1>16

\* Writing an IOSB keeps the type of the IOSBs and changes one of h.
LEMMA WriteIosbFacts ==
    ASSUME TypeInv, NEW h \in Handles, NEW m \in Messages, WriteIosb(h, m)
    PROVE  /\ iosb' \in [Handles -> [Places -> Iosbs]]
           /\ NumIosb > 0 => iosbIndex' \in [Handles -> 0 .. NumIosb - 1]
           /\ \A g \in Handles : g # h => iosb'[g] = iosb[g]
           /\ \A i \in Places :
                \/ iosb'[h][i] = iosb[h][i]
                \/ iosb'[h][i] = [msg |-> m, buf |-> primary[h], slot |-> index[h]]
<1>1. CASE NumIosb = 0
  BY <1>1 DEF WriteIosb, TypeInv, TypeOK
<1>2. CASE NumIosb # 0
  <2> DEFINE e == [msg |-> m, buf |-> primary[h], slot |-> index[h]]
  <2>1. NumIosb \in Nat /\ NumIosb > 0
    BY <1>2, SizesAssumption
  <2>2. /\ iosb \in [Handles -> [Places -> Iosbs]]
        /\ iosbIndex \in [Handles -> 0 .. NumIosb - 1]
        /\ primary[h] \in Buffers /\ index[h] \in 0 .. Slots - 1
    BY <2>1 DEF TypeInv, TypeOK
  <2>3. /\ iosb' = [iosb EXCEPT ![h][iosbIndex[h]] = e]
        /\ iosbIndex' = [iosbIndex EXCEPT ![h] = (@ + 1) % NumIosb]
    BY <1>2 DEF WriteIosb, IosbSlot
  <2>4. e \in Iosbs
    BY <2>2 DEF Iosbs
  <2> HIDE DEF e
  <2>5. iosb' = [iosb EXCEPT ![h] = [iosb[h] EXCEPT ![iosbIndex[h]] = e]]
    BY <2>2, <2>3
  <2>6. [iosb[h] EXCEPT ![iosbIndex[h]] = e] \in [Places -> Iosbs]
    BY <2>2, <2>4
  <2>7. iosb' \in [Handles -> [Places -> Iosbs]] /\ \A g \in Handles : g # h => iosb'[g] = iosb[g]
    BY <2>2, <2>5, <2>6
  <2>8. \A i \in Places : iosb'[h][i] = iosb[h][i] \/ iosb'[h][i] = e
    BY <2>2, <2>5
  <2>9. iosbIndex' \in [Handles -> 0 .. NumIosb - 1]
    <3>1. iosbIndex[h] \in Nat
      BY <2>1, <2>2
    <3>2. (iosbIndex[h] + 1) % NumIosb \in 0 .. NumIosb - 1
      BY <2>1, <3>1
    <3>3. QED
      BY <2>2, <2>3, <3>2
  <2>10. QED
    BY <2>7, <2>8, <2>9 DEF e
<1>3. QED
  BY <1>1, <1>2

\* A message that finds room makes the window one longer, at most, and the
\* buffer no shorter than the window.
LEMMA UnreadGrows ==
    ASSUME TypeInv, WindowInv, NEW h \in Handles, HasRoom(h),
           mode' = mode, count'[h] = (count[h] + 1) % CountMod
    PROVE  /\ Unread(h) \in Nat /\ Unread(h)' \in Nat
           /\ Unread(h)' <= Unread(h) + 1 /\ Unread(h)' <= Slots
           /\ mode[h] \in Keeping => count'[h] <= Slots
<1>1. count[h] \in Nat /\ count[h] < CountMod /\ CountMod \in Nat /\ CountMod > Slots /\ Slots \in Nat
  BY SizesAssumption DEF TypeInv, TypeOK
<1>2. count'[h] = IF count[h] + 1 = CountMod THEN 0 ELSE count[h] + 1
  <2>1. CASE count[h] + 1 = CountMod
    <3>1. CountMod % CountMod = 0
      BY <1>1
    <3>2. QED
      BY <2>1, <3>1
  <2>2. CASE count[h] + 1 # CountMod
    <3>1. count[h] + 1 \in 0 .. CountMod - 1
      BY <1>1, <2>2
    <3>2. (count[h] + 1) % CountMod = count[h] + 1
      BY <1>1, <3>1
    <3>3. QED
      BY <2>2, <3>2
  <2>3. QED
    BY <2>1, <2>2
<1>3. CASE mode[h] \in Keeping
  <2>1. count[h] < Slots
    <3>1. count[h] <= Slots
      BY <1>3 DEF WindowInv, WindowRow
    <3>2. QED
      BY <1>1, <1>3, <3>1 DEF HasRoom, Keeping
  <2>2. count'[h] = count[h] + 1
    BY <1>1, <1>2, <2>1
  <2>3. QED
    BY <1>1, <1>3, <2>1, <2>2 DEF Unread
<1>4. CASE mode[h] \notin Keeping
  BY <1>1, <1>2, <1>4 DEF Unread
<1>5. QED
  BY <1>3, <1>4

\* The window of the handle that m is stored for: m is its last message, and
\* the slot it takes is that of none of the others.
LEMMA StoreWindow ==
    ASSUME TypeInv, WindowInv, NEW h \in Handles, h \in opened, NEW m \in Messages, NEW o \in Nat,
           HasRoom(h), Store(h, m, o), UNCHANGED <<mode, opened, primary>>
    PROVE  WindowRow(h)'
<1> DEFINE e == [msg |-> m, buf |-> primary[h], slot |-> index[h], off |-> o]
<1>1. /\ stored[h] \in Seq(Stored) /\ primary[h] \in Buffers /\ index[h] \in 0 .. Slots - 1
      /\ Slots \in Nat /\ Slots > 0
  BY SizesAssumption DEF TypeInv, TypeOK
<1>2. /\ \A c \in Cells : mem'[h][primary[h]][c] =
           IF c \in Target(index[h], o) THEN m ELSE mem[h][primary[h]][c]
      /\ count'[h] = (count[h] + 1) % CountMod
      /\ index'[h] = Following(index[h])
      /\ stored'[h] = Pushed(stored[h], e)
      /\ e \in Stored
  BY StoreTypes
<1>3. e.msg = m /\ e.buf = primary[h] /\ e.slot = index[h] /\ e.off = o
  OBVIOUS
<1> HIDE DEF e
<1>4. WindowRow(h)
  BY DEF WindowInv
<1>5. Len(stored[h]) \in Nat /\ Len(stored[h]) <= Slots /\ Unread(h) <= Len(stored[h])
  BY <1>1, <1>4, LenProperties DEF WindowRow
<1>6. /\ Len(stored'[h]) = IF Len(stored[h]) = Slots THEN Slots ELSE Len(stored[h]) + 1
      /\ stored'[h][Len(stored'[h])] = e
      /\ \A t \in 1 .. Len(stored'[h]) - 1 :
           stored'[h][Len(stored'[h]) - t] = stored[h][Len(stored[h]) - (t - 1)]
  <2>1. PICK s : s = stored[h]
    OBVIOUS
  <2>2. s \in Seq(Stored) /\ Len(s) <= Slots /\ e \in Stored /\ stored'[h] = Pushed(s, e)
    BY <1>1, <1>2, <1>5, <2>1
  <2>3. /\ Len(Pushed(s, e)) = IF Len(s) = Slots THEN Slots ELSE Len(s) + 1
        /\ Pushed(s, e)[Len(Pushed(s, e))] = e
        /\ \A t \in 1 .. Len(Pushed(s, e)) - 1 :
             Pushed(s, e)[Len(Pushed(s, e)) - t] = s[Len(s) - (t - 1)]
    BY <2>2, PushedFacts
  <2>4. QED
    BY <2>1, <2>2, <2>3
<1>7. /\ Unread(h) \in Nat /\ Unread(h)' \in Nat
      /\ Unread(h)' <= Unread(h) + 1 /\ Unread(h)' <= Slots
      /\ mode[h] \in Keeping => count'[h] <= Slots
  BY <1>2, UnreadGrows
<1>8. Len(stored'[h]) <= Slots /\ Unread(h)' <= Len(stored'[h]) /\ Len(stored'[h]) \in Nat
  BY <1>1, <1>5, <1>6, <1>7
<1>9. Newest(h, 0)' = e
  BY <1>6, <1>8 DEF Newest
<1>10. \A t \in 1 .. Len(stored'[h]) - 1 : Newest(h, t)' = Newest(h, t - 1)
  BY <1>6 DEF Newest
<1>11. ASSUME NEW t \in 0 .. Unread(h)' - 1
       PROVE  /\ Newest(h, t)'.buf = primary'[h]
              /\ Newest(h, t)'.slot = Back(index'[h], t)
              /\ PlainSince(h, t)' => Intact(h, Newest(h, t))'
  <2>1. CASE t = 0
    <3>1. Newest(h, t)' = e
      BY <1>9, <2>1
    <3>2. Back(index'[h], t) = index[h]
      BY <1>1, <1>2, <2>1, BackFacts
    <3>3. Intact(h, Newest(h, t))'
      <4>1. \A c \in Target(index[h], o) : c \in Cells /\ mem'[h][primary[h]][c] = m
        BY <1>2 DEF Target
      <4>2. \A c \in Target(e.slot, e.off) : mem'[h][e.buf][c] = e.msg
        BY <1>3, <4>1
      <4>3. QED
        BY <3>1, <4>2 DEF Intact, Target
    <3>4. QED
      BY <1>3, <3>1, <3>2, <3>3
  <2>2. CASE t # 0
    <3>1. /\ t \in Nat /\ t - 1 \in 0 .. Unread(h) - 1
          /\ t \in 1 .. Len(stored'[h]) - 1 /\ t \in 1 .. Slots - 1 /\ t - 1 \in 0 .. Slots - 2
      BY <1>1, <1>5, <1>7, <1>8, <2>2, SMTT(60)
    <3>2. Newest(h, t)' = Newest(h, t - 1)
      BY <1>10, <3>1
    <3>3. /\ Newest(h, t - 1).buf = primary[h]
          /\ Newest(h, t - 1).slot = Back(index[h], t - 1)
          /\ PlainSince(h, t - 1) => Intact(h, Newest(h, t - 1))
      BY <1>4, <3>1 DEF WindowRow
    <3>4. Back(index'[h], t) = Back(index[h], t - 1)
      BY <1>1, <1>2, <3>1, BackFacts, ZenonT(60)
    <3>5. ASSUME PlainSince(h, t)' PROVE Intact(h, Newest(h, t))'
      <4>1. \A u \in 0 .. t : Newest(h, u)'.off = 0
        BY <3>5 DEF PlainSince
      <4>2. o = 0
        <5>1. 0 \in 0 .. t
          BY <3>1
        <5>2. QED
          BY <1>3, <1>9, <4>1, <5>1
      <4>3. PlainSince(h, t - 1)
        <5>1. ASSUME NEW u \in 0 .. t - 1 PROVE Newest(h, u).off = 0
          <6>1. u + 1 \in 0 .. t /\ u + 1 \in 1 .. Len(stored'[h]) - 1 /\ (u + 1) - 1 = u
            BY <1>8, <3>1
          <6>2. Newest(h, u + 1)' = Newest(h, (u + 1) - 1)
            BY <1>10, <6>1
          <6>3. Newest(h, u + 1)'.off = 0
            BY <4>1, <6>1
          <6>4. QED
            BY <6>1, <6>2, <6>3
        <5>2. QED
          BY <5>1 DEF PlainSince
      <4>4. Intact(h, Newest(h, t - 1)) /\ Newest(h, t - 1).off = 0
        <5>1. t - 1 \in 0 .. t - 1
          BY <3>1
        <5>2. QED
          BY <3>3, <4>3, <5>1 DEF PlainSince
      <4>5. PICK s : s = Newest(h, t - 1)
        OBVIOUS
      <4>6. s.slot # index[h] /\ s.slot \in Nat /\ index[h] \in Nat /\ s.off = 0 /\ s.buf = primary[h]
        <5>1. Back(index[h], t - 1) # index[h] /\ Back(index[h], t - 1) \in 0 .. Slots - 1
          BY <1>1, <3>1, BackFacts
        <5>2. Back(index[h], t - 1) \in Nat /\ index[h] \in Nat
          BY <1>1, <5>1
        <5>3. QED
          BY <3>3, <4>4, <4>5, <5>1, <5>2
      <4>7. Target(s.slot, 0) \cap Target(index[h], 0) = {}
        BY <4>6, TargetsApart
      <4>8. \A c \in Target(s.slot, s.off) : mem'[h][s.buf][c] = s.msg
        <5>1. \A c \in Target(s.slot, s.off) : c \in Cells /\ mem[h][s.buf][c] = s.msg
          BY <4>4, <4>5 DEF Intact, Target
        <5>2. QED
          BY <1>2, <4>2, <4>6, <4>7, <5>1
      <4>9. QED
        BY <3>2, <4>5, <4>8 DEF Intact, Target
    <3>6. QED
      BY <3>2, <3>3, <3>4, <3>5
  <2>3. QED
    BY <2>1, <2>2
<1>12. QED
  BY <1>7, <1>8, <1>11 DEF WindowRow

\* Writing under the lock keeps every handle's window.
LEMMA WriteWindow ==
    ASSUME IInv, NEW d \in Deliverers, Write(d)
    PROVE  WindowInv'
<1>1. TypeInv /\ ListInv /\ WindowInv
  BY DEF IInv
<1>2. PICK h, m : h = Head(subs[d]) /\ m = Message(d)
  OBVIOUS
<1>3. /\ h \in Handles /\ h \in opened /\ m \in Messages
      /\ IF HasRoom(h) THEN Store(h, m, offset[d]) ELSE UNCHANGED <<mem, index, count, stored>>
      /\ UNCHANGED <<mode, opened, primary>>
  BY <1>1, <1>2, WriteShape
<1>4. offset[d] \in Nat
  BY <1>1 DEF TypeInv
<1>5. CASE HasRoom(h)
  <2>1. Store(h, m, offset[d])
    BY <1>3, <1>5
  <2>2. ASSUME NEW g \in Handles PROVE WindowRow(g)'
    <3>1. CASE g = h
      BY <1>1, <1>3, <1>4, <1>5, <2>1, <3>1, StoreWindow
    <3>2. CASE g # h
      <4>1. /\ mem'[g] = mem[g] /\ count'[g] = count[g]
            /\ index'[g] = index[g] /\ stored'[g] = stored[g]
        BY <1>1, <1>3, <1>4, <2>1, <3>2, StoreTypes
      <4>2. WindowRow(g) /\ count[g] \in Nat
        BY <1>1, SizesAssumption DEF WindowInv, TypeInv, TypeOK
      <4>3. QED
        BY <1>1, <1>3, <4>1, <4>2, WindowShrinks
    <3>3. QED
      BY <3>1, <3>2
  <2>3. QED
    BY <2>2 DEF WindowInv
<1>6. CASE ~HasRoom(h)
  BY <1>1, <1>3, <1>6, WindowKept DEF buffer
<1>7. QED
  BY <1>5, <1>6

\* Writing under the lock keeps the IOSBs in agreement with the history: what
\* is written and what is stored carry the same buffer and slot, and no other
\* IOSB or stored message of the handle is about m.
LEMMA WriteIosbs ==
    ASSUME IInv, NEW d \in Deliverers, Write(d)
    PROVE  IosbInv'
<1>1. TypeInv /\ ListInv /\ WindowInv /\ IosbInv
  BY DEF IInv
<1>2. PICK h, m : h = Head(subs[d]) /\ m = Message(d)
  OBVIOUS
<1>3. /\ h \in Handles /\ m \in Messages /\ m[1] = d /\ m[2] = sent[d]
      /\ Contains(subs[d], h) /\ dpc[d] = "write" /\ NextSubscriber(d)
      /\ IF HasRoom(h) THEN Store(h, m, offset[d]) ELSE UNCHANGED <<mem, index, count, stored>>
      /\ UNCHANGED <<iosb, iosbIndex>> \/ WriteIosb(h, m)
      /\ sent' = sent
  BY <1>1, <1>2, WriteShape
<1>4. /\ ~Contains(subs'[d], h)
      /\ \A g : Contains(subs'[d], g) => Contains(subs[d], g)
      /\ \A e \in Deliverers : e # d => subs'[e] = subs[e]
  BY <1>1, <1>2, <1>3, NextSubscriberFacts
<1>5. ASSUME NEW g \in Handles, NEW n \in Messages, Done(g, n) PROVE Done(g, n)'
  <2>1. n[1] \in Deliverers
    BY DEF Messages
  <2>2. sent \in [Deliverers -> Nat]
    BY <1>1, SizesAssumption DEF TypeInv, TypeOK
  <2>3. QED
    BY <1>3, <1>4, <1>5, <2>1, <2>2, DoneStays
<1>6. ~Done(h, m)
  BY <1>3 DEF Done
<1>7. Done(h, m)'
  <2>1. sent[d] \in Nat
    BY <1>1, SizesAssumption DEF TypeInv, TypeOK
  <2>2. QED
    BY <1>3, <1>4, <2>1 DEF Done
<1>8. /\ \A g \in Handles : g # h => stored'[g] = stored[g] /\ iosb'[g] = iosb[g]
      /\ \A i \in Places :
           \/ iosb'[h][i] = iosb[h][i]
           \/ iosb'[h][i] = [msg |-> m, buf |-> primary[h], slot |-> index[h]]
      /\ \A j \in 1 .. Len(stored'[h]) :
           \/ \E k \in 1 .. Len(stored[h]) : stored'[h][j] = stored[h][k]
           \/ /\ stored'[h][j].msg = m
              /\ stored'[h][j].buf = primary[h] /\ stored'[h][j].slot = index[h]
  <2>1. /\ \A g \in Handles : g # h => iosb'[g] = iosb[g]
        /\ \A i \in Places :
             \/ iosb'[h][i] = iosb[h][i]
             \/ iosb'[h][i] = [msg |-> m, buf |-> primary[h], slot |-> index[h]]
    <3>1. CASE UNCHANGED <<iosb, iosbIndex>>
      BY <3>1
    <3>2. CASE WriteIosb(h, m)
      BY <1>1, <1>3, <3>2, WriteIosbFacts
    <3>3. QED
      BY <1>3, <3>1, <3>2
  <2>2. CASE ~HasRoom(h)
    <3>1. stored' = stored
      BY <1>3, <2>2
    <3>2. QED
      BY <2>1, <3>1
  <2>3. CASE HasRoom(h)
    <3>1. Store(h, m, offset[d]) /\ offset[d] \in Nat
      BY <1>1, <1>3, <2>3 DEF TypeInv
    <3>2. PICK e : e = [msg |-> m, buf |-> primary[h], slot |-> index[h], off |-> offset[d]]
      OBVIOUS
    <3>3. /\ \A g \in Handles : g # h => stored'[g] = stored[g]
          /\ stored'[h] = Pushed(stored[h], e) /\ e \in Stored
      BY <1>1, <1>3, <3>1, <3>2, StoreTypes
    <3>4. e.msg = m /\ e.buf = primary[h] /\ e.slot = index[h]
      BY <3>2
    <3>5. stored[h] \in Seq(Stored) /\ Len(stored[h]) <= Slots
      BY <1>1, <1>3 DEF TypeInv, TypeOK, WindowInv, WindowRow
    <3>6. \A j \in 1 .. Len(Pushed(stored[h], e)) :
            \/ Pushed(stored[h], e)[j] = e
            \/ \E k \in 1 .. Len(stored[h]) : Pushed(stored[h], e)[j] = stored[h][k]
      BY <3>3, <3>5, PushedFacts
    <3>7. QED
      BY <2>1, <3>3, <3>4, <3>6
  <2>4. QED
    BY <2>2, <2>3
<1>9. ASSUME NEW g \in Handles, g # h PROVE IosbRow(g)'
  <2>1. IosbRow(g) /\ stored'[g] = stored[g] /\ iosb'[g] = iosb[g]
    BY <1>1, <1>8, <1>9 DEF IosbInv
  <2>2. \A j \in 1 .. Len(stored[g]) : Done(g, stored[g][j].msg) /\ stored[g][j].msg \in Messages
    BY <1>1, <2>1, MessageTypes DEF IosbRow
  <2>3. \A i \in Places : iosb[g][i] # NoMsg => Done(g, iosb[g][i].msg) /\ iosb[g][i].msg \in Messages
    BY <1>1, <2>1, MessageTypes DEF IosbRow
  <2>4. ASSUME NEW j \in 1 .. Len(stored'[g]) PROVE Done(g, stored[g][j].msg)'
    <3>1. PICK n : n = stored[g][j].msg
      OBVIOUS
    <3>2. n \in Messages /\ Done(g, n) /\ stored'[g][j].msg = n
      BY <2>1, <2>2, <2>4, <3>1
    <3>3. Done(g, n)'
      BY <1>5, <3>2
    <3>4. QED
      BY <3>2, <3>3
  <2>5. ASSUME NEW i \in Places, iosb'[g][i] # NoMsg PROVE Done(g, iosb[g][i].msg)'
    <3>1. PICK n : n = iosb[g][i].msg
      OBVIOUS
    <3>2. n \in Messages /\ Done(g, n) /\ iosb'[g][i].msg = n
      BY <2>1, <2>3, <2>5, <3>1
    <3>3. Done(g, n)'
      BY <1>5, <3>2
    <3>4. QED
      BY <3>2, <3>3
  <2>6. QED
    BY <2>1, <2>4, <2>5 DEF IosbRow
<1>10. IosbRow(h)'
  <2>1. IosbRow(h)
    BY <1>1, <1>3 DEF IosbInv
  <2>2. \A k \in 1 .. Len(stored[h]) :
          stored[h][k].msg \in Messages /\ Done(h, stored[h][k].msg) /\ stored[h][k].msg # m
    BY <1>1, <1>3, <1>6, <2>1, MessageTypes DEF IosbRow
  <2>3. \A i \in Places : iosb[h][i] # NoMsg =>
          iosb[h][i].msg \in Messages /\ Done(h, iosb[h][i].msg) /\ iosb[h][i].msg # m
    BY <1>1, <1>3, <1>6, <2>1, MessageTypes DEF IosbRow
  <2>4. ASSUME NEW j \in 1 .. Len(stored'[h]) PROVE Done(h, stored[h][j].msg)'
    <3>1. PICK n : n = stored'[h][j].msg
      OBVIOUS
    <3>2. n = m \/ (n \in Messages /\ Done(h, n))
      BY <1>8, <2>2, <2>4, <3>1
    <3>3. Done(h, n)'
      BY <1>3, <1>5, <1>7, <3>2
    <3>4. QED
      BY <3>1, <3>3
  <2>5. ASSUME NEW i \in Places, iosb'[h][i] # NoMsg PROVE Done(h, iosb[h][i].msg)'
    <3>1. PICK n : n = iosb'[h][i].msg
      OBVIOUS
    <3>2. n = m \/ (n \in Messages /\ Done(h, n))
      BY <1>8, <2>3, <2>5, <3>1
    <3>3. Done(h, n)'
      BY <1>3, <1>5, <1>7, <3>2
    <3>4. QED
      BY <3>1, <3>3
  <2>6. ASSUME NEW i \in Places, iosb'[h][i] # NoMsg, NEW j \in 1 .. Len(stored'[h]),
               iosb'[h][i].msg = stored'[h][j].msg
        PROVE  iosb'[h][i].buf = stored'[h][j].buf /\ iosb'[h][i].slot = stored'[h][j].slot
    <3>1. CASE iosb'[h][i] = [msg |-> m, buf |-> primary[h], slot |-> index[h]]
      <4>1. iosb'[h][i].msg = m /\ iosb'[h][i].buf = primary[h] /\ iosb'[h][i].slot = index[h]
        BY <3>1
      <4>2. stored'[h][j].msg = m
        BY <2>6, <4>1
      <4>3. stored'[h][j].buf = primary[h] /\ stored'[h][j].slot = index[h]
        BY <1>8, <2>2, <2>6, <4>2
      <4>4. QED
        BY <4>1, <4>3
    <3>2. CASE iosb'[h][i] = iosb[h][i]
      <4>1. iosb[h][i] # NoMsg /\ iosb[h][i].msg # m
        BY <2>3, <2>6, <3>2
      <4>2. PICK k \in 1 .. Len(stored[h]) : stored'[h][j] = stored[h][k]
        BY <1>8, <2>6, <3>2, <4>1
      <4>3. QED
        BY <2>1, <2>6, <3>2, <4>1, <4>2 DEF IosbRow
    <3>3. QED
      BY <1>8, <3>1, <3>2
  <2>7. QED
    BY <2>4, <2>5, <2>6 DEF IosbRow
<1>11. QED
  BY <1>9, <1>10 DEF IosbInv

LEMMA WriteStep ==
    ASSUME IInv, NEW d \in Deliverers, Write(d)
    PROVE  IInv'
<1>1. TypeInv /\ ListInv /\ LateInv /\ WindowInv /\ IosbInv
  BY DEF IInv
<1>2. PICK h, m : h = Head(subs[d]) /\ m = Message(d)
  OBVIOUS
<1>3. /\ h \in Handles /\ h \in opened /\ m \in Messages /\ Contains(subs[d], h)
      /\ dpc[d] = "write" /\ NextSubscriber(d)
      /\ IF HasRoom(h) THEN Store(h, m, offset[d]) ELSE UNCHANGED <<mem, index, count, stored>>
      /\ UNCHANGED <<iosb, iosbIndex>> \/ WriteIosb(h, m)
      /\ UNCHANGED sem \/ Signal(h)
      /\ late' = [late EXCEPT ![h][d] = IF idle[h] \/ ~Contains(route, h) THEN @ + 1 ELSE @]
      /\ UNCHANGED <<route, opened, mode, idle, apc, calls, primary, sent, offset>>
  BY <1>1, <1>2, WriteShape
<1>4. /\ subs' \in [Deliverers -> Seq(Handles)]
      /\ dpc' \in [Deliverers -> {"idle", "examine", "write"}]
      /\ dpc'[d] # "write" /\ (dpc'[d] = "idle" <=> subs'[d] = <<>>)
      /\ NoRepetition(subs'[d]) /\ ~Contains(subs'[d], h)
      /\ \A e : Contains(subs'[d], e) => Contains(subs[d], e)
      /\ \A e \in Deliverers : e # d => subs'[e] = subs[e] /\ dpc'[e] = dpc[e]
  BY <1>1, <1>2, <1>3, NextSubscriberFacts
<1>5. late \in [Handles -> [Deliverers -> Nat]]
  BY <1>1 DEF TypeInv
<1>6. PICK l : l = IF idle[h] \/ ~Contains(route, h) THEN late[h][d] + 1 ELSE late[h][d]
  OBVIOUS
<1>7. /\ late' = [late EXCEPT ![h] = [late[h] EXCEPT ![d] = l]]
      /\ l \in Nat
  BY <1>3, <1>5, <1>6
<1>8. /\ late' \in [Handles -> [Deliverers -> Nat]] /\ late'[h][d] = l
      /\ \A g \in Handles : \A e \in Deliverers : g # h \/ e # d => late'[g][e] = late[g][e]
  <2>1. [late[h] EXCEPT ![d] = l] \in [Deliverers -> Nat]
    BY <1>3, <1>5, <1>7
  <2>2. QED
    BY <1>3, <1>5, <1>7, <2>1
<1>9. TypeInv'
  <2>1. /\ mem' \in [Handles -> [Buffers -> [Cells -> Messages \union {NoMsg}]]]
        /\ count' \in [Handles -> 0 .. CountMod - 1]
        /\ index' \in [Handles -> 0 .. Slots - 1]
        /\ stored' \in [Handles -> Seq(Stored)]
    <3>1. CASE HasRoom(h)
      <4>1. Store(h, m, offset[d]) /\ offset[d] \in Nat
        BY <1>1, <1>3, <3>1 DEF TypeInv
      <4>2. QED
        BY <1>1, <1>3, <4>1, StoreTypes
    <3>2. CASE ~HasRoom(h)
      <4>1. UNCHANGED <<mem, index, count, stored>>
        BY <1>3, <3>2
      <4>2. QED
        BY <1>1, <4>1 DEF TypeInv, TypeOK
    <3>3. QED
      BY <3>1, <3>2
  <2>2. /\ iosb' \in [Handles -> [Places -> Iosbs]]
        /\ NumIosb > 0 => iosbIndex' \in [Handles -> 0 .. NumIosb - 1]
    <3>1. CASE UNCHANGED <<iosb, iosbIndex>>
      BY <1>1, <3>1 DEF TypeInv, TypeOK
    <3>2. CASE WriteIosb(h, m)
      BY <1>1, <1>3, <3>2, WriteIosbFacts
    <3>3. QED
      BY <1>3, <3>1, <3>2
  <2>3. sem' \in [Handles -> Nat]
    <3>1. sem \in [Handles -> Nat]
      BY <1>1 DEF TypeInv, TypeOK
    <3>2. CASE UNCHANGED sem
      BY <3>1, <3>2
    <3>3. CASE Signal(h)
      <4>1. sem[h] + 1 \in Nat
        BY <1>3, <3>1
      <4>2. QED
        BY <3>1, <3>3, <4>1 DEF Signal
    <3>4. QED
      BY <1>3, <3>2, <3>3
  <2>4. \A g \in Handles : \A i \in 0 .. NumIosb - 1 : iosb'[g][i] \in Iosbs
    BY <2>2 DEF Places
  <2>5. TypeOK'
    BY <1>1, <1>3, <1>4, <2>1, <2>2, <2>3, <2>4 DEF TypeInv, TypeOK
  <2>6. QED
    BY <1>1, <1>3, <1>8, <2>2, <2>5 DEF TypeInv
<1>10. ListInv'
  <2>1. ASSUME NEW e \in Deliverers
        PROVE  /\ dpc'[e] = "idle" <=> subs'[e] = <<>>
               /\ dpc'[e] # "idle" => sent'[e] > 0
               /\ NoRepetition(subs'[e])
               /\ \A g \in Handles : Contains(subs'[e], g) => g \in opened'
    BY <1>1, <1>3, <1>4 DEF ListInv
  <2>2. QED
    BY <1>1, <1>3, <2>1 DEF ListInv
<1>11. LateInv'
  <2>1. ASSUME NEW g \in Handles, NEW e \in Deliverers PROVE LateRow(g, e)'
    <3>1. LateRow(g, e)
      BY <1>1 DEF LateInv
    <3>2. CASE g = h /\ e = d
      <4>1. late[h][d] = 0
        BY <1>2, <1>3, <3>1, <3>2 DEF LateRow
      <4>2. QED
        BY <1>3, <1>4, <1>6, <1>8, <3>2, <4>1 DEF LateRow
    <3>3. CASE ~(g = h /\ e = d)
      <4>1. late'[g][e] = late[g][e]
        BY <1>8, <3>3
      <4>2. QED
        BY <1>3, <1>4, <3>1, <4>1 DEF LateRow
    <3>4. QED
      BY <3>2, <3>3
  <2>2. QED
    BY <2>1 DEF LateInv
<1>12. QED
  BY <1>9, <1>10, <1>11, WriteWindow, WriteIosbs DEF IInv

-----------------------------------------------------------------------------
(* The theorems *)

LEMMA InitIInv == Init => IInv
<1> SUFFICES ASSUME Init PROVE IInv
  OBVIOUS
<1>1. /\ route = <<>> /\ opened = {} /\ \A d \in Deliverers : subs[d] = <<>> /\ dpc[d] = "idle"
      /\ \A h \in Handles : count[h] = 0 /\ stored[h] = <<>> /\ mode[h] = "OVERWRITE"
      /\ \A h \in Handles : \A i \in Places : iosb[h][i] = NoMsg
      /\ \A h \in Handles : \A d \in Deliverers : late[h][d] = 0
  BY DEF Init, Places
<1>2. Len(<<>>) = 0 /\ <<>> \in Seq(Handles) /\ <<>> \in Seq(Stored)
  BY EmptySeq
<1>3. 0 \in 0 .. Slots - 1 /\ 0 \in 0 .. CountMod - 1 /\ 0 \in 0 .. MaxMsgs /\ Slots \in Nat /\ Slots > 0
  BY SizesAssumption
<1>4. TypeInv
  <2>1. /\ mem \in [Handles -> [Buffers -> [Cells -> Messages \union {NoMsg}]]]
        /\ primary \in [Handles -> Buffers]
    BY DEF Init, Buffers
  <2>2. index \in [Handles -> 0 .. Slots - 1] /\ count \in [Handles -> 0 .. CountMod - 1]
    BY <1>3 DEF Init
  <2>3. iosb \in [Handles -> [Places -> Iosbs]] /\ \A h \in Handles : \A i \in 0 .. NumIosb - 1 : iosb[h][i] \in Iosbs
    BY DEF Init, Places, Iosbs
  <2>4. NumIosb > 0 => iosbIndex \in [Handles -> 0 .. NumIosb - 1]
    BY SizesAssumption DEF Init
  <2>5. /\ idle \in [Handles -> BOOLEAN] /\ sem \in [Handles -> Nat]
        /\ apc \in [Handles -> {"wait", "awake"}] /\ mode \in [Handles -> AllModes]
        /\ late \in [Handles -> [Deliverers -> Nat]]
    BY DEF Init, AllModes
  <2>6. /\ sent \in [Deliverers -> 0 .. MaxMsgs] /\ offset \in [Deliverers -> Nat]
        /\ subs \in [Deliverers -> Seq(Handles)] /\ stored \in [Handles -> Seq(Stored)]
        /\ dpc \in [Deliverers -> {"idle", "examine", "write"}]
    BY <1>2, <1>3 DEF Init
  <2>7. QED
    BY <1>1, <1>2, <2>1, <2>2, <2>3, <2>4, <2>5, <2>6 DEF TypeInv, TypeOK
<1>5. ListInv
  BY <1>1, <1>2 DEF ListInv, NoRepetition, Contains
<1>6. LateInv
  BY <1>1 DEF LateInv, LateRow
<1>7. WindowInv
  <2>1. ASSUME NEW h \in Handles PROVE WindowRow(h)
    <3>1. Unread(h) = 0
      BY <1>1, <1>3 DEF Unread
    <3>2. QED
      BY <1>1, <1>2, <1>3, <3>1 DEF WindowRow
  <2>2. QED
    BY <2>1 DEF WindowInv
<1>8. IosbInv
  BY <1>1, <1>2 DEF IosbInv, IosbRow
<1>9. QED
  BY <1>4, <1>5, <1>6, <1>7, <1>8 DEF IInv

LEMMA NextIInv == IInv /\ [Next]_vars => IInv'
<1> SUFFICES ASSUME IInv, [Next]_vars PROVE IInv'
  OBVIOUS
<1>1. ASSUME NEW d \in Deliverers, Deliver(d) PROVE IInv'
  BY <1>1, DistributeStep, UnknownLabelStep, ExamineStep, WriteStep DEF Deliver
<1>2. ASSUME NEW h \in Handles, Application(h) PROVE IInv'
  BY <1>2, OpenRecvStep, CloseRecvStep, DismissSteps, IdleSteps, EmptySteps, AppWaitStep
  DEF Application
<1>3. CASE UNCHANGED vars
  <2>1. TypeInv /\ ListInv /\ LateInv /\ WindowInv /\ IosbInv
    BY DEF IInv
  <2>2. TypeInv'
    BY <1>3, <2>1 DEF TypeInv, TypeOK, vars, handles, buffer, status, threads, history
  <2>3. ListInv'
    BY <1>3, <2>1 DEF ListInv, vars, handles, threads
  <2>4. LateInv'
    BY <1>3, <2>1 DEF LateInv, LateRow, vars, handles, threads, history
  <2>5. WindowInv'
    BY <1>3, <2>1, WindowKept DEF vars, handles, history
  <2>6. IosbInv'
    BY <1>3, <2>1, IosbKept DEF vars, handles, status, threads, history
  <2>7. QED
    BY <2>2, <2>3, <2>4, <2>5, <2>6 DEF IInv
<1>4. QED
  BY <1>1, <1>2, <1>3 DEF Next

\* The inductive invariant of distribute_recvd_label and the calls on a handle.
THEOREM RecvInvariant == Spec => []IInv
BY InitIInv, NextIInv, PTL DEF Spec

\* Every variable keeps its type; buf_index and iosb_index, which the code adds
\* to pointers, stay inside the slots and the IOSBs.
THEOREM RecvTypes == Spec => []TypeOK
<1>1. IInv => TypeOK
  BY DEF IInv, TypeInv
<1>2. QED
  BY <1>1, RecvInvariant, PTL

\* The messages of the window are the last Unread(h) of the history.
LEMMA LastIsWindow ==
    ASSUME IInv, NEW h \in Handles, NEW s \in LastStored(h, Unread(h))
    PROVE  \E t \in 0 .. Unread(h) - 1 : s = Newest(h, t) /\ t \in Nat
<1>1. PICK j \in DOMAIN stored[h] : j > Len(stored[h]) - Unread(h) /\ s = stored[h][j]
  BY DEF LastStored
<1>2. DOMAIN stored[h] = 1 .. Len(stored[h]) /\ Len(stored[h]) \in Nat
  BY LenProperties DEF IInv, TypeInv, TypeOK
<1>3. Unread(h) \in Nat
  BY SizesAssumption DEF IInv, TypeInv, TypeOK, Unread
<1>4. Len(stored[h]) - j \in 0 .. Unread(h) - 1 /\ Len(stored[h]) - (Len(stored[h]) - j) = j
  BY <1>1, <1>2, <1>3
<1>5. QED
  BY <1>1, <1>4 DEF Newest

\* Every message that recv_count reports is whole and in the buffer in use,
\* for every number of slots, threads and handles, whatever dismissals, resets
\* and redirections come between, unless one of them came with an offset.
THEOREM UnreadKept == Spec => []UnreadIntact
<1>1. IInv => UnreadIntact
  <2> SUFFICES ASSUME IInv, NEW h \in Handles
               PROVE  /\ Unread(h) <= Len(stored[h])
                      /\ \A s \in LastStored(h, Unread(h)) :
                           s.buf = primary[h] /\ (Spilled(h) \/ Intact(h, s))
    BY DEF UnreadIntact
  <2>1. WindowRow(h)
    BY DEF IInv, WindowInv
  <2>2. ASSUME NEW s \in LastStored(h, Unread(h)), ~Spilled(h)
        PROVE  Intact(h, s)
    <3>1. PICK t \in 0 .. Unread(h) - 1 : s = Newest(h, t) /\ t \in Nat
      BY LastIsWindow
    <3>2. Unread(h) \in Nat /\ Len(stored[h]) \in Nat /\ Unread(h) <= Len(stored[h])
          /\ stored[h] \in Seq(Stored) /\ DOMAIN stored[h] = 1 .. Len(stored[h])
      BY <2>1, SizesAssumption, LenProperties DEF IInv, TypeInv, TypeOK, Unread, WindowRow
    <3>3. ASSUME NEW u \in 0 .. t PROVE Newest(h, u).off = 0
      <4>1. PICK j : j = Len(stored[h]) - u
        OBVIOUS
      <4>2. j \in 1 .. Len(stored[h]) /\ j > Len(stored[h]) - Unread(h)
        BY <3>1, <3>2, <4>1
      <4>3. Newest(h, u) \in LastStored(h, Unread(h))
        BY <3>2, <4>1, <4>2 DEF LastStored, Newest
      <4>4. ~(Newest(h, u).off > 0)
        BY <2>2, <4>3 DEF Spilled
      <4>5. Newest(h, u).off \in Nat
        <5>1. stored[h][j] \in Stored
          BY <3>2, <4>2, ElementOfSeq
        <5>2. QED
          BY <4>1, <5>1 DEF Newest, Stored
      <4>6. QED
        BY <4>4, <4>5
    <3>4. PlainSince(h, t)
      BY <3>3 DEF PlainSince
    <3>5. QED
      BY <2>1, <3>1, <3>4 DEF WindowRow
  <2>3. ASSUME NEW s \in LastStored(h, Unread(h)) PROVE s.buf = primary[h]
    <3>1. PICK t \in 0 .. Unread(h) - 1 : s = Newest(h, t) /\ t \in Nat
      BY LastIsWindow
    <3>2. QED
      BY <2>1, <3>1 DEF WindowRow
  <2>4. QED
    BY <2>1, <2>2, <2>3 DEF WindowRow
<1>2. QED
  BY <1>1, RecvInvariant, PTL

\* A receive IOSB whose message is stored names the buffer and the slot where
\* it is, for every number of IOSBs, also when their ring has wrapped.
THEOREM IosbsLead == Spec => []IosbLeadsToMessage
<1>1. IInv => IosbLeadsToMessage
  <2> SUFFICES ASSUME IInv, NEW h \in Handles, NEW i \in 0 .. NumIosb - 1,
                      NEW s \in LastStored(h, Unread(h)),
                      iosb[h][i] # NoMsg, iosb[h][i].msg = s.msg
               PROVE  iosb[h][i].buf = s.buf /\ iosb[h][i].slot = s.slot
    BY DEF IosbLeadsToMessage
  <2>1. IosbRow(h)
    BY DEF IInv, IosbInv
  <2>2. PICK j \in DOMAIN stored[h] : s = stored[h][j]
    BY DEF LastStored
  <2>3. j \in 1 .. Len(stored[h])
    BY LenProperties DEF IInv, TypeInv, TypeOK
  <2>4. QED
    BY <2>1, <2>2, <2>3 DEF IosbRow, Places
<1>2. QED
  BY <1>1, RecvInvariant, PTL

\* A thread that read is_idle or the subscribers before the call of the
\* application serves an idle or closed handle once more, never twice.
THEOREM AtMostOneLate == Spec => []OneLateMessage
<1>1. IInv => OneLateMessage
  BY DEF IInv, LateInv, LateRow, OneLateMessage
<1>2. QED
  BY <1>1, RecvInvariant, PTL
=============================================================================
