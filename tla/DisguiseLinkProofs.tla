------------------------- MODULE DisguiseLinkProofs -------------------------
(***************************************************************************)
(* What DisguiseLink delivers, for every value of its constants.           *)
(***************************************************************************)
EXTENDS DisguiseLink, SequenceTheorems, WellFoundedInduction, TLAPS

-----------------------------------------------------------------------------
(* The inductive invariant.  It holds as long as the clock tells queued     *)
(* data cells apart, with fewer data cells than there are sequence numbers. *)

\* Messages occupy disjoint intervals of ordinals, in order, below framed.
MessagesInOrder ==
    /\ \A i \in DOMAIN msgs :
        msgs[i].first <= msgs[i].last /\ msgs[i].last < framed
    /\ \A i, j \in DOMAIN msgs : i < j => msgs[i].last < msgs[j].first

IsFragmentOf(c, m) ==
    /\ c.ord \in CellsOf(m) /\ c.id = m.id /\ c.seq = c.ord
    /\ c.end = (m.end /\ c.ord = m.last)

\* A data cell is a fragment of one of the messages ms.
IsFragment(c, ms) == \E i \in DOMAIN ms : IsFragmentOf(c, ms[i])

QueueInv ==
    /\ \A x \in DataQueued : IsFragment(x.cell, msgs)
    /\ \A x, y \in DataQueued :
        x # y => /\ x.cell.ord # y.cell.ord
                 /\ x.cell.ord < y.cell.ord => x.prio < y.prio

IsDataAt(i) == i \in DOMAIN wire /\ wire[i].type = "data"

OnWire(o) == \E i \in DOMAIN wire : IsDataAt(i) /\ wire[i].ord = o

\* The data cells in flight are those from ordinal arrived on, in order and
\* without a gap; a data cell still queued is behind all of them.
WireInv ==
    /\ arrived <= framed
    /\ \A i \in DOMAIN wire : IsDataAt(i) =>
        /\ IsFragment(wire[i], msgs)
        /\ arrived <= wire[i].ord
        /\ \A o \in arrived..(wire[i].ord - 1) :
            \E j \in 1..(i - 1) : IsDataAt(j) /\ wire[j].ord = o
        /\ \A x \in DataQueued : wire[i].ord < x.cell.ord
    /\ \A i, j \in DOMAIN wire :
        IsDataAt(i) /\ IsDataAt(j) /\ i < j => wire[i].ord < wire[j].ord
    /\ \A x \in DataQueued : arrived <= x.cell.ord
    /\ up /\ ~panicked =>
        \A o \in arrived..(framed - 1) :
            OnWire(o) \/ \E x \in DataQueued : x.cell.ord = o
    /\ panicked => ~writing

LastOf(s) == s.buf[Len(s.buf)]

StartsMessage(o, ms) == \E i \in DOMAIN ms : ms[i].first = o

\* o is the last ordinal of an unterminated message of ms with this id, or the
\* message goes on and o is the cell before ordinal a.
LeftOpen(id, o, ms, a) ==
    \E i \in DOMAIN ms :
        /\ ms[i].id = id /\ o \in CellsOf(ms[i])
        /\ \/ o = ms[i].last /\ ~ms[i].end
           \/ o < ms[i].last /\ o = a - 1

\* An open stream holds consecutive ordinals from the start of a message on.
\* It is waiting for the next cell of its last message, or its last message
\* came to an end without the end flag.
StreamOK(id, s, ms, a, del) ==
    /\ s.open \in BOOLEAN
    /\ ~s.open => s.buf = <<>>
    /\ s.open =>
        /\ Len(s.buf) > 0
        /\ \A k \in 1..Len(s.buf) : s.buf[k] = s.buf[1] + k - 1
        /\ s.lastSeq = LastOf(s) /\ LastOf(s) < a
        /\ StartsMessage(s.buf[1], ms)
        /\ LeftOpen(id, LastOf(s), ms, a)
        /\ LastOf(s) = a - 1 => \A k \in DOMAIN del : del[k] < s.buf[1]

StreamInv ==
    \A id \in CellIDs : StreamOK(id, streams[id], msgs, arrived, delivered)

\* While a message is arriving, the stream of its ID is open.
MidMessageOpen ==
    \A i \in DOMAIN msgs :
        msgs[i].first < arrived /\ arrived <= msgs[i].last
            => streams[msgs[i].id].open

DeliveredInv == \A k \in DOMAIN delivered : delivered[k] < arrived

\* DeliveredInOrder, WholeMessages and RejectedOnlyAfterUnterminated while
\* inTurn.
InOrder ==
    \A i, j \in DOMAIN delivered : i < j => delivered[i] < delivered[j]

Whole ==
    \A i \in DOMAIN msgs :
        \/ CellsOf(msgs[i]) \subseteq Delivered
        \/ CellsOf(msgs[i]) \cap Delivered = {}

RejectedForCause ==
    \A x \in rejected : \E j \in DOMAIN msgs :
        /\ x \in CellsOf(msgs[j])
        /\ \E i \in 1..(j - 1) : msgs[i].id = msgs[j].id /\ ~msgs[i].end

LinkInv ==
    /\ TypeOK
    /\ MessagesInOrder
    /\ QueueInv
    /\ WireInv
    /\ StreamInv
    /\ MidMessageOpen
    /\ DeliveredInv
    /\ InOrder
    /\ Whole
    /\ RejectedForCause

-----------------------------------------------------------------------------
(* Type correctness.                                                       *)

\* A remainder modulo SeqMod is a sequence number.
LEMMA ModType == \A x \in Nat : x % SeqMod \in 0..(SeqMod - 1)
  BY LinkAssumption

\* Scheduling a message keeps the queue a set of well-formed items, and the
\* clock moves to its last reading.
LEMMA WriteType ==
  ASSUME TypeOK, NEW k \in 0..MaxFrags, NEW id \in CellIDs, NEW end \in BOOLEAN,
         Write(k, id, end)
  PROVE  TypeOK'
  <1>1. framed + k <= MaxCells /\ framed \in Nat /\ MaxCells \in Nat /\ k \in Nat
    BY LinkAssumption DEF TypeOK, Write
  <1>2. PICK st \in Stamps(k) :
           /\ queue' = ScheduleCells(Fragment(k, id, end), st)
           /\ now' = IF k = 0 THEN now ELSE st[k]
           /\ IF Forward(k, st) THEN UNCHANGED setBacks ELSE SetBack
           /\ latest' \in {latest} \cup {st[i] : i \in 1..k}
           /\ inTurn' = (inTurn /\ StampsInTurn(k, st))
    BY DEF Write
  <1>3. st \in [1..k -> 0..MaxTime]
    BY <1>2 DEF Stamps
  <1>4. \A i \in 1..k : DataCell(id, framed + i - 1, end /\ i = k) \in Cell
    <2> TAKE i \in 1..k
    <2>1. framed + i - 1 \in Nat /\ framed + i - 1 \in Ordinals
      BY <1>1 DEF Ordinals
    <2>2. (framed + i - 1) % SeqMod \in 0..(SeqMod - 1)
      BY <2>1, ModType
    <2> QED
      BY <2>1, <2>2 DEF DataCell, Cell
  <1>5. queue' \subseteq [cell : Cell, prio : Nat]
    <2>1. \A i \in 1..k : st[i] \in Nat
      BY <1>3 DEF TypeOK
    <2>2. queue \subseteq [cell : Cell, prio : Nat]
      BY DEF TypeOK
    <2> QED
      BY <1>1, <1>2, <1>4, <2>1, <2>2 DEF ScheduleCells, Fragment
  <1>6. now' \in 0..MaxTime /\ latest' \in 0..MaxTime
    <2>1. now \in 0..MaxTime /\ latest \in 0..MaxTime
      BY DEF TypeOK
    <2>2. \A i \in 1..k : st[i] \in 0..MaxTime
      BY <1>3
    <2>3. k = 0 \/ k \in 1..k
      BY <1>1
    <2>4. now' \in 0..MaxTime
      BY <1>2, <2>1, <2>2, <2>3
    <2>5. latest' \in 0..MaxTime
      BY <1>2, <2>1, <2>2
    <2> QED
      BY <2>4, <2>5
  <1>6a. setBacks' \in 0..MaxSetBacks
    BY <1>2, LinkAssumption DEF TypeOK, SetBack
  <1>6b. inTurn' \in BOOLEAN
    BY <1>2, Zenon DEF TypeOK
  <1>7. msgs' \in Seq(Message)
    <2>1. CASE k = 0
      BY <2>1 DEF Write, TypeOK
    <2>2. CASE k # 0
      <3>1. [id |-> id, first |-> framed, last |-> framed + k - 1, end |-> end]
              \in Message
        BY <1>1, <2>2 DEF Message, Ordinals
      <3> QED
        BY <2>2, <3>1 DEF Write, TypeOK
    <2> QED BY <2>1, <2>2
  <1>8. framed' \in 0..MaxCells
    BY <1>1 DEF Write
  <1> QED
    BY <1>5, <1>6, <1>6a, <1>6b, <1>7, <1>8 DEF Write, TypeOK, wireVars, receiverVars

\* The values ProcessCell reads out of a stream and writes back are well typed.
LEMMA ReceiveType ==
  ASSUME TypeOK, ReceiveData
  PROVE  TypeOK'
  <1> DEFINE c == Head(wire)
  <1>1. /\ c.type = "data" /\ c.id \in CellIDs /\ c.seq \in 0..(SeqMod - 1)
        /\ c.ord \in Ordinals
    <2>1. c \in Cell
      BY HeadTailProperties DEF TypeOK, ReceiveData
    <2>2. c.type = "data"
      BY DEF ReceiveData
    <2> HIDE DEF c
    <2> QED
      BY <2>1, <2>2 DEF Cell
  <1>2. streams[c.id] \in Stream
    BY <1>1 DEF TypeOK
  <1>3. buffer(c) \in Seq(Ordinals) /\ Append(buffer(c), c.ord) \in Seq(Ordinals)
    <2>1. buffer(c) \in Seq(Ordinals)
      BY <1>2, EmptySeq DEF Stream, buffer
    <2> QED
      BY <1>1, <2>1, AppendProperties
  <1>4. lastSeq(c) \in 0..(SeqMod - 1)
    BY <1>1, <1>2, LinkAssumption DEF Stream, Prev, lastSeq
  <1>5. NoStream \in Stream
    BY LinkAssumption DEF NoStream, Stream
  <1>6. ProcessCell(c)
    BY DEF ReceiveData
  <1> HIDE DEF c
  <1>7. /\ streams' \in [CellIDs -> Stream]
        /\ inbound' \in Seq(Ordinals) /\ delivered' \in Seq(Ordinals)
        /\ rejected' \subseteq Ordinals
    <2>1. CASE Reject(c)
      <3>1. [open |-> TRUE, lastSeq |-> lastSeq(c), buf |-> buffer(c)] \in Stream
        BY <1>3, <1>4 DEF Stream
      <3> QED
        BY <1>1, <2>1, <3>1 DEF Reject, TypeOK
    <2>2. CASE Release(c)
      BY <1>3, <1>5, <2>2, ConcatProperties DEF Release, TypeOK
    <2>3. CASE Extend(c)
      <3>1. [open |-> TRUE, lastSeq |-> c.seq, buf |-> Append(buffer(c), c.ord)]
              \in Stream
        BY <1>1, <1>3 DEF Stream
      <3> QED
        BY <2>3, <3>1 DEF Extend, TypeOK
    <2> QED
      BY <1>6, <2>1, <2>2, <2>3 DEF ProcessCell
  <1>8. wire' \in Seq(Cell)
    BY DEF ReceiveData, TypeOK
  <1> QED
    BY <1>7, <1>8 DEF ReceiveData, TypeOK, senderVars

\* The link keeps the types of its variables.
LEMMA TypeStep == TypeOK /\ [Next]_vars => TypeOK'
  <1> SUFFICES ASSUME TypeOK, [Next]_vars PROVE TypeOK'
    OBVIOUS
  <1>1. ASSUME NEW k \in 0..MaxFrags, NEW id \in CellIDs, NEW end \in BOOLEAN,
               Write(k, id, end)
        PROVE TypeOK'
    BY <1>1, WriteType
  <1>2. CASE SendCell
    <2>1. PICK x \in queue : queue' = queue \ {x} /\ wire' = Append(wire, x.cell)
      BY <1>2 DEF SendCell
    <2>2. x.cell \in Cell
      BY DEF TypeOK
    <2> QED
      BY <1>2, <2>1, <2>2 DEF SendCell, TypeOK, receiverVars, clockVars
  <1>2a. CASE SendFails
    BY <1>2a DEF SendFails, TypeOK, receiverVars, clockVars
  <1>3. CASE EncodePanics
    BY <1>3 DEF EncodePanics, TypeOK, receiverVars, wireVars, clockVars
  <1>4. CASE WriteReturns
    BY <1>4 DEF WriteReturns, TypeOK, receiverVars, wireVars, clockVars
  <1>5. CASE CoverTick
    <2>1. dummies \in Nat /\ dummies' \in 0..MaxDummies
      BY <1>5, LinkAssumption DEF CoverTick, TypeOK
    <2>2. DummyCell(dummies) \in Cell
      BY <2>1 DEF DummyCell, Cell
    <2>3. now + ProbingInterval \in Nat
      BY LinkAssumption DEF TypeOK
    <2> QED
      BY <1>5, <2>1, <2>2, <2>3
         DEF CoverTick, TypeOK, receiverVars, wireVars, clockVars
  <1>6. CASE ClockTick
    BY <1>6, LinkAssumption DEF ClockTick, TypeOK, receiverVars, wireVars
  <1>7. CASE ClockSetBack
    BY <1>7, LinkAssumption DEF ClockSetBack, SetBack, TypeOK, receiverVars, wireVars
  <1>8. CASE ReceiveData
    BY <1>8, ReceiveType
  <1>9. CASE DropCell
    BY <1>9 DEF DropCell, TypeOK, receiverVars, senderVars
  <1>10. ASSUME NEW n \in ReadSizes, Read(n)
         PROVE TypeOK'
    <2>1. n \in Nat
      BY LinkAssumption
    <2>2. read' \in Seq(Ordinals)
      BY <1>10, <2>1 DEF Read, TypeOK
    <2> QED
      BY <1>10, <2>2 DEF Read, TypeOK, senderVars, wireVars
  <1>11. CASE UNCHANGED vars
    BY <1>11 DEF vars, TypeOK
  <1> QED
    BY <1>1, <1>2, <1>2a, <1>3, <1>4, <1>5, <1>6, <1>7, <1>8, <1>9, <1>10, <1>11
       DEF Next

\* Every state of the link is well typed.
THEOREM TypeCorrect == Spec => []TypeOK
  <1>1. Init => TypeOK
    <2> SUFFICES ASSUME Init PROVE TypeOK
      OBVIOUS
    <2>1. NoStream \in Stream
      BY LinkAssumption DEF NoStream, Stream
    <2>2. streams \in [CellIDs -> Stream]
      BY <2>1 DEF Init
    <2>3. \A S : <<>> \in Seq(S)
      BY EmptySeq
    <2>4. /\ 0 \in 0..MaxCells /\ 0 \in 0..MaxDummies /\ 0 \in 0..MaxTime
          /\ 0 \in 0..MaxSetBacks
      BY LinkAssumption
    <2> QED
      BY <2>2, <2>3, <2>4, Zenon DEF Init, TypeOK
  <1> QED
    BY <1>1, TypeStep, PTL DEF Spec

-----------------------------------------------------------------------------
(* The steps that preserve the inductive invariant.                        *)

\* Below the wrap-around the sequence number is the ordinal itself.
LEMMA ModSmall ==
  ASSUME MaxCells <= SeqMod
  PROVE  \A x \in Ordinals : x % SeqMod = x
  BY LinkAssumption DEF Ordinals

\* A data cell keeps its message when another one is appended.
LEMMA FragmentStays ==
  ASSUME NEW ms \in Seq(Message), NEW m \in Message, NEW c, IsFragment(c, ms)
  PROVE  IsFragment(c, Append(ms, m))
  <1>1. PICK i \in DOMAIN ms : IsFragmentOf(c, ms[i])
    BY DEF IsFragment
  <1>2. i \in DOMAIN Append(ms, m) /\ Append(ms, m)[i] = ms[i]
    BY AppendProperties
  <1> QED
    BY <1>1, <1>2 DEF IsFragment

\* A fragment of a message lies below framed.
LEMMA FragmentBelow ==
  ASSUME TypeOK, MessagesInOrder, NEW c, IsFragment(c, msgs)
  PROVE  c.ord \in Nat /\ c.ord < framed /\ c.seq = c.ord
  <1>1. PICK i \in DOMAIN msgs : IsFragmentOf(c, msgs[i])
    BY DEF IsFragment
  <1>2. /\ msgs[i].first \in Nat /\ msgs[i].last \in Nat /\ framed \in Nat
        /\ msgs[i].last < framed
    <2>1. msgs[i] \in Message
      BY DEF TypeOK
    <2> QED
      BY <2>1, LinkAssumption DEF TypeOK, MessagesInOrder, Message, Ordinals
  <1> QED
    BY <1>1, <1>2 DEF IsFragmentOf, CellsOf

\* Framing and scheduling a message of k cells, stamped in turn.
LEMMA WriteStep ==
  ASSUME LinkInv, inTurn', MaxCells <= SeqMod,
         NEW k \in 0..MaxFrags, NEW id \in CellIDs, NEW end \in BOOLEAN,
         Write(k, id, end)
  PROVE  LinkInv'
  <1>i. /\ TypeOK /\ MessagesInOrder /\ QueueInv /\ WireInv /\ StreamInv
        /\ MidMessageOpen /\ DeliveredInv /\ InOrder /\ Whole
        /\ RejectedForCause
    BY DEF LinkInv
  <1>0. TypeOK'
    BY <1>i, WriteType
  <1>1. /\ framed + k <= MaxCells /\ framed \in Nat /\ MaxCells \in Nat /\ k \in Nat
        /\ framed' = framed + k /\ ~panicked /\ ~panicked'
        /\ arrived \in Nat /\ arrived <= framed
    BY <1>i, LinkAssumption DEF TypeOK, Write, WireInv
  <1>2. /\ wire' = wire /\ up' = up /\ streams' = streams /\ arrived' = arrived
        /\ rejected' = rejected /\ delivered' = delivered
    BY DEF Write, wireVars, receiverVars
  <1>3. PICK st \in Stamps(k) :
           /\ queue' = ScheduleCells(Fragment(k, id, end), st)
           /\ inTurn' = (inTurn /\ StampsInTurn(k, st))
    BY DEF Write
  <1>4. /\ \A i \in 1..k : st[i] \in Nat
        /\ \A i \in 1..k : \A x \in DataQueued : x.prio < st[i]
        /\ \A i, j \in 1..k : i < j => st[i] < st[j]
    <2>1. st \in [1..k -> 0..MaxTime]
      BY <1>3 DEF Stamps
    <2>2. StampsInTurn(k, st)
      BY <1>3
    <2> QED
      BY <2>1, <2>2, LinkAssumption DEF StampsInTurn
  <1>5. CASE k = 0
    <2>1. queue' = queue /\ msgs' = msgs /\ framed' = framed
      BY <1>1, <1>3, <1>5 DEF ScheduleCells, Fragment, Write
    <2> QED
      BY <1>i, <1>0, <1>1, <1>2, <2>1 DEF LinkInv, MessagesInOrder, QueueInv, WireInv, StreamInv,
         MidMessageOpen, DeliveredInv, InOrder, Whole, Delivered,
         RejectedForCause, DataQueued, IsFragment, IsDataAt, OnWire
  <1>6. CASE k # 0
    <2> DEFINE m == [id |-> id, first |-> framed, last |-> framed + k - 1,
                     end |-> end]
               item(i) == [cell |-> DataCell(id, framed + i - 1, end /\ i = k),
                           prio |-> st[i]]
    <2>1. /\ msgs' = Append(msgs, m) /\ m \in Message
          /\ msgs \in Seq(Message)
      BY <1>i, <1>1, <1>6 DEF Write, Message, Ordinals, TypeOK
    <2>2. /\ Len(msgs') = Len(msgs) + 1 /\ msgs'[Len(msgs) + 1] = m
          /\ \A i \in DOMAIN msgs : msgs'[i] = msgs[i]
          /\ DOMAIN msgs = 1..Len(msgs) /\ DOMAIN msgs' = 1..(Len(msgs) + 1)
          /\ Len(msgs) \in Nat
          /\ \A i \in DOMAIN msgs : msgs[i] \in Message
      BY <2>1, AppendProperties
    <2>3. DataQueued' = DataQueued \cup {item(i) : i \in 1..k}
      BY <1>1, <1>3 DEF DataQueued, ScheduleCells, Fragment, DataCell
    <2>4. \A i \in 1..k :
            /\ item(i).cell.ord = framed + i - 1 /\ item(i).prio = st[i]
            /\ IsFragmentOf(item(i).cell, m)
      <3> TAKE i \in 1..k
      <3>1. framed + i - 1 \in Ordinals
        BY <1>1 DEF Ordinals
      <3> QED
        BY <1>1, <1>6, <3>1, ModSmall DEF DataCell, IsFragmentOf, CellsOf
    <2>5. \A i \in DOMAIN msgs :
            /\ msgs[i].first \in Nat /\ msgs[i].last \in Nat
            /\ msgs[i].first <= msgs[i].last /\ msgs[i].last < framed
      BY <1>i, <2>2 DEF MessagesInOrder, Message, Ordinals
    <2>6. \A x \in DataQueued : /\ x.cell.ord \in Nat /\ x.cell.ord < framed
                                /\ x.prio \in Nat /\ IsFragment(x.cell, msgs)
      <3> TAKE x \in DataQueued
      <3>1. IsFragment(x.cell, msgs)
        BY <1>i DEF QueueInv
      <3>2. x.prio \in Nat
        BY <1>i DEF DataQueued, TypeOK
      <3> QED
        BY <1>i, <3>1, <3>2, FragmentBelow
    <2>7. \A c : IsFragment(c, msgs) => IsFragment(c, msgs')
      BY <2>1, FragmentStays
    <2>8. \A i \in 1..k : IsFragment(item(i).cell, msgs')
      <3> HIDE DEF item, m
      <3> QED
        BY <2>2, <2>4 DEF IsFragment
    <2> HIDE DEF item
    <2>9. MessagesInOrder'
      <3>1. /\ msgs'[Len(msgs) + 1].first = framed
            /\ msgs'[Len(msgs) + 1].last = framed + k - 1
        BY <2>2
      <3> HIDE DEF m
      <3>2. ASSUME NEW i \in DOMAIN msgs'
            PROVE  msgs'[i].first <= msgs'[i].last /\ msgs'[i].last < framed'
        BY <1>1, <1>6, <2>2, <2>5, <3>1
      <3>3. ASSUME NEW i \in DOMAIN msgs', NEW j \in DOMAIN msgs', i < j
            PROVE  msgs'[i].last < msgs'[j].first
        <4>1. i \in DOMAIN msgs
          BY <2>2, <3>3
        <4> QED
          BY <1>i, <2>2, <2>5, <3>1, <3>3, <4>1 DEF MessagesInOrder
      <3> QED
        BY <3>2, <3>3 DEF MessagesInOrder
    <2>10. QueueInv'
      <3>2. \A x \in DataQueued' : IsFragment(x.cell, msgs')
        <4>1. \A x \in DataQueued : IsFragment(x.cell, msgs')
          BY <2>6, <2>7
        <4> QED
          BY <2>3, <2>8, <4>1
      <3>3. ASSUME NEW x \in DataQueued', NEW y \in DataQueued', x # y
            PROVE  /\ x.cell.ord # y.cell.ord
                   /\ x.cell.ord < y.cell.ord => x.prio < y.prio
        <4>1. CASE x \in DataQueued /\ y \in DataQueued
          BY <1>i, <3>3, <4>1 DEF QueueInv
        <4>2. ASSUME x \in DataQueued, NEW j \in 1..k, y = item(j)
              PROVE  x.cell.ord < y.cell.ord /\ x.prio < y.prio
          BY <1>1, <1>4, <2>4, <2>6, <4>2
        <4>3. ASSUME NEW i \in 1..k, x = item(i), y \in DataQueued
              PROVE  y.cell.ord < x.cell.ord
          BY <1>1, <2>4, <2>6, <4>3
        <4>4. ASSUME NEW i \in 1..k, x = item(i), NEW j \in 1..k, y = item(j)
              PROVE  /\ x.cell.ord # y.cell.ord
                     /\ x.cell.ord < y.cell.ord => x.prio < y.prio
          <5>1. i # j
            BY <3>3, <4>4
          <5> QED
            BY <1>1, <1>4, <2>4, <4>4, <5>1
        <4>5. /\ x \in DataQueued => x.cell.ord \in Nat
              /\ y \in DataQueued => y.cell.ord \in Nat
              /\ \A i \in 1..k : item(i).cell.ord \in Nat
          BY <1>1, <2>4, <2>6
        <4> QED
          BY <2>3, <4>1, <4>2, <4>3, <4>4, <4>5
      <3> QED
        BY <3>2, <3>3 DEF QueueInv
    <2>11. WireInv'
      <3>1. \A i \in DOMAIN wire : IsDataAt(i) => wire[i].ord \in Nat /\ wire[i].ord < framed
        BY <1>i, FragmentBelow DEF WireInv
      <3>2. \A x \in DataQueued' : x \in DataQueued \/ framed <= x.cell.ord
        BY <1>1, <2>3, <2>4
      <3>3. \A o \in framed..(framed' - 1) : \E x \in DataQueued' : x.cell.ord = o
        <4> TAKE o \in framed..(framed' - 1)
        <4>1. o - framed + 1 \in 1..k
          BY <1>1
        <4>2. item(o - framed + 1).cell.ord = o
          BY <1>1, <2>4, <4>1
        <4> QED
          BY <2>3, <4>1, <4>2
      <3>4. \A i : IsDataAt(i)' <=> IsDataAt(i)
        BY <1>2 DEF IsDataAt
      <3>5. up' /\ ~panicked' => \A o \in arrived'..(framed' - 1) :
                OnWire(o)' \/ \E x \in DataQueued' : x.cell.ord = o
        <4> SUFFICES ASSUME up, NEW o \in arrived..(framed' - 1)
                     PROVE  OnWire(o)' \/ \E x \in DataQueued' : x.cell.ord = o
          BY <1>2
        <4>1. CASE o < framed
          <5>1. OnWire(o) \/ \E x \in DataQueued : x.cell.ord = o
            BY <1>i, <1>1, <4>1 DEF WireInv
          <5>2. OnWire(o) => OnWire(o)'
            BY <1>2, <3>4 DEF OnWire
          <5> QED
            BY <2>3, <5>1, <5>2
        <4>2. CASE ~(o < framed)
          BY <1>1, <3>3, <4>2
        <4> QED BY <4>1, <4>2
      <3>6. \A x \in DataQueued' : arrived' <= x.cell.ord
        <4>1. \A x \in DataQueued : arrived <= x.cell.ord
          BY <1>i DEF WireInv
        <4>2. \A i \in 1..k : arrived <= item(i).cell.ord
          BY <1>1, <2>4
        <4> QED
          BY <1>2, <2>3, <4>1, <4>2
      <3>7. ASSUME NEW i \in DOMAIN wire, IsDataAt(i)
            PROVE  /\ IsFragment(wire[i], msgs')
                   /\ arrived <= wire[i].ord
                   /\ \A o \in arrived..(wire[i].ord - 1) :
                        \E j \in 1..(i - 1) : IsDataAt(j) /\ wire[j].ord = o
                   /\ \A x \in DataQueued' : wire[i].ord < x.cell.ord
        <4>1. IsFragment(wire[i], msgs')
          BY <1>i, <2>7, <3>7 DEF WireInv
        <4>2. \A x \in DataQueued' : wire[i].ord < x.cell.ord
          <5>1. \A x \in DataQueued : wire[i].ord < x.cell.ord
            BY <1>i, <3>7 DEF WireInv
          <5>2. \A j \in 1..k : wire[i].ord < item(j).cell.ord
            BY <1>1, <2>4, <3>1, <3>7
          <5> QED
            BY <2>3, <5>1, <5>2
        <4> QED
          BY <1>i, <3>7, <4>1, <4>2 DEF WireInv
      <3>8. arrived' <= framed'
        BY <1>1, <1>2
      <3> QED
        BY <1>i, <1>1, <1>2, <3>4, <3>5, <3>6, <3>7, <3>8 DEF WireInv
    <2>12. StreamInv'
      <3>1. \A o : StartsMessage(o, msgs) => StartsMessage(o, msgs')
        BY <2>2 DEF StartsMessage
      <3>2. \A i, o : LeftOpen(i, o, msgs, arrived) => LeftOpen(i, o, msgs', arrived)
        BY <2>2 DEF LeftOpen
      <3> QED
        BY <1>i, <1>2, <3>1, <3>2 DEF StreamInv, StreamOK
    <2>13. MidMessageOpen'
      BY <1>i, <1>1, <1>2, <2>2 DEF MidMessageOpen
    <2>14. DeliveredInv' /\ InOrder'
      BY <1>i, <1>2 DEF DeliveredInv, InOrder
    <2>15. Whole'
      <3>1. Delivered' = Delivered
        BY <1>2 DEF Delivered
      <3>2. \A x \in Delivered : x \in Nat /\ x < framed
        BY <1>i, <1>1 DEF Delivered, DeliveredInv, TypeOK, Ordinals
      <3>3. CellsOf(m) \cap Delivered = {}
        BY <1>1, <3>2 DEF CellsOf
      <3>4. ASSUME NEW i \in DOMAIN msgs'
            PROVE  \/ CellsOf(msgs'[i]) \subseteq Delivered
                   \/ CellsOf(msgs'[i]) \cap Delivered = {}
        BY <1>i, <2>2, <3>3 DEF Whole
      <3> QED
        BY <3>1, <3>4 DEF Whole, CellsOf
    <2>16. RejectedForCause'
      BY <1>i, <1>2, <2>2 DEF RejectedForCause, CellsOf
    <2> QED
      BY <1>0, <2>9, <2>10, <2>11, <2>12, <2>13, <2>14, <2>15, <2>16 DEF LinkInv
  <1> QED
    BY <1>5, <1>6

\* The parts of the invariant about messages and the receiver.
ReceiverInv ==
    /\ MessagesInOrder /\ StreamInv /\ MidMessageOpen /\ DeliveredInv
    /\ InOrder /\ Whole /\ RejectedForCause

\* They only depend on these variables.
LEMMA ReceiverFrame ==
  ASSUME LinkInv, UNCHANGED <<msgs, framed, streams, arrived, rejected, delivered>>
  PROVE  ReceiverInv'
  BY DEF LinkInv, ReceiverInv, MessagesInOrder, StreamInv, MidMessageOpen,
         DeliveredInv, InOrder, Whole, Delivered,
         RejectedForCause

\* Taking an item from the queue keeps QueueInv, and so does all that leaves
\* the queue alone.
LEMMA QueueShrinks ==
  ASSUME LinkInv, queue' \subseteq queue, msgs' = msgs
  PROVE  QueueInv' /\ DataQueued' \subseteq DataQueued
  <1>1. QueueInv
    BY DEF LinkInv
  <1>2. DataQueued' \subseteq DataQueued
    BY DEF DataQueued
  <1> QED
    BY <1>1, <1>2 DEF QueueInv

\* The wire and the coverage of ordinals when the queue only loses cover cells,
\* or nothing more can be sent.
LEMMA WireFrame ==
  ASSUME LinkInv, UNCHANGED <<wire, msgs, framed, arrived>>,
         DataQueued' \subseteq DataQueued,
         (up' /\ ~panicked') => (up /\ ~panicked /\ DataQueued' = DataQueued),
         panicked' => ~writing'
  PROVE  WireInv'
  <1>1. WireInv
    BY DEF LinkInv
  <1>2. \A i : IsDataAt(i)' <=> IsDataAt(i)
    BY DEF IsDataAt
  <1>3. \A o : OnWire(o)' <=> OnWire(o)
    BY <1>2 DEF OnWire
  <1> QED
    BY <1>1, <1>2, <1>3 DEF WireInv

\* A round of Write's send loop in which the transport takes the record.
LEMMA SendStep ==
  ASSUME LinkInv, SendCell
  PROVE  LinkInv'
  <1>0. /\ TypeOK /\ MessagesInOrder /\ QueueInv /\ WireInv
        /\ TypeOK' /\ ReceiverInv'
    BY TypeStep, ReceiverFrame DEF LinkInv, Next, SendCell, receiverVars
  <1>1. PICK x \in queue :
           /\ IsNext(x) /\ queue' = queue \ {x}
           /\ wire' = Append(wire, x.cell)
    BY DEF SendCell
  <1>2. /\ UNCHANGED <<msgs, framed, panicked, up, arrived>>
        /\ writing /\ up /\ ~panicked
        /\ framed \in Nat /\ arrived \in Nat
    BY <1>0, LinkAssumption DEF SendCell, receiverVars, TypeOK, WireInv
  <1>3. QueueInv' /\ DataQueued' \subseteq DataQueued
    BY <1>1, <1>2, QueueShrinks
  <1> DEFINE n == Len(wire) + 1
  <1>4. wire \in Seq(Cell) /\ x.cell \in Cell /\ Len(wire) \in Nat
    BY <1>0, <1>1 DEF TypeOK
  <1>5. /\ DOMAIN wire = 1..Len(wire) /\ DOMAIN wire' = 1..n
        /\ \A i \in 1..Len(wire) : wire'[i] = wire[i]
        /\ wire'[n] = x.cell
    BY <1>1, <1>4, AppendProperties
  <1>6. /\ \A i \in DOMAIN wire : IsDataAt(i)' <=> IsDataAt(i)
        /\ \A i : i = n => (IsDataAt(i)' <=> x.cell.type = "data")
    BY <1>4, <1>5 DEF IsDataAt
  <1> HIDE DEF n
  <1>7. CASE x.cell.type # "data"
    <2>1. DataQueued' = DataQueued
      BY <1>1, <1>7 DEF DataQueued
    <2>2. ASSUME NEW i \in DOMAIN wire', IsDataAt(i)'
          PROVE  i \in DOMAIN wire /\ IsDataAt(i) /\ wire'[i] = wire[i] /\ i \in 1..Len(wire)
      BY <1>4, <1>5, <1>6, <1>7, <2>2 DEF n
    <2>3. \A o : OnWire(o) => OnWire(o)'
      BY <1>4, <1>5, <1>6 DEF OnWire, IsDataAt, n
    <2>4. \A i \in 1..Len(wire) : \A j \in 1..(i - 1) :
            j \in 1..Len(wire) /\ wire'[j] = wire[j] /\ (IsDataAt(j)' <=> IsDataAt(j))
      BY <1>4, <1>5, <1>6
    <2>5. WireInv'
      BY <1>0, <1>2, <2>1, <2>2, <2>3, <2>4 DEF WireInv
    <2> QED
      BY <1>0, <1>3, <2>5 DEF LinkInv, ReceiverInv
  <1>8. CASE x.cell.type = "data"
    <2>1. x \in DataQueued /\ DataQueued' = DataQueued \ {x}
      BY <1>1, <1>8 DEF DataQueued
    <2>2. \A y \in DataQueued : y.cell.ord \in Nat /\ y.cell.ord < framed /\ y.prio \in Nat
      BY <1>0, FragmentBelow DEF QueueInv, DataQueued, TypeOK
    <2>3. \A y \in DataQueued' : x.cell.ord < y.cell.ord
      BY <1>0, <1>1, <2>1, <2>2 DEF QueueInv, IsNext, DataQueued
    <2>4. \A o \in arrived..(x.cell.ord - 1) :
            \E j \in 1..Len(wire) : IsDataAt(j) /\ wire[j].ord = o
      <3> TAKE o \in arrived..(x.cell.ord - 1)
      <3>1. o \in arrived..(framed - 1)
        BY <1>2, <2>1, <2>2
      <3>2. ~ \E y \in DataQueued : y.cell.ord = o
        BY <2>1, <2>2, <2>3
      <3>3. OnWire(o)
        BY <1>0, <1>2, <3>1, <3>2 DEF WireInv
      <3> QED
        BY <1>5, <3>3 DEF OnWire
    <2>5. ASSUME NEW i \in DOMAIN wire', IsDataAt(i)'
          PROVE  /\ IsFragment(wire'[i], msgs)
                 /\ arrived <= wire'[i].ord
                 /\ \A o \in arrived..(wire'[i].ord - 1) :
                     \E j \in 1..(i - 1) : IsDataAt(j)' /\ wire'[j].ord = o
                 /\ \A y \in DataQueued' : wire'[i].ord < y.cell.ord
      <3>1. CASE i = n
        <4>1. IsFragment(x.cell, msgs) /\ arrived <= x.cell.ord
          BY <1>0, <2>1 DEF QueueInv, WireInv
        <4>2. \A o \in arrived..(x.cell.ord - 1) :
                \E j \in 1..(n - 1) : IsDataAt(j)' /\ wire'[j].ord = o
          BY <1>4, <1>5, <1>6, <2>4 DEF n
        <4> QED
          BY <1>5, <2>3, <3>1, <4>1, <4>2
      <3>2. CASE i # n
        <4>1. i \in 1..Len(wire) /\ wire'[i] = wire[i] /\ IsDataAt(i)
          BY <1>4, <1>5, <1>6, <2>5, <3>2 DEF n
        <4>2. \A j \in 1..(i - 1) : wire'[j] = wire[j] /\ (IsDataAt(j)' <=> IsDataAt(j))
          BY <1>4, <1>5, <1>6, <4>1
        <4>3. /\ IsFragment(wire[i], msgs)
              /\ arrived <= wire[i].ord
              /\ \A o \in arrived..(wire[i].ord - 1) :
                  \E j \in 1..(i - 1) : IsDataAt(j) /\ wire[j].ord = o
              /\ \A y \in DataQueued : wire[i].ord < y.cell.ord
          BY <1>0, <1>5, <4>1 DEF WireInv
        <4> QED
          BY <2>1, <4>1, <4>2, <4>3
      <3> QED BY <3>1, <3>2
    <2>6. \A o \in arrived..(framed - 1) :
            OnWire(o)' \/ \E y \in DataQueued' : y.cell.ord = o
      <3> TAKE o \in arrived..(framed - 1)
      <3>1. OnWire(o) \/ \E y \in DataQueued : y.cell.ord = o
        BY <1>0, <1>2 DEF WireInv
      <3>2. OnWire(o) => OnWire(o)'
        BY <1>4, <1>5, <1>6 DEF OnWire, n
      <3>3. x.cell.ord = o => OnWire(o)'
        BY <1>4, <1>5, <1>6, <1>8 DEF OnWire, n
      <3> QED
        BY <2>1, <3>1, <3>2, <3>3
    <2>7. ASSUME NEW i \in DOMAIN wire', NEW j \in DOMAIN wire', i < j,
                 IsDataAt(i)', IsDataAt(j)'
          PROVE  wire'[i].ord < wire'[j].ord
      <3>1. i \in 1..Len(wire) /\ wire'[i] = wire[i] /\ IsDataAt(i)
        BY <1>4, <1>5, <1>6, <2>7 DEF n
      <3>2. CASE j = n
        BY <1>0, <1>5, <2>1, <3>1, <3>2 DEF WireInv
      <3>3. CASE j # n
        <4>1. j \in 1..Len(wire) /\ wire'[j] = wire[j] /\ IsDataAt(j)
          BY <1>4, <1>5, <1>6, <2>7, <3>3 DEF n
        <4> QED
          BY <1>0, <1>5, <2>7, <3>1, <4>1 DEF WireInv
      <3> QED BY <3>2, <3>3
    <2>8. WireInv'
      BY <1>0, <1>2, <2>1, <2>5, <2>6, <2>7 DEF WireInv
    <2> QED
      BY <1>0, <1>3, <2>8 DEF LinkInv, ReceiverInv
  <1> QED
    BY <1>7, <1>8

\* Two messages share no ordinal.
LEMMA MessagesDisjoint ==
  ASSUME TypeOK, MessagesInOrder, NEW i \in DOMAIN msgs, NEW j \in DOMAIN msgs,
         NEW o \in CellsOf(msgs[i]), o \in CellsOf(msgs[j])
  PROVE  i = j
  <1>1. /\ i \in Nat /\ j \in Nat
        /\ msgs[i].first \in Nat /\ msgs[i].last \in Nat
        /\ msgs[j].first \in Nat /\ msgs[j].last \in Nat
    <2>1. msgs[i] \in Message /\ msgs[j] \in Message /\ DOMAIN msgs = 1..Len(msgs)
      BY DEF TypeOK
    <2> QED
      BY <2>1 DEF Message, Ordinals
  <1> QED
    BY <1>1 DEF MessagesInOrder, CellsOf

\* The head of the wire leaves it: what is left starts at the next ordinal if
\* the head was a data cell, and at the same one otherwise.
LEMMA TailStep ==
  ASSUME LinkInv, wire # <<>>, wire' = Tail(wire), UNCHANGED senderVars,
         UNCHANGED up,
         arrived' = IF Head(wire).type = "data" THEN arrived + 1 ELSE arrived
  PROVE  /\ WireInv' /\ QueueInv'
         /\ Head(wire).type = "data" =>
              IsFragment(Head(wire), msgs) /\ Head(wire).ord = arrived
  <1>0. /\ TypeOK /\ MessagesInOrder /\ QueueInv /\ WireInv
        /\ DataQueued' = DataQueued /\ QueueInv'
        /\ UNCHANGED <<msgs, framed, panicked, writing>>
    BY DEF LinkInv, senderVars, QueueInv, DataQueued
  <1>1. /\ wire \in Seq(Cell) /\ Len(wire) \in Nat /\ Len(wire) > 0
        /\ DOMAIN wire = 1..Len(wire) /\ DOMAIN wire' = 1..(Len(wire) - 1)
        /\ \A i \in 1..(Len(wire) - 1) : wire'[i] = wire[i + 1]
        /\ Head(wire) = wire[1] /\ 1 \in DOMAIN wire
        /\ framed \in Nat /\ arrived \in Nat
    BY <1>0, HeadTailProperties, EmptySeq, LinkAssumption DEF TypeOK
  <1>2. IsDataAt(1) <=> Head(wire).type = "data"
    BY <1>1 DEF IsDataAt
  <1>3. \A i \in DOMAIN wire : IsDataAt(i) =>
          wire[i].ord \in Nat /\ wire[i].ord < framed
    BY <1>0, FragmentBelow DEF WireInv
  <1>4. IsDataAt(1) => IsFragment(wire[1], msgs) /\ wire[1].ord = arrived
    BY <1>0, <1>1, <1>3 DEF WireInv
  <1>5. \A i \in 1..(Len(wire) - 1) : i + 1 \in DOMAIN wire /\ (IsDataAt(i)' <=> IsDataAt(i + 1))
    BY <1>1 DEF IsDataAt
  <1>6. \A i \in 1..(Len(wire) - 1) : IsDataAt(i + 1) => arrived' <= wire[i + 1].ord
    BY <1>0, <1>1, <1>2, <1>3, <1>4, <1>5 DEF WireInv
  <1>7. ASSUME NEW i \in DOMAIN wire', IsDataAt(i)'
        PROVE  /\ IsFragment(wire'[i], msgs) /\ arrived' <= wire'[i].ord
               /\ \A o \in arrived'..(wire'[i].ord - 1) :
                   \E j \in 1..(i - 1) : IsDataAt(j)' /\ wire'[j].ord = o
               /\ \A x \in DataQueued : wire'[i].ord < x.cell.ord
    <2>1. /\ i \in 1..(Len(wire) - 1) /\ wire'[i] = wire[i + 1]
          /\ IsDataAt(i + 1) /\ i + 1 \in DOMAIN wire
      BY <1>1, <1>5, <1>7
    <2>2. /\ IsFragment(wire[i + 1], msgs)
          /\ \A x \in DataQueued : wire[i + 1].ord < x.cell.ord
          /\ \A o \in arrived..(wire[i + 1].ord - 1) :
                \E j \in 1..((i + 1) - 1) : IsDataAt(j) /\ wire[j].ord = o
      BY <1>0, <2>1 DEF WireInv
    <2>3. ASSUME NEW o \in arrived'..(wire[i + 1].ord - 1)
          PROVE  \E j \in 1..(i - 1) : IsDataAt(j)' /\ wire'[j].ord = o
      <3>1. o \in arrived..(wire[i + 1].ord - 1) /\ (IsDataAt(1) => o # arrived)
        BY <1>1, <1>2
      <3>2. PICK j \in 1..i : IsDataAt(j) /\ wire[j].ord = o
        BY <2>1, <2>2, <3>1
      <3>3. j # 1
        BY <1>4, <3>1, <3>2
      <3>4. j - 1 \in 1..(i - 1) /\ j - 1 \in 1..(Len(wire) - 1) /\ (j - 1) + 1 = j
        BY <1>1, <2>1, <3>3
      <3>5. \A h : h = j - 1 => IsDataAt(h)' /\ wire'[h].ord = o
        BY <1>1, <1>5, <3>2, <3>4
      <3> QED
        BY <3>4, <3>5
    <2> QED
      BY <1>6, <2>1, <2>2, <2>3
  <1>8. \A i, j \in DOMAIN wire' :
          IsDataAt(i)' /\ IsDataAt(j)' /\ i < j => wire'[i].ord < wire'[j].ord
    <2> SUFFICES ASSUME NEW i \in DOMAIN wire', NEW j \in DOMAIN wire',
                        IsDataAt(i)', IsDataAt(j)', i < j
                 PROVE  wire'[i].ord < wire'[j].ord
      OBVIOUS
    <2>1. /\ i + 1 \in DOMAIN wire /\ j + 1 \in DOMAIN wire /\ i + 1 < j + 1
          /\ IsDataAt(i + 1) /\ IsDataAt(j + 1)
          /\ wire'[i] = wire[i + 1] /\ wire'[j] = wire[j + 1]
      BY <1>1, <1>5
    <2> QED
      BY <1>0, <2>1 DEF WireInv
  <1>9. \A x \in DataQueued : arrived' <= x.cell.ord
    <2> TAKE x \in DataQueued
    <2>1. arrived <= x.cell.ord /\ (IsDataAt(1) => arrived < x.cell.ord)
      BY <1>0, <1>1, <1>4 DEF WireInv
    <2>2. x.cell.ord \in Nat
      BY <1>0, FragmentBelow DEF QueueInv
    <2> QED
      BY <1>1, <1>2, <2>1, <2>2
  <1>10. \A o \in arrived'..(framed - 1) : OnWire(o) => OnWire(o)'
    <2> TAKE o \in arrived'..(framed - 1)
    <2> SUFFICES ASSUME OnWire(o) PROVE OnWire(o)'
      OBVIOUS
    <2>1. PICK i \in DOMAIN wire : IsDataAt(i) /\ wire[i].ord = o
      BY DEF OnWire
    <2>2. i # 1
      BY <1>1, <1>2, <1>4, <2>1
    <2>3. i - 1 \in 1..(Len(wire) - 1) /\ (i - 1) + 1 = i
      BY <1>1, <2>2
    <2>4. \A h : h = i - 1 => h \in DOMAIN wire' /\ IsDataAt(h)' /\ wire'[h].ord = o
      BY <1>1, <1>5, <2>1, <2>3
    <2> QED
      BY <2>4 DEF OnWire
  <1>11. /\ arrived' <= framed
         /\ \A o \in arrived'..(framed - 1) : o \in arrived..(framed - 1)
    BY <1>0, <1>1, <1>2, <1>3, <1>4 DEF WireInv
  <1>12. WireInv'
    BY <1>0, <1>7, <1>8, <1>9, <1>10, <1>11 DEF WireInv
  <1> QED
    BY <1>0, <1>1, <1>2, <1>4, <1>12

\* What was delivered are natural numbers.
LEMMA DeliveredNat ==
  ASSUME TypeOK
  PROVE  \A k \in DOMAIN delivered : delivered[k] \in Nat
  <1>1. \A k \in DOMAIN delivered : delivered[k] \in Ordinals
    BY DEF TypeOK
  <1> QED
    BY <1>1, LinkAssumption DEF Ordinals

\* ProcessCell accepts cell c exactly when its stream is new or stops right
\* before c; the bytes c completes are then a run of ordinals that starts with a
\* message and follows all that was delivered.
LEMMA AcceptedRun ==
  ASSUME LinkInv, MaxCells <= SeqMod, NEW c, c.id \in CellIDs,
         NEW j \in DOMAIN msgs, IsFragmentOf(c, msgs[j]), c.ord = arrived
  PROVE  /\ streams[c.id].open => lastSeq(c) = LastOf(streams[c.id])
         /\ c.seq # Succ(lastSeq(c)) =>
              streams[c.id].open /\ LastOf(streams[c.id]) # arrived - 1
         /\ c.seq = Succ(lastSeq(c)) =>
              LET run == Append(buffer(c), c.ord) IN
              /\ run \in Seq(Ordinals) /\ Len(run) > 0
              /\ \A k \in 1..Len(run) : run[k] = run[1] + k - 1
              /\ run[Len(run)] = arrived
              /\ StartsMessage(run[1], msgs)
              /\ \A k \in DOMAIN delivered : delivered[k] < run[1]
  <1> DEFINE s == streams[c.id]
             run == Append(buffer(c), c.ord)
  <1>1. /\ TypeOK /\ MessagesInOrder /\ MidMessageOpen /\ DeliveredInv
        /\ StreamOK(c.id, s, msgs, arrived, delivered)
    BY DEF LinkInv, StreamInv
  <1>2. /\ msgs[j] \in Message /\ arrived \in Nat /\ arrived < MaxCells
        /\ c.ord \in Ordinals /\ c.seq = arrived /\ s \in Stream
        /\ msgs[j].first <= arrived /\ arrived <= msgs[j].last
        /\ msgs[j].first \in Nat /\ msgs[j].last \in Nat /\ msgs[j].id = c.id
    <2>1. msgs[j] \in Message /\ arrived \in Nat /\ s \in Stream /\ framed \in Nat
      <3>1. msgs[j] \in Message
        BY <1>1 DEF TypeOK
      <3>2. streams[c.id] \in Stream
        BY <1>1 DEF TypeOK
      <3> QED
        BY <1>1, <3>1, <3>2, LinkAssumption DEF TypeOK
    <2>2. msgs[j].first \in Ordinals /\ msgs[j].last \in Ordinals
      BY <2>1 DEF Message
    <2> QED
      BY <2>1, <2>2, LinkAssumption DEF Ordinals, IsFragmentOf, CellsOf
  <1>3. SeqMod \in Nat /\ SeqMod > 1 /\ MaxCells \in Nat
    BY LinkAssumption
  <1>4. \A k \in DOMAIN delivered : delivered[k] \in Nat /\ delivered[k] < arrived
    BY <1>1, DeliveredNat DEF DeliveredInv
  <1>5. CASE ~s.open
    <2>1. c.seq = Succ(lastSeq(c))
      BY <1>2, <1>3, <1>5 DEF lastSeq, Succ, Prev
    <2>2. run = <<arrived>>
      BY <1>5 DEF buffer
    <2>3. msgs[j].first = arrived
      BY <1>1, <1>2, <1>5 DEF MidMessageOpen
    <2>4. StartsMessage(arrived, msgs)
      BY <2>3 DEF StartsMessage
    <2>5. /\ run \in Seq(Ordinals) /\ Len(run) = 1 /\ run[1] = arrived
      BY <1>2, <2>2
    <2> QED
      BY <1>2, <1>4, <1>5, <2>1, <2>4, <2>5
  <1>6. CASE s.open
    <2>1. /\ s.buf \in Seq(Ordinals) /\ Len(s.buf) \in Nat /\ Len(s.buf) > 0
          /\ \A k \in 1..Len(s.buf) : s.buf[k] = s.buf[1] + k - 1
          /\ s.lastSeq = LastOf(s) /\ LastOf(s) < arrived
          /\ StartsMessage(s.buf[1], msgs)
          /\ LastOf(s) = arrived - 1 => \A k \in DOMAIN delivered : delivered[k] < s.buf[1]
      BY <1>1, <1>2, <1>6 DEF StreamOK, Stream
    <2>2. LastOf(s) \in Nat /\ s.buf[1] \in Nat
      <3>1. \A k \in 1..Len(s.buf) : s.buf[k] \in Ordinals
        BY <2>1
      <3> QED
        BY <2>1, <3>1, LinkAssumption DEF LastOf, Ordinals
    <2>3. lastSeq(c) = LastOf(s) /\ Succ(lastSeq(c)) = LastOf(s) + 1
      BY <1>2, <1>3, <1>6, <2>1, <2>2 DEF lastSeq, Succ
    <2>4. CASE c.seq # Succ(lastSeq(c))
      BY <1>2, <1>6, <2>2, <2>3, <2>4
    <2>5. CASE c.seq = Succ(lastSeq(c))
      <3>1. LastOf(s) = arrived - 1
        BY <1>2, <2>2, <2>3, <2>5
      <3>2. /\ run \in Seq(Ordinals) /\ Len(run) = Len(s.buf) + 1
            /\ \A k \in 1..Len(s.buf) : run[k] = s.buf[k]
            /\ run[Len(s.buf) + 1] = arrived
        BY <1>2, <1>6, <2>1, AppendProperties DEF buffer
      <3> HIDE DEF run
      <3>3. s.buf[1] + Len(s.buf) - 1 = arrived - 1
        BY <2>1, <3>1 DEF LastOf
      <3>4. run[1] = s.buf[1]
        BY <2>1, <3>2
      <3>5. \A k \in 1..Len(run) : run[k] = run[1] + k - 1
        <4> TAKE k \in 1..Len(run)
        <4>1. CASE k = Len(s.buf) + 1
          <5> HIDE DEF s
          <5> QED
            BY <1>2, <2>1, <2>2, <3>2, <3>3, <3>4, <4>1
        <4>2. CASE k # Len(s.buf) + 1
          <5>1. k \in 1..Len(s.buf)
            BY <2>1, <3>2, <4>2
          <5> QED
            BY <2>1, <3>2, <3>4, <5>1
        <4> QED BY <4>1, <4>2
      <3> QED
        BY <1>2, <2>1, <2>3, <2>5, <3>1, <3>2, <3>4, <3>5 DEF run
    <2> QED
      BY <2>4, <2>5
  <1> QED
    BY <1>5, <1>6

\* Streams of other IDs are not disturbed by the arrival of ordinal arrived.
LEMMA OtherStreams ==
  ASSUME LinkInv, NEW c, NEW j \in DOMAIN msgs, IsFragmentOf(c, msgs[j]),
         c.ord = arrived, NEW id \in CellIDs,
         streams[id].open => (id # c.id \/ LastOf(streams[id]) # arrived - 1),
         NEW del
  PROVE  StreamOK(id, streams[id], msgs, arrived + 1, del)
  <1> DEFINE s == streams[id]
  <1>1. /\ TypeOK /\ MessagesInOrder
        /\ StreamOK(id, s, msgs, arrived, delivered)
    BY DEF LinkInv, StreamInv
  <1>2. arrived \in Nat /\ s \in Stream
    BY <1>1 DEF TypeOK
  <1> HIDE DEF s
  <1>3. CASE ~s.open
    BY <1>1, <1>3 DEF StreamOK, s
  <1>4. CASE s.open
    <2>1. /\ LastOf(s) \in Nat /\ LastOf(s) < arrived
          /\ LeftOpen(id, LastOf(s), msgs, arrived)
      <3>1. s.buf \in Seq(Ordinals) /\ Len(s.buf) \in Nat /\ Len(s.buf) > 0
        BY <1>1, <1>2, <1>4 DEF StreamOK, Stream
      <3>2. LastOf(s) \in Ordinals
        BY <3>1 DEF LastOf
      <3> QED
        BY <1>1, <1>4, <3>2, LinkAssumption DEF StreamOK, Ordinals
    <2>2. PICK i \in DOMAIN msgs :
            /\ msgs[i].id = id /\ LastOf(s) \in CellsOf(msgs[i])
            /\ \/ LastOf(s) = msgs[i].last /\ ~msgs[i].end
               \/ LastOf(s) < msgs[i].last /\ LastOf(s) = arrived - 1
      BY <2>1 DEF LeftOpen
    <2>3. ~(LastOf(s) < msgs[i].last /\ LastOf(s) = arrived - 1)
      <3> SUFFICES ASSUME LastOf(s) < msgs[i].last, LastOf(s) = arrived - 1
                   PROVE  FALSE
        OBVIOUS
      <3>1. msgs[i].first \in Nat /\ msgs[i].last \in Nat
        <4>1. msgs[i] \in Message
          BY <1>1 DEF TypeOK
        <4> QED
          BY <4>1, LinkAssumption DEF Message, Ordinals
      <3>2. arrived \in CellsOf(msgs[i])
        BY <1>2, <2>1, <2>2, <3>1 DEF CellsOf
      <3>3. i = j
        BY <1>1, <3>2, MessagesDisjoint DEF IsFragmentOf
      <3> QED
        BY <1>4, <2>2, <3>3 DEF IsFragmentOf, s
    <2>4. LeftOpen(id, LastOf(s), msgs, arrived + 1)
      BY <2>2, <2>3 DEF LeftOpen
    <2> QED
      BY <1>1, <1>2, <1>4, <2>1, <2>4 DEF StreamOK, s
  <1> QED
    BY <1>3, <1>4

\* When ordinal arrived is in the middle of a message, the stream of the cell
\* that carries it is the one MidMessageOpen asks for next.
LEMMA NextMidMessage ==
  ASSUME LinkInv, NEW c, NEW j \in DOMAIN msgs, IsFragmentOf(c, msgs[j]),
         c.ord = arrived, NEW i \in DOMAIN msgs,
         msgs[i].first < arrived + 1, arrived + 1 <= msgs[i].last
  PROVE  i = j /\ arrived < msgs[j].last
  <1>1. TypeOK /\ MessagesInOrder /\ arrived \in Nat
    BY DEF LinkInv, TypeOK
  <1>2. msgs[i].first \in Nat /\ msgs[i].last \in Nat
    <2>1. msgs[i] \in Message
      BY <1>1 DEF TypeOK
    <2> QED
      BY <2>1, LinkAssumption DEF Message, Ordinals
  <1>3. arrived \in CellsOf(msgs[i])
    BY <1>1, <1>2 DEF CellsOf
  <1>4. i = j
    BY <1>1, <1>3, MessagesDisjoint DEF IsFragmentOf
  <1> QED
    BY <1>1, <1>2, <1>4

\* ProcessCell refuses the cell.
LEMMA RejectStep ==
  ASSUME LinkInv, MaxCells <= SeqMod, NEW c, c.id \in CellIDs,
         NEW j \in DOMAIN msgs, IsFragmentOf(c, msgs[j]), c.ord = arrived,
         Reject(c), arrived' = arrived + 1, UNCHANGED <<msgs, framed>>
  PROVE  ReceiverInv'
  <1>1. /\ TypeOK /\ MessagesInOrder /\ StreamInv /\ MidMessageOpen /\ DeliveredInv
        /\ InOrder /\ Whole /\ RejectedForCause
        /\ arrived \in Nat
    BY DEF LinkInv, TypeOK
  <1>2. /\ streams[c.id].open /\ LastOf(streams[c.id]) # arrived - 1
        /\ lastSeq(c) = LastOf(streams[c.id])
    BY AcceptedRun DEF Reject
  <1>3. /\ streams' = [streams EXCEPT ![c.id] =
                        [open |-> TRUE, lastSeq |-> lastSeq(c), buf |-> buffer(c)]]
        /\ rejected' = rejected \cup {arrived} /\ delivered' = delivered
    BY DEF Reject
  <1>4. streams' = streams
    <2>1. streams[c.id] \in Stream
      BY <1>1 DEF TypeOK
    <2>2. streams[c.id] = [open |-> TRUE, lastSeq |-> lastSeq(c), buf |-> buffer(c)]
      BY <1>2, <2>1 DEF Stream, buffer, lastSeq
    <2> QED
      BY <1>1, <1>3, <2>2 DEF TypeOK
  <1>5. \A id \in CellIDs : StreamOK(id, streams[id], msgs, arrived + 1, delivered)
    BY <1>2, OtherStreams
  <1>6. StreamInv'
    BY <1>3, <1>4, <1>5 DEF StreamInv
  <1>7. MidMessageOpen'
    BY <1>2, <1>4, NextMidMessage DEF MidMessageOpen, IsFragmentOf
  <1>8. DeliveredInv'
    BY <1>1, <1>3, DeliveredNat DEF DeliveredInv
  <1>9. RejectedForCause'
    <2> DEFINE l == LastOf(streams[c.id])
    <2>1. LeftOpen(c.id, l, msgs, arrived) /\ l < arrived
      BY <1>1, <1>2 DEF StreamInv, StreamOK
    <2>2. PICK i \in DOMAIN msgs :
            /\ msgs[i].id = c.id /\ l \in CellsOf(msgs[i])
            /\ l = msgs[i].last /\ ~msgs[i].end
      BY <1>2, <2>1 DEF LeftOpen
    <2>3. /\ i \in Nat /\ j \in Nat /\ i > 0
          /\ msgs[i].first \in Nat /\ msgs[i].last \in Nat
          /\ msgs[j].first \in Nat /\ msgs[j].last \in Nat
      <3>1. msgs[i] \in Message /\ msgs[j] \in Message /\ DOMAIN msgs = 1..Len(msgs)
        BY <1>1 DEF TypeOK
      <3> QED
        BY <3>1, LinkAssumption DEF Message, Ordinals
    <2>4. arrived \in CellsOf(msgs[j]) /\ msgs[j].id = c.id
      BY DEF IsFragmentOf
    <2>5. i < j
      BY <1>1, <2>1, <2>2, <2>3, <2>4 DEF MessagesInOrder, CellsOf
    <2>6. i \in 1..(j - 1)
      BY <2>3, <2>5
    <2> QED
      BY <1>1, <1>3, <2>2, <2>4, <2>6 DEF RejectedForCause
  <1> QED
    BY <1>1, <1>3, <1>6, <1>7, <1>8, <1>9
       DEF ReceiverInv, MessagesInOrder, InOrder, Whole, Delivered

\* ProcessCell takes the cell and its message goes on, or had no end flag.
LEMMA ExtendStep ==
  ASSUME LinkInv, MaxCells <= SeqMod, NEW c, c.id \in CellIDs, c.end \in BOOLEAN,
         NEW j \in DOMAIN msgs, IsFragmentOf(c, msgs[j]), c.ord = arrived,
         Extend(c), arrived' = arrived + 1, UNCHANGED <<msgs, framed>>
  PROVE  ReceiverInv'
  <1> DEFINE run == Append(buffer(c), c.ord)
             s == [open |-> TRUE, lastSeq |-> c.seq, buf |-> run]
  <1>1. /\ TypeOK /\ MessagesInOrder /\ StreamInv /\ MidMessageOpen /\ DeliveredInv
        /\ InOrder /\ Whole /\ RejectedForCause
        /\ arrived \in Nat
    BY DEF LinkInv, TypeOK
  <1>2. /\ run \in Seq(Ordinals) /\ Len(run) \in Nat /\ Len(run) > 0
        /\ \A k \in 1..Len(run) : run[k] = run[1] + k - 1
        /\ run[Len(run)] = arrived
        /\ StartsMessage(run[1], msgs)
        /\ \A k \in DOMAIN delivered : delivered[k] < run[1]
        /\ streams[c.id].open => lastSeq(c) = LastOf(streams[c.id])
    BY AcceptedRun DEF Extend
  <1>3. /\ streams' = [streams EXCEPT ![c.id] = s]
        /\ rejected' = rejected /\ delivered' = delivered /\ ~c.end
    BY DEF Extend
  <1> HIDE DEF run
  <1>4. \A id \in CellIDs : streams'[id] = IF id = c.id THEN s ELSE streams[id]
    BY <1>1, <1>3 DEF TypeOK
  <1>5. c.seq = arrived /\ arrived \in CellsOf(msgs[j]) /\ msgs[j].id = c.id
        /\ ~(msgs[j].end /\ arrived = msgs[j].last)
    BY <1>3 DEF IsFragmentOf
  <1>6. StreamOK(c.id, s, msgs, arrived + 1, delivered)
    <2>1. LastOf(s) = arrived
      BY <1>2 DEF LastOf
    <2>2. LeftOpen(c.id, arrived, msgs, arrived + 1)
      <3>1. msgs[j].last \in Nat
        <4>1. msgs[j] \in Message
          BY <1>1 DEF TypeOK
        <4> QED
          BY <4>1, LinkAssumption DEF Message, Ordinals
      <3> QED
        BY <1>1, <1>5, <3>1 DEF LeftOpen, CellsOf
    <2> QED
      BY <1>1, <1>2, <1>5, <2>1, <2>2 DEF StreamOK
  <1>7. StreamInv'
    BY <1>3, <1>4, <1>6, OtherStreams DEF StreamInv
  <1>8. MidMessageOpen'
    BY <1>4, <1>5, NextMidMessage DEF MidMessageOpen
  <1>9. DeliveredInv'
    BY <1>1, <1>3, DeliveredNat DEF DeliveredInv
  <1> QED
    BY <1>1, <1>3, <1>7, <1>8, <1>9
       DEF ReceiverInv, MessagesInOrder, InOrder, Whole, Delivered,
           RejectedForCause

\* Ordinals are natural numbers.
LEMMA OrdinalNat == \A x \in Ordinals : x \in Nat
  BY LinkAssumption DEF Ordinals

\* What a sequence d of increasing ordinals becomes when a run of consecutive
\* ordinals above all of d is put behind it.
LEMMA RunAppended ==
  ASSUME NEW d \in Seq(Ordinals), NEW run \in Seq(Ordinals), Len(run) > 0,
         \A k \in 1..Len(run) : run[k] = run[1] + k - 1,
         \A k \in DOMAIN d : d[k] < run[1]
  PROVE  LET e == d \o run
             last == run[Len(run)]
         IN  /\ DOMAIN e = 1..(Len(d) + Len(run))
             /\ \A k \in 1..Len(d) : e[k] = d[k]
             /\ \A k \in 1..Len(run) : e[Len(d) + k] = run[1] + k - 1
             /\ \A k \in DOMAIN e : e[k] <= last
             /\ (\A h, k \in DOMAIN d : h < k => d[h] < d[k])
                  => \A h, k \in DOMAIN e : h < k => e[h] < e[k]
             /\ {e[k] : k \in DOMAIN e} = {d[k] : k \in DOMAIN d} \cup run[1]..last
  <1> DEFINE e == d \o run
             n == Len(d)
             m == Len(run)
             first == run[1]
             last == run[Len(run)]
  <1>1. /\ n \in Nat /\ m \in Nat /\ m > 0 /\ DOMAIN d = 1..n
        /\ \A k \in 1..n : d[k] \in Nat /\ d[k] < first
        /\ first \in Nat /\ last = first + m - 1
    <2>1. /\ \A k \in 1..n : d[k] \in Ordinals
          /\ first \in Ordinals
      OBVIOUS
    <2> QED
      BY <2>1, OrdinalNat
  <1>2. /\ DOMAIN e = 1..(n + m)
        /\ \A k \in 1..(n + m) : e[k] = IF k <= n THEN d[k] ELSE run[k - n]
    BY ConcatProperties
  <1>3. \A k \in 1..m : run[k] = first + k - 1
    OBVIOUS
  <1> HIDE DEF e, n, m, first, last
  <1>4. \A k \in (n + 1)..(n + m) : e[k] = first + (k - n) - 1
    <2> TAKE k \in (n + 1)..(n + m)
    <2>1. k - n \in 1..m /\ k \in 1..(n + m) /\ ~(k <= n)
      BY <1>1
    <2> QED
      BY <1>2, <1>3, <2>1
  <1>5. \A k \in 1..n : e[k] = d[k]
    BY <1>1, <1>2
  <1>6. \A k \in 1..m : e[n + k] = first + k - 1
    <2> TAKE k \in 1..m
    <2>1. n + k \in (n + 1)..(n + m) /\ (n + k) - n = k
      BY <1>1
    <2> QED
      BY <1>4, <2>1
  <1>7. \A k \in DOMAIN e : e[k] <= last
    BY <1>1, <1>2, <1>4, <1>5
  <1>8. ASSUME \A h, k \in DOMAIN d : h < k => d[h] < d[k],
               NEW h \in DOMAIN e, NEW k \in DOMAIN e, h < k
        PROVE  e[h] < e[k]
    <2>1. CASE k <= n
      <3>1. h \in 1..n /\ k \in 1..n
        BY <1>1, <1>2, <1>8, <2>1
      <3>2. d[h] < d[k]
        BY <1>1, <1>8, <3>1
      <3> QED
        BY <1>5, <3>1, <3>2
    <2>2. CASE ~(k <= n) /\ h <= n
      BY <1>1, <1>2, <1>4, <1>5, <1>8, <2>2
    <2>3. CASE ~(k <= n) /\ ~(h <= n)
      BY <1>1, <1>2, <1>4, <1>8, <2>3
    <2> QED
      BY <2>1, <2>2, <2>3
  <1>9. {e[k] : k \in DOMAIN e} = {d[k] : k \in DOMAIN d} \cup first..last
    <2>1. ASSUME NEW k \in DOMAIN e PROVE e[k] \in {d[i] : i \in DOMAIN d} \cup first..last
      <3>1. CASE k <= n
        <4>1. k \in 1..n
          BY <1>1, <1>2, <3>1
        <4> QED
          BY <1>1, <1>5, <4>1
      <3>2. CASE ~(k <= n)
        <4>1. k \in (n + 1)..(n + m)
          BY <1>1, <1>2, <3>2
        <4>2. first + (k - n) - 1 \in first..last
          BY <1>1, <4>1
        <4> QED
          BY <1>4, <4>1, <4>2
      <3> QED BY <3>1, <3>2
    <2>2. ASSUME NEW k \in DOMAIN d PROVE d[k] \in {e[i] : i \in DOMAIN e}
      BY <1>1, <1>2, <1>5
    <2>3. ASSUME NEW x \in first..last PROVE x \in {e[i] : i \in DOMAIN e}
      <3>1. (x - first) + 1 \in 1..m
        BY <1>1
      <3>2. n + ((x - first) + 1) \in DOMAIN e
        BY <1>1, <1>2, <3>1
      <3>3. e[n + ((x - first) + 1)] = x
        <4>1. e[n + ((x - first) + 1)] = first + ((x - first) + 1) - 1
          BY <1>6, <3>1
        <4> QED
          BY <1>1, <4>1
      <3> QED
        BY <3>2, <3>3
    <2> QED
      BY <2>1, <2>2, <2>3
  <1> QED
    BY <1>2, <1>5, <1>6, <1>7, <1>8, <1>9 DEF e, n, m, first, last

\* From the start of one message to the end of another there are only whole
\* messages.
LEMMA IntervalWhole ==
  ASSUME TypeOK, MessagesInOrder, NEW p \in DOMAIN msgs, NEW q \in DOMAIN msgs,
         NEW i \in DOMAIN msgs
  PROVE  \/ CellsOf(msgs[i]) \subseteq msgs[p].first..msgs[q].last
         \/ CellsOf(msgs[i]) \cap msgs[p].first..msgs[q].last = {}
  <1> DEFINE a(k) == msgs[k].first
             b(k) == msgs[k].last
  <1>1. \A k \in DOMAIN msgs : k \in Nat /\ a(k) \in Nat /\ b(k) \in Nat /\ a(k) <= b(k)
    <2>1. DOMAIN msgs = 1..Len(msgs) /\ \A k \in DOMAIN msgs : msgs[k] \in Message
      BY DEF TypeOK
    <2> QED
      BY <2>1, OrdinalNat DEF Message, MessagesInOrder
  <1>2. \A k, h \in DOMAIN msgs : k < h => b(k) < a(h)
    BY DEF MessagesInOrder
  <1>3. CellsOf(msgs[i]) = a(i)..b(i)
    BY DEF CellsOf
  <1> HIDE DEF a, b
  <1>4. a(i)..b(i) \subseteq a(p)..b(q) \/ (a(i)..b(i)) \cap (a(p)..b(q)) = {}
    <2>1. CASE i < p
      BY <1>1, <1>2, <2>1
    <2>2. CASE q < i
      BY <1>1, <1>2, <2>2
    <2>3. CASE ~(i < p) /\ ~(q < i)
      <3>1. a(p) <= a(i) /\ b(i) <= b(q)
        BY <1>1, <1>2, <2>3
      <3> QED
        BY <1>1, <3>1
    <2> QED
      BY <2>1, <2>2, <2>3
  <1> QED
    BY <1>3, <1>4 DEF a, b

\* ProcessCell takes the last cell of a message and releases the buffer.
LEMMA ReleaseStep ==
  ASSUME LinkInv, MaxCells <= SeqMod, NEW c, c.id \in CellIDs, c.end \in BOOLEAN,
         NEW j \in DOMAIN msgs, IsFragmentOf(c, msgs[j]), c.ord = arrived,
         Release(c), arrived' = arrived + 1, UNCHANGED <<msgs, framed>>
  PROVE  ReceiverInv'
  <1> DEFINE run == Append(buffer(c), c.ord)
  <1>1. /\ TypeOK /\ MessagesInOrder /\ StreamInv /\ MidMessageOpen /\ DeliveredInv
        /\ InOrder /\ Whole /\ RejectedForCause
        /\ arrived \in Nat /\ delivered \in Seq(Ordinals)
    BY DEF LinkInv, TypeOK
  <1>2. /\ run \in Seq(Ordinals) /\ Len(run) \in Nat /\ Len(run) > 0
        /\ \A k \in 1..Len(run) : run[k] = run[1] + k - 1
        /\ run[Len(run)] = arrived
        /\ StartsMessage(run[1], msgs)
        /\ \A k \in DOMAIN delivered : delivered[k] < run[1]
    BY AcceptedRun DEF Release
  <1>3. /\ streams' = [streams EXCEPT ![c.id] = NoStream]
        /\ rejected' = rejected /\ delivered' = delivered \o run /\ c.end
    BY DEF Release
  <1> HIDE DEF run
  <1>4. \A id \in CellIDs : streams'[id] = IF id = c.id THEN NoStream ELSE streams[id]
    BY <1>1, <1>3 DEF TypeOK
  <1>5. /\ \A k \in DOMAIN delivered' : delivered'[k] <= arrived
        /\ InOrder'
        /\ Delivered' = Delivered \cup run[1]..arrived
    <2>1. /\ \A k \in DOMAIN (delivered \o run) : (delivered \o run)[k] <= arrived
          /\ (\A h, k \in DOMAIN delivered : h < k => delivered[h] < delivered[k])
               => \A h, k \in DOMAIN (delivered \o run) :
                      h < k => (delivered \o run)[h] < (delivered \o run)[k]
          /\ {(delivered \o run)[k] : k \in DOMAIN (delivered \o run)}
               = {delivered[k] : k \in DOMAIN delivered} \cup run[1]..arrived
      BY <1>1, <1>2, RunAppended
    <2> QED
      BY <1>1, <1>3, <2>1, Zenon DEF InOrder, Delivered
  <1>6. \A k \in DOMAIN delivered' : delivered'[k] \in Nat
    <2>1. delivered' \in Seq(Ordinals)
      BY <1>1, <1>2, <1>3, ConcatProperties
    <2> QED
      BY <2>1, OrdinalNat
  <1>7. arrived = msgs[j].last
    BY <1>3 DEF IsFragmentOf
  <1>8. StreamInv'
    <2>1. \A a, del : StreamOK(c.id, NoStream, msgs, a, del)
      BY DEF StreamOK, NoStream
    <2> QED
      BY <1>4, <2>1, OtherStreams DEF StreamInv
  <1>9. MidMessageOpen'
    <2>1. ASSUME NEW i \in DOMAIN msgs, msgs[i].first < arrived + 1,
                 arrived + 1 <= msgs[i].last
          PROVE  FALSE
      <3>1. arrived < msgs[j].last
        BY <2>1, NextMidMessage
      <3> QED
        BY <1>1, <1>7, <3>1
    <2> QED
      BY <2>1 DEF MidMessageOpen
  <1>10. DeliveredInv'
    BY <1>1, <1>5, <1>6 DEF DeliveredInv
  <1>11. Whole'
    <2>1. PICK p \in DOMAIN msgs : msgs[p].first = run[1]
      BY <1>2 DEF StartsMessage
    <2>2. ASSUME NEW i \in DOMAIN msgs
          PROVE  \/ CellsOf(msgs[i]) \subseteq Delivered'
                 \/ CellsOf(msgs[i]) \cap Delivered' = {}
      <3>1. \/ CellsOf(msgs[i]) \subseteq run[1]..arrived
            \/ CellsOf(msgs[i]) \cap run[1]..arrived = {}
        BY <1>1, <1>7, <2>1, IntervalWhole
      <3>2. \/ CellsOf(msgs[i]) \subseteq Delivered
            \/ CellsOf(msgs[i]) \cap Delivered = {}
        BY <1>1 DEF Whole
      <3> QED
        BY <1>5, <3>1, <3>2
    <2> QED
      BY <2>2 DEF Whole, CellsOf
  <1> QED
    BY <1>1, <1>3, <1>5, <1>8, <1>9, <1>10, <1>11
       DEF ReceiverInv, MessagesInOrder, RejectedForCause

\* A data cell arrives.
LEMMA ReceiveStep ==
  ASSUME LinkInv, MaxCells <= SeqMod, ReceiveData
  PROVE  LinkInv'
  <1> DEFINE c == Head(wire)
  <1>1. TypeOK /\ TypeOK'
    BY ReceiveType DEF LinkInv
  <1>2. /\ wire # <<>> /\ wire' = Tail(wire) /\ c.type = "data"
        /\ UNCHANGED senderVars /\ UNCHANGED up /\ arrived' = arrived + 1
        /\ UNCHANGED <<msgs, framed>> /\ ProcessCell(c)
    BY DEF ReceiveData, senderVars
  <1>3. /\ WireInv' /\ QueueInv'
        /\ IsFragment(c, msgs) /\ c.ord = arrived
    BY <1>2, TailStep
  <1>4. c.id \in CellIDs /\ c.end \in BOOLEAN
    <2>1. c \in Cell
      BY <1>1, <1>2, HeadTailProperties DEF TypeOK
    <2> HIDE DEF c
    <2> QED
      BY <1>2, <2>1 DEF Cell
  <1> HIDE DEF c
  <1>5. PICK j \in DOMAIN msgs : IsFragmentOf(c, msgs[j])
    BY <1>3 DEF IsFragment
  <1>6. ReceiverInv'
    BY <1>2, <1>3, <1>4, <1>5, RejectStep, ReleaseStep, ExtendStep DEF ProcessCell
  <1> QED
    BY <1>1, <1>3, <1>6 DEF LinkInv, ReceiverInv

\* LinkInv is inductive as long as data cells are stamped in turn.
LEMMA LinkStep ==
  ASSUME inTurn', MaxCells <= SeqMod, Decodes, LinkInv, [Next]_vars
  PROVE  LinkInv'
  <1>1. ASSUME NEW k \in 0..MaxFrags, NEW id \in CellIDs, NEW end \in BOOLEAN,
               Write(k, id, end)
        PROVE LinkInv'
    BY <1>1, WriteStep
  <1>2. CASE SendCell
    BY <1>2, SendStep
  <1> DEFINE SameReceiver ==
               UNCHANGED <<msgs, framed, streams, arrived, rejected, delivered>>
  <1>t. TypeOK /\ TypeOK'
    BY TypeStep DEF LinkInv
  <1>2a. CASE SendFails
    <2>1. /\ SameReceiver /\ queue' \subseteq queue /\ UNCHANGED wire
          /\ ~up' /\ ~writing'
      BY <1>2a DEF SendFails, receiverVars
    <2>2. QueueInv' /\ DataQueued' \subseteq DataQueued
      BY <2>1, QueueShrinks
    <2> QED
      BY <1>t, <2>1, <2>2, WireFrame, ReceiverFrame DEF LinkInv, ReceiverInv
  <1>3. CASE EncodePanics
    <2>1. /\ SameReceiver /\ queue' \subseteq queue /\ UNCHANGED wire
          /\ panicked' /\ ~writing'
      BY <1>3 DEF EncodePanics, receiverVars, wireVars
    <2>2. QueueInv' /\ DataQueued' \subseteq DataQueued
      BY <2>1, QueueShrinks
    <2> QED
      BY <1>t, <2>1, <2>2, WireFrame, ReceiverFrame DEF LinkInv, ReceiverInv
  <1>4. CASE WriteReturns
    <2>1. /\ SameReceiver /\ queue' = queue
          /\ UNCHANGED <<wire, panicked, up>> /\ ~writing'
      BY <1>4 DEF WriteReturns, receiverVars, wireVars
    <2>2. QueueInv' /\ DataQueued' = DataQueued
      BY <2>1, QueueShrinks DEF DataQueued
    <2> QED
      BY <1>t, <2>1, <2>2, WireFrame, ReceiverFrame DEF LinkInv, ReceiverInv
  <1>5. CASE CoverTick
    <2>1. /\ SameReceiver /\ UNCHANGED <<wire, panicked, up, writing>>
          /\ ~panicked
      BY <1>5 DEF CoverTick, receiverVars, wireVars
    <2>2. DataQueued' = DataQueued
      BY <1>5 DEF CoverTick, DataQueued, DummyCell
    <2>3. QueueInv'
      BY <2>1, <2>2 DEF LinkInv, QueueInv
    <2> QED
      BY <1>t, <2>1, <2>2, <2>3, WireFrame, ReceiverFrame DEF LinkInv, ReceiverInv
  <1>6. CASE ClockTick
    <2>1. /\ SameReceiver /\ queue' = queue
          /\ UNCHANGED <<wire, panicked, up, writing>>
      BY <1>6 DEF ClockTick, receiverVars, wireVars
    <2>2. QueueInv' /\ DataQueued' = DataQueued
      BY <2>1, QueueShrinks DEF DataQueued
    <2>3. panicked' => ~writing'
      BY <2>1 DEF LinkInv, WireInv
    <2> QED
      BY <1>t, <2>1, <2>2, <2>3, WireFrame, ReceiverFrame DEF LinkInv, ReceiverInv
  <1>7. CASE ClockSetBack
    <2>1. /\ SameReceiver /\ queue' = queue
          /\ UNCHANGED <<wire, panicked, up, writing>>
      BY <1>7 DEF ClockSetBack, receiverVars, wireVars
    <2>2. QueueInv' /\ DataQueued' = DataQueued
      BY <2>1, QueueShrinks DEF DataQueued
    <2>3. panicked' => ~writing'
      BY <2>1 DEF LinkInv, WireInv
    <2> QED
      BY <1>t, <2>1, <2>2, <2>3, WireFrame, ReceiverFrame DEF LinkInv, ReceiverInv
  <1>8. CASE ReceiveData
    BY <1>8, ReceiveStep
  <1>9. CASE DropCell
    <2>1. /\ SameReceiver /\ wire # <<>> /\ wire' = Tail(wire)
          /\ UNCHANGED senderVars /\ UNCHANGED up /\ Head(wire).type # "data"
      BY <1>9 DEF DropCell, receiverVars, senderVars
    <2>2. WireInv' /\ QueueInv'
      BY <2>1, TailStep
    <2> QED
      BY <1>t, <2>1, <2>2, ReceiverFrame DEF LinkInv, ReceiverInv
  <1>10. ASSUME NEW n \in ReadSizes, Read(n)
         PROVE LinkInv'
    <2>1. /\ SameReceiver /\ queue' = queue
          /\ UNCHANGED <<wire, panicked, up, writing>>
      BY <1>10 DEF Read, senderVars, wireVars
    <2>2. QueueInv' /\ DataQueued' = DataQueued
      BY <2>1, QueueShrinks DEF DataQueued
    <2>3. panicked' => ~writing'
      BY <2>1 DEF LinkInv, WireInv
    <2> QED
      BY <1>t, <2>1, <2>2, <2>3, WireFrame, ReceiverFrame DEF LinkInv, ReceiverInv
  <1>11. CASE UNCHANGED vars
    <2>1. /\ SameReceiver /\ queue' = queue
          /\ UNCHANGED <<wire, panicked, up, writing>>
      BY <1>11 DEF vars
    <2>2. QueueInv' /\ DataQueued' = DataQueued
      BY <2>1, QueueShrinks DEF DataQueued
    <2>3. panicked' => ~writing'
      BY <2>1 DEF LinkInv, WireInv
    <2> QED
      BY <1>t, <2>1, <2>2, <2>3, WireFrame, ReceiverFrame DEF LinkInv, ReceiverInv
  <1> QED
    BY <1>1, <1>2, <1>2a, <1>3, <1>4, <1>5, <1>6, <1>7, <1>8, <1>9, <1>10, <1>11
       DEF Next

\* Data cells out of turn are never forgotten.
LEMMA InTurnBefore ==
  ASSUME [Next]_vars, inTurn'
  PROVE  inTurn
  BY DEF Next, Write, SendCell, SendFails, EncodePanics, WriteReturns, CoverTick,
     ClockTick, ClockSetBack, ReceiveData, DropCell, Read, clockVars, senderVars,
     vars

InTurnInv == inTurn => LinkInv

\* The inductive invariant holds when cells can be decoded.
LEMMA LinkInvariance ==
  ASSUME MaxCells <= SeqMod, Decodes
  PROVE  Spec => []InTurnInv
  <1>1. Init => LinkInv
    <2> SUFFICES ASSUME Init PROVE LinkInv
      OBVIOUS
    <2>1. TypeOK
      <3>1. NoStream \in Stream
        BY LinkAssumption DEF NoStream, Stream
      <3>2. streams \in [CellIDs -> Stream]
        BY <3>1 DEF Init
      <3>3. \A S : <<>> \in Seq(S)
        BY EmptySeq
      <3>4. /\ 0 \in 0..MaxCells /\ 0 \in 0..MaxDummies /\ 0 \in 0..MaxTime
            /\ 0 \in 0..MaxSetBacks
        BY LinkAssumption
      <3> QED
        BY <3>2, <3>3, <3>4, Zenon DEF Init, TypeOK
    <2>2. /\ DOMAIN msgs = {} /\ DOMAIN wire = {} /\ DOMAIN delivered = {}
          /\ DataQueued = {}
      BY DEF Init, DataQueued
    <2>3. StreamInv
      BY DEF Init, StreamInv, StreamOK, NoStream
    <2>4. WireInv
      BY <2>2 DEF Init, WireInv
    <2> QED
      BY <2>1, <2>2, <2>3, <2>4 DEF Init, LinkInv, MessagesInOrder, QueueInv,
         MidMessageOpen, DeliveredInv, InOrder, Whole,
         RejectedForCause
  <1>2. InTurnInv /\ [Next]_vars => InTurnInv'
    BY LinkStep, InTurnBefore DEF InTurnInv
  <1>3. Init => InTurnInv
    BY <1>1 DEF InTurnInv
  <1> QED
    BY <1>2, <1>3, PTL DEF Spec

SilentInv == delivered = <<>> /\ rejected = {}

\* With a header length that DecodeCell and EncodeCell disagree about, the
\* Reassembler is never reached: nothing is handed over and nothing refused.
THEOREM NothingDecoded ==
  ASSUME ~Decodes
  PROVE  Spec => []SilentInv
  <1>1. Init => SilentInv
    BY DEF Init, SilentInv
  <1>2. SilentInv /\ [Next]_vars => SilentInv'
    BY DEF SilentInv, Next, Write, SendCell, SendFails, EncodePanics, WriteReturns,
       CoverTick, ClockTick, ClockSetBack, ReceiveData, DropCell, Read,
       receiverVars, vars
  <1> QED
    BY <1>1, <1>2, PTL DEF Spec

\* What the Reassembler hands over is in the order it was written, without
\* repetition, whatever IDs collide and whichever messages lack an end flag.
THEOREM InOrderDelivery ==
  ASSUME MaxCells <= SeqMod
  PROVE  Spec => []DeliveredInOrder
  <1>1. CASE Decodes
    <2>1. InTurnInv => DeliveredInOrder
      BY DEF InTurnInv, LinkInv, DeliveredInOrder, InOrder
    <2> QED
      BY <1>1, <2>1, LinkInvariance, PTL
  <1>2. CASE ~Decodes
    <2>1. SilentInv => DeliveredInOrder
      BY DEF SilentInv, DeliveredInOrder
    <2> QED
      BY <1>2, <2>1, NothingDecoded, PTL
  <1> QED
    BY <1>1, <1>2

\* A message is handed over whole or not at all.
THEOREM WholeMessageDelivery ==
  ASSUME MaxCells <= SeqMod
  PROVE  Spec => []WholeMessages
  <1>1. CASE Decodes
    <2>1. InTurnInv => WholeMessages
      BY DEF InTurnInv, LinkInv, WholeMessages, Whole
    <2> QED
      BY <1>1, <2>1, LinkInvariance, PTL
  <1>2. CASE ~Decodes
    <2>1. SilentInv => WholeMessages
      BY DEF SilentInv, WholeMessages, Delivered
    <2> QED
      BY <1>2, <2>1, NothingDecoded, PTL
  <1> QED
    BY <1>1, <1>2

\* ProcessCell only refuses a cell whose ID an unterminated message had drawn.
THEOREM RejectionCause ==
  ASSUME MaxCells <= SeqMod
  PROVE  Spec => []RejectedOnlyAfterUnterminated
  <1>1. CASE Decodes
    <2>1. InTurnInv => RejectedOnlyAfterUnterminated
      BY DEF InTurnInv, LinkInv, RejectedOnlyAfterUnterminated, RejectedForCause
    <2> QED
      BY <1>1, <2>1, LinkInvariance, PTL
  <1>2. CASE ~Decodes
    <2>1. SilentInv => RejectedOnlyAfterUnterminated
      BY DEF SilentInv, RejectedOnlyAfterUnterminated
    <2> QED
      BY <1>2, <2>1, NothingDecoded, PTL
  <1> QED
    BY <1>1, <1>2

\* A non-empty set of items with natural send times has a first one.
LEMMA LeastNat ==
  ASSUME NEW Q, Q # {}, \A x \in Q : x.prio \in Nat
  PROVE  \E m \in Q : \A y \in Q : m.prio <= y.prio
  <1> DEFINE T == {x.prio : x \in Q}
  <1>1. T \subseteq Nat /\ T # {}
    OBVIOUS
  <1>2. \E p \in T : \A q \in T : ~(<<q, p>> \in OpToRel(<, Nat))
    <2> HIDE DEF T
    <2> QED
      BY <1>1, NatLessThanWellFounded, WFMin
  <1>3. PICK p \in T : \A q \in T : ~(<<q, p>> \in OpToRel(<, Nat))
    BY <1>2
  <1>4. ASSUME NEW q \in T PROVE p <= q
    <2> HIDE DEF T
    <2>1. p \in Nat /\ q \in Nat
      BY <1>1
    <2>2. ~(<<q, p>> \in {ss \in Nat \X Nat : ss[1] < ss[2]})
      BY <1>3 DEF OpToRel
    <2> QED
      BY <2>1, <2>2
  <1> QED
    BY <1>4

DataDue ==
    now <= latest /\ \A x \in DataQueued : x.prio <= latest

\* Data cells are stamped with times the clock has shown, whatever it does in
\* between.
LEMMA DataDueStep ==
  ASSUME TypeOK, DataDue, [Next]_vars
  PROVE  DataDue'
  <1>1. /\ now \in Nat /\ latest \in Nat /\ now <= latest
        /\ \A x \in queue : x.prio \in Nat
    BY LinkAssumption DEF TypeOK, DataDue
  <1>2. ASSUME NEW k \in 0..MaxFrags, NEW id \in CellIDs, NEW end \in BOOLEAN,
               Write(k, id, end)
        PROVE DataDue'
    <2>1. PICK st \in Stamps(k) :
             /\ queue' = ScheduleCells(Fragment(k, id, end), st)
             /\ now' = IF k = 0 THEN now ELSE st[k]
             /\ latest' \in {latest} \cup {st[i] : i \in 1..k}
             /\ latest <= latest' /\ \A i \in 1..k : st[i] <= latest'
      BY <1>2 DEF Write
    <2>2. /\ st \in [1..k -> 0..MaxTime] /\ k \in Nat /\ MaxTime \in Nat
      BY <2>1, LinkAssumption DEF Stamps
    <2>3. latest' \in Nat /\ now' <= latest'
      BY <1>1, <2>1, <2>2
    <2>4. ASSUME NEW x \in queue' PROVE x \in queue \/ \E i \in 1..k : x.prio = st[i]
      BY <2>1 DEF ScheduleCells, Fragment
    <2> QED
      BY <1>1, <2>1, <2>3, <2>4 DEF DataDue, DataQueued
  <1>3. CASE CoverTick
    BY <1>3 DEF CoverTick, DataDue, DataQueued, DummyCell, clockVars
  <1>4. CASE ClockTick
    BY <1>1, <1>4 DEF ClockTick, DataDue, DataQueued
  <1>5. CASE ClockSetBack
    BY <1>1, <1>5 DEF ClockSetBack, DataDue, DataQueued
  <1>6. CASE \/ SendCell \/ SendFails \/ EncodePanics \/ WriteReturns
             \/ ReceiveData \/ DropCell
             \/ (\E n \in ReadSizes : Read(n)) \/ UNCHANGED vars
    <2>1. queue' \subseteq queue /\ now' = now /\ latest' = latest
      BY <1>6 DEF SendCell, SendFails, EncodePanics, WriteReturns,
         ReceiveData, DropCell, Read, senderVars, clockVars, vars
    <2> QED
      BY <2>1 DEF DataDue, DataQueued
  <1> QED
    BY <1>2, <1>3, <1>4, <1>5, <1>6 DEF Next

\* Write returns, over a working transport, with a data cell in the queue only
\* while the clock stands before a time it has shown: otherwise the cell is due,
\* and GetNextCell has something to give.
THEOREM WriteFlushes == Spec => WriteFlushesData
  <1>1. ASSUME TypeOK, DataDue, [Next]_vars
        PROVE  [writing /\ ~writing' /\ up' /\ ~panicked' /\ DataQueued' # {}
                  => now' < latest']_vars
    <2> SUFFICES ASSUME Next, writing, ~writing', up', ~panicked', DataQueued' # {}
                 PROVE  now' < latest'
      BY <1>1
    <2>1. TypeOK /\ DataDue /\ now \in Nat /\ latest \in Nat
      BY <1>1, LinkAssumption DEF TypeOK
    <2>2. WriteReturns
      BY DEF Next, Write, SendCell, SendFails, EncodePanics, CoverTick, ClockTick,
         ClockSetBack, ReceiveData, DropCell, Read, senderVars
    <2>3. UNCHANGED <<queue, now, latest>>
      BY <2>2 DEF WriteReturns, clockVars
    <2>4. PICK d \in queue : d.cell.type = "data" /\ d.prio <= latest
      BY <2>1, <2>3 DEF DataQueued, DataDue
    <2>5. queue # {} /\ \A x \in queue : x.prio \in Nat
      BY <2>1 DEF TypeOK
    <2>6. PICK m \in queue : \A y \in queue : m.prio <= y.prio
      BY <2>5, LeastNat
    <2>7. now < m.prio
      BY <2>1, <2>2, <2>5, <2>6 DEF WriteReturns, IsNext
    <2> QED
      BY <2>1, <2>3, <2>4, <2>5, <2>6, <2>7
  <1>2. Init => DataDue
    BY DEF Init, DataDue, DataQueued
  <1>3. TypeOK /\ DataDue /\ [Next]_vars => DataDue'
    BY DataDueStep
  <1> QED
    BY <1>1, <1>2, <1>3, TypeCorrect, PTL DEF Spec, WriteFlushesData

-----------------------------------------------------------------------------
(* The link implements the message stream.                                 *)

\* The Framer numbers cells without a gap: the next ordinal follows the last
\* cell of the last message.
NoGap == framed = IF msgs = <<>> THEN 0 ELSE msgs[Len(msgs)].last + 1

\* The messages as MessageStream knows them.
Sent == [i \in DOMAIN msgs |-> [first |-> msgs[i].first, last |-> msgs[i].last]]

LEMMA SentProperties ==
  ASSUME TypeOK
  PROVE  /\ DOMAIN Sent = 1..Len(msgs) /\ Len(Sent) = Len(msgs) /\ Len(msgs) \in Nat
         /\ \A i \in 1..Len(msgs) :
              Sent[i].first = msgs[i].first /\ Sent[i].last = msgs[i].last
         /\ Sent \in Seq([first : Ordinals, last : Ordinals])
         /\ Sent = <<>> <=> msgs = <<>>
  <1>1. msgs \in Seq(Message) /\ DOMAIN msgs = 1..Len(msgs) /\ Len(msgs) \in Nat
    BY DEF TypeOK
  <1>2. \A i \in 1..Len(msgs) : msgs[i].first \in Ordinals /\ msgs[i].last \in Ordinals
    <2>1. \A i \in 1..Len(msgs) : msgs[i] \in Message
      BY <1>1
    <2> QED
      BY <2>1 DEF Message
  <1>3. Sent \in [1..Len(msgs) -> [first : Ordinals, last : Ordinals]]
    BY <1>1, <1>2 DEF Sent
  <1>4. Sent \in Seq([first : Ordinals, last : Ordinals])
    <2> DEFINE S == [first : Ordinals, last : Ordinals]
    <2>1. Seq(S) = UNION {[1..n -> S] : n \in Nat}
      BY SeqDef
    <2> HIDE DEF S
    <2> QED
      BY <1>1, <1>3, <2>1 DEF S
  <1>5. Len(Sent) = Len(msgs)
    BY <1>1, <1>3, <1>4, LenProperties
  <1>6. Sent = <<>> <=> msgs = <<>>
    BY <1>1, <1>4, <1>5, EmptySeq
  <1> QED
    BY <1>1, <1>3, <1>4, <1>5, <1>6 DEF Sent

\* A Write of k cells adds one message, which starts where the last one ended.
LEMMA WriteAppends ==
  ASSUME TypeOK, NoGap, NEW k \in 0..MaxFrags, NEW id \in CellIDs,
         NEW end \in BOOLEAN, Write(k, id, end)
  PROVE  /\ NoGap'
         /\ k = 0 => Sent' = Sent
         /\ k > 0 => Sent' = Append(Sent, [first |-> framed, last |-> framed + k - 1])
         /\ k <= MaxCells /\ framed + k <= MaxCells
  <1> DEFINE m == [id |-> id, first |-> framed, last |-> framed + k - 1, end |-> end]
  <1>1. /\ k \in Nat /\ framed \in Nat /\ MaxCells \in Nat /\ framed + k <= MaxCells
        /\ framed' = framed + k
        /\ msgs \in Seq(Message)
        /\ msgs' = IF k = 0 THEN msgs ELSE Append(msgs, m)
    BY LinkAssumption DEF TypeOK, Write
  <1>2. CASE k = 0
    BY <1>1, <1>2 DEF NoGap, Sent
  <1>3. CASE k > 0
    <2>1. m \in Message
      BY <1>1, <1>3 DEF Message, Ordinals
    <2>2. msgs' = Append(msgs, m) /\ m.first = framed /\ m.last = framed + k - 1
      BY <1>1, <1>3
    <2> HIDE DEF m
    <2>3. /\ Len(msgs') = Len(msgs) + 1 /\ msgs' # <<>> /\ msgs'[Len(msgs')] = m
          /\ DOMAIN msgs' = 1..(Len(msgs) + 1) /\ Len(msgs) \in Nat
          /\ \A i \in 1..Len(msgs) : msgs'[i] = msgs[i]
          /\ msgs'[Len(msgs) + 1] = m
      BY <1>1, <2>1, <2>2, AppendProperties
    <2>4. NoGap'
      <3>1. framed' = msgs'[Len(msgs')].last + 1
        BY <1>1, <2>2, <2>3
      <3> QED
        BY <2>3, <3>1 DEF NoGap
    <2> DEFINE r == [first |-> framed, last |-> framed + k - 1]
    <2>5. r \in [first : Ordinals, last : Ordinals]
      BY <1>1, <1>3 DEF Ordinals
    <2>6. Sent' = Append(Sent, r)
      <3> HIDE DEF r
      <3>1. /\ DOMAIN Append(Sent, r) = 1..(Len(msgs) + 1)
            /\ Append(Sent, r) = [i \in 1..(Len(msgs) + 1) |->
                                    IF i = Len(msgs) + 1 THEN r ELSE Sent[i]]
        <4>1. /\ Append(Sent, r) \in Seq([first : Ordinals, last : Ordinals])
              /\ Len(Append(Sent, r)) = Len(Sent) + 1
              /\ \A i \in 1..Len(Sent) : Append(Sent, r)[i] = Sent[i]
              /\ Append(Sent, r)[Len(Sent) + 1] = r
          BY <2>5, SentProperties, AppendProperties
        <4>2. Len(Sent) = Len(msgs) /\ Len(msgs) \in Nat
          BY SentProperties
        <4> DEFINE t == Append(Sent, r)
        <4> HIDE DEF t
        <4>3. t \in [1..(Len(msgs) + 1) -> [first : Ordinals, last : Ordinals]]
          BY <4>1, <4>2, LenProperties DEF t
        <4>4. \A i \in 1..(Len(msgs) + 1) :
                t[i] = IF i = Len(msgs) + 1 THEN r ELSE Sent[i]
          BY <4>1, <4>2 DEF t
        <4> QED
          BY <4>3, <4>4 DEF t
      <3>2. Sent' = [i \in 1..(Len(msgs) + 1) |->
                        [first |-> msgs'[i].first, last |-> msgs'[i].last]]
        BY <2>3 DEF Sent
      <3>3. ASSUME NEW i \in 1..(Len(msgs) + 1)
            PROVE  [first |-> msgs'[i].first, last |-> msgs'[i].last]
                     = IF i = Len(msgs) + 1 THEN r ELSE Sent[i]
        <4>1. CASE i = Len(msgs) + 1
          BY <2>2, <2>3, <4>1 DEF r
        <4>2. CASE i # Len(msgs) + 1
          <5>1. i \in 1..Len(msgs)
            BY <2>3, <4>2
          <5>2. i \in DOMAIN msgs
            BY <1>1, <5>1
          <5> QED
            BY <2>3, <4>2, <5>1, <5>2 DEF Sent
        <4> QED
          BY <4>1, <4>2
      <3> QED
        BY <3>1, <3>2, <3>3
    <2> QED
      BY <1>1, <1>3, <2>4, <2>6
  <1> QED
    BY <1>1, <1>2, <1>3

\* Outside Write no message is framed.
LEMMA SentFrame ==
  ASSUME \/ SendCell \/ SendFails \/ EncodePanics \/ WriteReturns \/ CoverTick
         \/ ClockTick \/ ClockSetBack \/ ReceiveData \/ DropCell
         \/ (\E n \in ReadSizes : Read(n)) \/ UNCHANGED vars
  PROVE  UNCHANGED <<msgs, framed>> /\ (~ReceiveData => UNCHANGED delivered)
  BY DEF SendCell, SendFails, EncodePanics, WriteReturns, CoverTick, ClockTick,
     ClockSetBack, ReceiveData, DropCell, Read, senderVars, receiverVars, vars

LEMMA NoGapInvariance == Spec => []NoGap
  <1>1. Init => NoGap
    BY DEF Init, NoGap
  <1>2. TypeOK /\ NoGap /\ [Next]_vars => NoGap'
    <2> SUFFICES ASSUME TypeOK, NoGap, [Next]_vars PROVE NoGap'
      OBVIOUS
    <2>1. ASSUME NEW k \in 0..MaxFrags, NEW id \in CellIDs, NEW end \in BOOLEAN,
                 Write(k, id, end)
          PROVE  NoGap'
      BY <2>1, WriteAppends
    <2>2. CASE UNCHANGED <<msgs, framed>>
      BY <2>2 DEF NoGap
    <2> QED
      BY <2>1, <2>2, SentFrame DEF Next
  <1> QED
    BY <1>1, <1>2, TypeCorrect, PTL DEF Spec

\* A released buffer is the units of a run of whole messages, from the one it
\* starts with to the one whose end flag released it.
LEMMA ReleaseHandsOver ==
  ASSUME LinkInv, MaxCells <= SeqMod, NEW c, c.id \in CellIDs,
         NEW j \in DOMAIN msgs, IsFragmentOf(c, msgs[j]), c.ord = arrived,
         Release(c), UNCHANGED msgs
  PROVE  \E i, q \in DOMAIN Sent : i <= q /\ Promise!HandOver(i, q)
  <1> DEFINE run == Append(buffer(c), c.ord)
  <1>1. /\ run \in Seq(Ordinals) /\ Len(run) \in Nat /\ Len(run) > 0
        /\ \A k \in 1..Len(run) : run[k] = run[1] + k - 1
        /\ run[Len(run)] = arrived
        /\ StartsMessage(run[1], msgs)
        /\ \A k \in DOMAIN delivered : delivered[k] < run[1]
    BY AcceptedRun DEF Release
  <1>2. delivered' = delivered \o run /\ arrived = msgs[j].last
    BY DEF Release, IsFragmentOf
  <1> HIDE DEF run
  <1>3. PICK i \in DOMAIN msgs : msgs[i].first = run[1]
    BY <1>1 DEF StartsMessage
  <1>4. TypeOK /\ MessagesInOrder /\ delivered \in Seq(Ordinals)
    BY DEF LinkInv, TypeOK
  <1>5. /\ i \in Nat /\ j \in Nat /\ run[1] \in Nat /\ arrived \in Nat
        /\ msgs[j].last \in Nat /\ msgs[i].first \in Nat /\ msgs[i].last \in Nat
        /\ msgs[j].first \in Nat
    <2>1. DOMAIN msgs = 1..Len(msgs) /\ msgs[i] \in Message /\ msgs[j] \in Message
      BY <1>4 DEF TypeOK
    <2> QED
      BY <1>2, <1>3, <2>1, OrdinalNat DEF Message
  <1>6. run[1] <= arrived /\ arrived = run[1] + Len(run) - 1
    BY <1>1, <1>5
  <1>7. i <= j
    <2> SUFFICES ASSUME j < i PROVE FALSE
      BY <1>5
    <2>1. msgs[j].last < msgs[i].first
      BY <1>4 DEF MessagesInOrder
    <2> QED
      BY <1>2, <1>3, <1>5, <1>6, <2>1
  <1>8. /\ i \in DOMAIN Sent /\ j \in DOMAIN Sent
        /\ Sent[i].first = run[1] /\ Sent[j].last = arrived
    BY <1>2, <1>3, <1>4, SentProperties DEF Sent
  <1>9. run = [n \in 1..(arrived - run[1] + 1) |-> run[1] + n - 1]
    <2> DEFINE a == run[1]
               n == Len(run)
    <2>0. a \in Nat /\ n \in Nat /\ arrived \in Nat /\ arrived = a + n - 1
      BY <1>1, <1>5, <1>6
    <2>1. arrived - a + 1 = n
      <3> HIDE DEF a, n
      <3> QED
        BY <2>0
    <2>2. run \in [1..Len(run) -> Ordinals]
      BY <1>1, LenProperties
    <2> QED
      BY <1>1, <2>1, <2>2
  <1>10. delivered # <<>> => delivered[Len(delivered)] < run[1]
    BY <1>1, <1>4
  <1>11. Promise!HandOver(i, j)
    <2>1. delivered' = delivered \o Promise!Units(Sent[i].first, Sent[j].last)
      BY <1>2, <1>8, <1>9 DEF Promise!Units
    <2>2. Sent' = Sent
      BY DEF Sent
    <2> QED
      BY <1>8, <1>10, <2>1, <2>2 DEF Promise!HandOver, Sent
  <1> QED
    BY <1>7, <1>8, <1>11

\* A data cell that arrives hands whole messages over or changes nothing the
\* reader sees.
LEMMA ReceiveHandsOver ==
  ASSUME LinkInv, MaxCells <= SeqMod, ReceiveData
  PROVE  Promise!Next \/ UNCHANGED Promise!vars
  <1> DEFINE c == Head(wire)
  <1>1. /\ wire # <<>> /\ wire' = Tail(wire) /\ c.type = "data" /\ TypeOK
        /\ UNCHANGED senderVars /\ UNCHANGED up /\ arrived' = arrived + 1
        /\ UNCHANGED msgs /\ ProcessCell(c)
    BY DEF ReceiveData, senderVars, LinkInv
  <1>2. IsFragment(c, msgs) /\ c.ord = arrived
    BY <1>1, TailStep
  <1>3. c.id \in CellIDs
    <2>1. c \in Cell
      BY <1>1, HeadTailProperties DEF TypeOK
    <2> HIDE DEF c
    <2> QED
      BY <1>1, <2>1 DEF Cell
  <1> HIDE DEF c
  <1>4. PICK j \in DOMAIN msgs : IsFragmentOf(c, msgs[j])
    BY <1>2 DEF IsFragment
  <1>5. CASE Release(c)
    <2>1. \E i, q \in DOMAIN Sent : i <= q /\ Promise!HandOver(i, q)
      BY <1>1, <1>2, <1>3, <1>4, <1>5, ReleaseHandsOver
    <2> QED
      BY <2>1 DEF Promise!Next, Sent
  <1>6. CASE Reject(c) \/ Extend(c)
    BY <1>1, <1>6 DEF Reject, Extend, Promise!vars
  <1> QED
    BY <1>1, <1>5, <1>6 DEF ProcessCell

\* A Write submits a message, or nothing when it is empty.
LEMMA WriteSubmits ==
  ASSUME TypeOK, NoGap, NEW k \in 0..MaxFrags, NEW id \in CellIDs,
         NEW end \in BOOLEAN, Write(k, id, end)
  PROVE  Promise!Next \/ UNCHANGED Promise!vars
  <1>1. delivered' = delivered
    BY DEF Write, receiverVars
  <1>2. CASE k = 0
    <2>1. Sent' = Sent
      BY <1>2, WriteAppends
    <2> QED
      BY <1>1, <2>1 DEF Promise!vars, Sent
  <1>3. CASE k > 0
    <2>1. /\ Sent' = Append(Sent, [first |-> framed, last |-> framed + k - 1])
          /\ framed + k <= MaxCells /\ k \in 1..MaxCells
      BY <1>3, WriteAppends, LinkAssumption
    <2>2. framed = Promise!NextUnit
      <3>1. Promise!NextUnit = IF Sent = <<>> THEN 0 ELSE Sent[Len(Sent)].last + 1
        BY DEF Promise!NextUnit, Sent
      <3>2. msgs # <<>> => Len(msgs) \in 1..Len(msgs)
        BY EmptySeq DEF TypeOK
      <3> QED
        BY <3>1, <3>2, SentProperties DEF NoGap
    <2>3. Promise!Submit(k)
      BY <1>1, <2>1, <2>2 DEF Promise!Submit, Sent
    <2> QED
      BY <2>1, <2>3 DEF Promise!Next
  <1> QED
    BY <1>2, <1>3

\* While data cells are stamped in turn, one step of the link is a step of the
\* message stream or none.
LEMMA LinkSimulates ==
  ASSUME TypeOK, NoGap, MaxCells <= SeqMod, InTurnInv \/ ~Decodes, [Next]_vars
  PROVE  [inTurn' => Promise!Next]_(Promise!vars)
  <1> SUFFICES ASSUME inTurn'
               PROVE  Promise!Next \/ UNCHANGED Promise!vars
    OBVIOUS
  <1>1. ASSUME NEW k \in 0..MaxFrags, NEW id \in CellIDs, NEW end \in BOOLEAN,
               Write(k, id, end)
        PROVE  Promise!Next \/ UNCHANGED Promise!vars
    BY <1>1, WriteSubmits
  <1>2. CASE ReceiveData
    <2>1. LinkInv
      BY <1>2, InTurnBefore DEF ReceiveData, InTurnInv
    <2> QED
      BY <1>2, <2>1, ReceiveHandsOver
  <1>3. CASE UNCHANGED <<msgs, delivered>>
    BY <1>3 DEF Promise!vars
  <1> QED
    BY <1>1, <1>2, <1>3, SentFrame DEF Next

\* As long as data cells are stamped in turn, the link implements MessageStream
\* step by step: what the Reassembler writes to
\* inboundQueue is always a run of whole messages, later than all it wrote
\* before, whatever IDs collide and wherever the sender or the transport stops.
THEOREM LinkImplementsStream ==
  ASSUME MaxCells <= SeqMod
  PROVE  Spec => ImplementsMessageStream
  <1>1. Init => Promise!Init
    BY DEF Init, Promise!Init
  <1>2. CASE Decodes
    <2>1. TypeOK /\ NoGap /\ InTurnInv /\ [Next]_vars
            => [inTurn' => Promise!Next]_(Promise!vars)
      BY LinkSimulates
    <2> QED
      BY <1>1, <1>2, <2>1, TypeCorrect, NoGapInvariance, LinkInvariance, PTL
         DEF Spec, ImplementsMessageStream
  <1>3. CASE ~Decodes
    <2>1. TypeOK /\ NoGap /\ [Next]_vars => [inTurn' => Promise!Next]_(Promise!vars)
      BY <1>3, LinkSimulates
    <2> QED
      BY <1>1, <2>1, TypeCorrect, NoGapInvariance, PTL
         DEF Spec, ImplementsMessageStream
  <1> QED
    BY <1>2, <1>3
=============================================================================
