---------------------------- MODULE DisguiseLink ----------------------------
(***************************************************************************)
(* One direction of a Disguise connection: application data that goes      *)
(* into Conn.Write, is cut into cells by the sender's Framer, ordered by   *)
(* its Scheduler, carried by the transport, put together again by the      *)
(* receiver's Reassembler and handed out by Conn.Read.                     *)
(*                                                                         *)
(* Each data cell is known by its ordinal, the number of data cells the    *)
(* Framer made before it; the ordinal stands for the bytes the cell        *)
(* carries, and the sequence number on the wire is the ordinal modulo      *)
(* SeqMod (uint32).  A Manager method runs under Manager.mu, so each one   *)
(* is a single step here; Manager.tla looks inside the lock.               *)
(***************************************************************************)
EXTENDS Integers, Sequences, FiniteSets

CONSTANTS
    CellIDs,         \* values generateCellID can draw (0 .. 2^16-1 in the code)
    SeqMod,          \* size of the sequence number space, 2^32 in the code
    MaxCells,        \* bound: data cells framed in a behaviour
    MaxFrags,        \* bound: cells of one message
    MaxDummies,      \* bound: cover cells created in a behaviour
    MaxTime,         \* bound: the last value of the clock
    MaxSetBacks,     \* bound: steps in which the clock is set back
    ProbingInterval, \* how far in the future a cover cell is scheduled
    ReadSizes,       \* lengths of the buffers given to Conn.Read
    CellHeaderLen    \* where DecodeCell expects the content; 20 in the code

ASSUME LinkAssumption ==
    /\ CellIDs # {} /\ CellIDs \subseteq Nat
    /\ SeqMod \in Nat /\ SeqMod > 1
    /\ MaxCells \in Nat /\ MaxFrags \in Nat /\ MaxDummies \in Nat
    /\ MaxTime \in Nat /\ MaxSetBacks \in Nat /\ ProbingInterval \in Nat
    /\ ReadSizes \subseteq Nat /\ CellHeaderLen \in Nat

VARIABLES
    \* the sending side
    msgs,      \* history: the messages framed, in order
    framed,    \* data cells framed so far; Framer.seq = framed % SeqMod
    dummies,   \* cover cells created so far
    queue,     \* Scheduler.queue: cells with their send times
    now,       \* the wall clock
    setBacks,  \* steps so far in which the clock was set back
    latest,    \* history: the latest time the clock has shown
    inTurn,    \* history: every data cell was stamped later than the data
               \* cells that were queued at the time
    writing,   \* a Conn.Write is in its send loop
    panicked,  \* EncodeCell ran out of the padding's bounds
    \* the transport
    wire,      \* cells in flight, in order
    up,        \* the transport still accepts writes
    \* the receiving side
    streams,   \* Reassembler.streams
    arrived,   \* history: data cells given to ProcessCell
    rejected,  \* history: ordinals ProcessCell answered with an error
    inbound,   \* Manager.inboundQueue
    delivered, \* history: all that was ever written to inboundQueue
    read       \* what Conn.Read returned to the application

clockVars == <<now, setBacks, latest, inTurn>>
senderVars == <<msgs, framed, dummies, queue, now, setBacks, latest, inTurn,
                writing, panicked>>
wireVars == <<wire, up>>
receiverVars == <<streams, arrived, rejected, inbound, delivered, read>>
vars == <<msgs, framed, dummies, queue, now, setBacks, latest, inTurn,
          writing, panicked, wire, up,
          streams, arrived, rejected, inbound, delivered, read>>

-----------------------------------------------------------------------------
(* Cells.  The bytes of a data cell are represented by its ordinal.        *)

DataCell(id, ord, end) ==
    [type |-> "data", id |-> id, seq |-> ord % SeqMod, end |-> end, ord |-> ord]

DummyCell(n) ==
    [type |-> "dummy", id |-> 0, seq |-> 0, end |-> FALSE, ord |-> n]

\* EncodeCell writes 22 bytes before the content: fields of 2, 1, 1, 4, 8, 2, 2
\* and 2 bytes.  DecodeCell compares the length of what follows the first
\* CellHeaderLen bytes with PayloadLen + PaddingLen, and so accepts the cells
\* EncodeCell makes if and only if the two agree (CellProofs.tla).
EncodedHeaderLen == 22
Decodes == CellHeaderLen = EncodedHeaderLen

NoStream == [open |-> FALSE, lastSeq |-> 0, buf |-> <<>>]

\* Mutant of Prev: an unknown ID gets a stream whose lastSeq is the zero value.
PrevZero(s) == 0

Prev(s) == IF s = 0 THEN SeqMod - 1 ELSE s - 1   \* uint32 s - 1
Succ(s) == IF s = SeqMod - 1 THEN 0 ELSE s + 1   \* uint32 s + 1

Init ==
    /\ msgs = <<>> /\ framed = 0 /\ dummies = 0 /\ queue = {}
    /\ now = 0 /\ setBacks = 0 /\ latest = 0 /\ inTurn = TRUE
    /\ writing = FALSE /\ panicked = FALSE
    /\ wire = <<>> /\ up = TRUE
    /\ streams = [i \in CellIDs |-> NoStream]
    /\ arrived = 0 /\ rejected = {}
    /\ inbound = <<>> /\ delivered = <<>> /\ read = <<>>

-----------------------------------------------------------------------------
(* The sending side.                                                       *)

\* The readings of time.Now() for the k cells of one message: between two of
\* them the clock may stand still, jump ahead or be set back.
Stamps(k) == [1..k -> 0..MaxTime]

\* No reading is before another one or before the clock.
Forward(k, st) ==
    /\ \A i \in 1..k : now <= st[i]
    /\ \A i, j \in 1..k : i < j => st[i] <= st[j]

SetBack ==
    setBacks < MaxSetBacks /\ setBacks' = setBacks + 1

DataQueued == {x \in queue : x.cell.type = "data"}

\* The stamps rise, from above those of the data cells queued.
StampsInTurn(k, st) ==
    /\ \A i \in 1..k : \A x \in DataQueued : x.prio < st[i]
    /\ \A i, j \in 1..k : i < j => st[i] < st[j]

\* Mutant of Fragment: every cell of a message whose last one is cut short gets
\* the end flag.
FragmentEndOnAll(k, id, end) ==
    [i \in 1..k |-> DataCell(id, framed + i - 1, end)]

\* The last fragment carries the end flag unless the drawn length met the end
\* of the data exactly (the comparison in Fragment is strict).
Fragment(k, id, end) ==
    [i \in 1..k |-> DataCell(id, framed + i - 1, end /\ i = k)]

\* Mutant of ScheduleCells: data waits for the next cover cell.
ScheduleCellsLate(cells, st) ==
    queue \cup {[cell |-> cells[i], prio |-> st[i] + ProbingInterval] :
                   i \in DOMAIN cells}

ScheduleCells(cells, st) ==
    queue \cup {[cell |-> cells[i], prio |-> st[i]] : i \in DOMAIN cells}

\* Conn.Write up to its send loop: QueueApplicationData frames and schedules
\* the whole message.  k = 0 is an empty Write.
Write(k, id, end) ==
    /\ ~panicked /\ ~writing
    /\ framed + k <= MaxCells
    /\ \E st \in Stamps(k) :
        /\ queue' = ScheduleCells(Fragment(k, id, end), st)
        /\ now' = IF k = 0 THEN now ELSE st[k]
        /\ IF Forward(k, st) THEN UNCHANGED setBacks ELSE SetBack
        /\ latest' \in {latest} \cup {st[i] : i \in 1..k}
        /\ latest <= latest' /\ \A i \in 1..k : st[i] <= latest'
        /\ inTurn' = (inTurn /\ StampsInTurn(k, st))
    /\ msgs' = IF k = 0 THEN msgs
               ELSE Append(msgs, [id |-> id, first |-> framed,
                                  last |-> framed + k - 1, end |-> end])
    /\ framed' = framed + k
    /\ writing' = TRUE
    /\ UNCHANGED <<dummies, panicked>> /\ UNCHANGED wireVars
    /\ UNCHANGED receiverVars

\* The item GetNextCell may take: of least send time, and due.
IsNext(x) ==
    /\ x \in queue /\ x.prio <= now
    /\ \A y \in queue : x.prio <= y.prio

\* One round of the send loop: GetOutboundTraffic takes the next cell, encodes
\* it, and the record goes to the transport.
SendCell ==
    /\ writing /\ up
    /\ \E x \in queue :
        /\ IsNext(x)
        /\ queue' = queue \ {x}
        /\ wire' = Append(wire, x.cell)
    /\ UNCHANGED <<msgs, framed, dummies, writing, panicked, up>>
    /\ UNCHANGED clockVars /\ UNCHANGED receiverVars

\* The transport refuses the record, and will refuse every later one: Write
\* returns, and the cell is gone from the queue.
SendFails ==
    /\ writing
    /\ \E x \in queue : IsNext(x) /\ queue' = queue \ {x}
    /\ up' = FALSE /\ writing' = FALSE
    /\ UNCHANGED <<msgs, framed, dummies, panicked, wire>>
    /\ UNCHANGED clockVars /\ UNCHANGED receiverVars

\* EncodeCell slices the padding at RandOffset, which may lie beyond it: the
\* panic ends the sending process.
EncodePanics ==
    /\ writing
    /\ \E x \in queue : IsNext(x) /\ queue' = queue \ {x}
    /\ writing' = FALSE /\ panicked' = TRUE
    /\ UNCHANGED <<msgs, framed, dummies>> /\ UNCHANGED clockVars
    /\ UNCHANGED wireVars /\ UNCHANGED receiverVars

\* GetOutboundTraffic answers ErrNoOutboundTraffic and Write returns.
WriteReturns ==
    /\ writing
    /\ \A x \in queue : ~IsNext(x)
    /\ writing' = FALSE
    /\ UNCHANGED <<msgs, framed, dummies, queue, panicked>>
    /\ UNCHANGED clockVars /\ UNCHANGED wireVars /\ UNCHANGED receiverVars

\* One tick of startCoverTrafficLoop.
CoverTick ==
    /\ ~panicked /\ dummies < MaxDummies
    /\ queue' = queue \cup {[cell |-> DummyCell(dummies),
                             prio |-> now + ProbingInterval]}
    /\ dummies' = dummies + 1
    /\ UNCHANGED <<msgs, framed, writing, panicked>> /\ UNCHANGED clockVars
    /\ UNCHANGED wireVars /\ UNCHANGED receiverVars

ClockTick ==
    /\ now < MaxTime
    /\ now' = now + 1
    /\ latest' = IF latest < now' THEN now' ELSE latest
    /\ UNCHANGED <<msgs, framed, dummies, queue, setBacks, inTurn, writing, panicked>>
    /\ UNCHANGED wireVars /\ UNCHANGED receiverVars

\* time.Now().UnixNano() is the wall clock, which an administrator or NTP can
\* set back by any amount.
ClockSetBack ==
    /\ \E t \in 0..(now - 1) : now' = t
    /\ SetBack
    /\ UNCHANGED <<msgs, framed, dummies, queue, latest, inTurn, writing, panicked>>
    /\ UNCHANGED wireVars /\ UNCHANGED receiverVars

-----------------------------------------------------------------------------
(* The receiving side.                                                     *)

\* Mutant of lastSeq: every cell is taken for the next one of its stream.
lastSeqTrusting(c) == Prev(c.seq)

\* The stream ProcessCell looks up for cell c; an ID it does not know gets a
\* stream for which c is the next cell.
lastSeq(c) == IF streams[c.id].open THEN streams[c.id].lastSeq ELSE Prev(c.seq)
buffer(c) == IF streams[c.id].open THEN streams[c.id].buf ELSE <<>>

\* ProcessCell: c is not the next cell of its stream.
Reject(c) ==
    /\ c.seq # Succ(lastSeq(c))
    /\ streams' = [streams EXCEPT ![c.id] =
                     [open |-> TRUE, lastSeq |-> lastSeq(c), buf |-> buffer(c)]]
    /\ rejected' = rejected \cup {c.ord}
    /\ UNCHANGED <<inbound, delivered>>

\* Mutants of Release: the stream is not deleted; its bytes go nowhere.
ReleaseKeepsStream(c) ==
    /\ c.seq = Succ(lastSeq(c)) /\ c.end
    /\ streams' = [streams EXCEPT ![c.id] =
                     [open |-> TRUE, lastSeq |-> c.seq,
                      buf |-> Append(buffer(c), c.ord)]]
    /\ inbound' = inbound \o Append(buffer(c), c.ord)
    /\ delivered' = delivered \o Append(buffer(c), c.ord)
    /\ UNCHANGED rejected

ReleaseDrops(c) ==
    /\ c.seq = Succ(lastSeq(c)) /\ c.end
    /\ streams' = [streams EXCEPT ![c.id] = NoStream]
    /\ UNCHANGED <<rejected, inbound, delivered>>

\* ProcessCell: c ends its stream, whose bytes go to inboundQueue.
Release(c) ==
    /\ c.seq = Succ(lastSeq(c)) /\ c.end
    /\ streams' = [streams EXCEPT ![c.id] = NoStream]
    /\ inbound' = inbound \o Append(buffer(c), c.ord)
    /\ delivered' = delivered \o Append(buffer(c), c.ord)
    /\ UNCHANGED rejected

\* ProcessCell: c is the next cell of its stream and not the last.
Extend(c) ==
    /\ c.seq = Succ(lastSeq(c)) /\ ~c.end
    /\ streams' = [streams EXCEPT ![c.id] =
                     [open |-> TRUE, lastSeq |-> c.seq,
                      buf |-> Append(buffer(c), c.ord)]]
    /\ UNCHANGED <<rejected, inbound, delivered>>

ProcessCell(c) == Reject(c) \/ Release(c) \/ Extend(c)

\* Conn.Read finds inboundQueue empty and gives the next record to
\* ProcessInboundTraffic, which gives a data cell to ProcessCell.
ReceiveData ==
    /\ Decodes /\ inbound = <<>> /\ wire # <<>> /\ Head(wire).type = "data"
    /\ ProcessCell(Head(wire))
    /\ wire' = Tail(wire)
    /\ arrived' = arrived + 1
    /\ UNCHANGED <<up, read>> /\ UNCHANGED senderVars

\* The cell goes no further: it is a cover cell, or DecodeCell refuses it,
\* whatever its type, and Conn.Read returns the error.
DropCell ==
    /\ inbound = <<>> /\ wire # <<>>
    /\ Decodes => Head(wire).type = "dummy"
    /\ wire' = Tail(wire)
    /\ UNCHANGED up /\ UNCHANGED senderVars /\ UNCHANGED receiverVars

\* ReadApplicationData empties inboundQueue; Conn.Read copies what fits into
\* the caller's buffer of n units, and the rest is gone.
Read(n) ==
    /\ inbound # <<>>
    /\ read' = read \o (IF Len(inbound) <= n THEN inbound
                        ELSE SubSeq(inbound, 1, n))
    /\ inbound' = <<>>
    /\ UNCHANGED <<streams, arrived, rejected, delivered>>
    /\ UNCHANGED senderVars /\ UNCHANGED wireVars

-----------------------------------------------------------------------------
Next ==
    \/ \E k \in 0..MaxFrags, id \in CellIDs, end \in BOOLEAN : Write(k, id, end)
    \/ SendCell
    \/ SendFails
    \/ EncodePanics
    \/ WriteReturns
    \/ CoverTick
    \/ ClockTick
    \/ ClockSetBack
    \/ ReceiveData
    \/ DropCell
    \/ \E n \in ReadSizes : Read(n)

Spec == Init /\ [][Next]_vars

\* Write's loop and Read's loop keep running once entered; nothing obliges the
\* application to write again, the transport to fail or the clock to move.  The
\* clock decides between the actions of a round of Write's loop, so fairness is
\* that of a round; no two actions of a round of Read's loop are ever possible.
Fairness ==
    /\ WF_vars(SendCell \/ SendFails \/ WriteReturns)
    /\ WF_vars(ReceiveData \/ DropCell \/ \E n \in ReadSizes : Read(n))

FairSpec == Spec /\ Fairness

-----------------------------------------------------------------------------
(* Properties.                                                             *)

Ordinals == 0..(MaxCells - 1)
Message == [id : CellIDs, first : Ordinals, last : Ordinals, end : BOOLEAN]
Cell == [type : {"data"}, id : CellIDs, seq : 0..(SeqMod - 1),
         end : BOOLEAN, ord : Ordinals]
        \cup [type : {"dummy"}, id : {0}, seq : {0}, end : {FALSE}, ord : Nat]
Stream == [open : BOOLEAN, lastSeq : 0..(SeqMod - 1), buf : Seq(Ordinals)]

\* The type invariant of the link.
TypeOK ==
    /\ msgs \in Seq(Message)
    /\ framed \in 0..MaxCells
    /\ dummies \in 0..MaxDummies
    /\ queue \subseteq [cell : Cell, prio : Nat]
    /\ now \in 0..MaxTime /\ latest \in 0..MaxTime
    /\ setBacks \in 0..MaxSetBacks /\ inTurn \in BOOLEAN
    /\ writing \in BOOLEAN /\ panicked \in BOOLEAN /\ up \in BOOLEAN
    /\ wire \in Seq(Cell)
    /\ streams \in [CellIDs -> Stream]
    /\ arrived \in Nat
    /\ rejected \subseteq Ordinals
    /\ inbound \in Seq(Ordinals) /\ delivered \in Seq(Ordinals)
    /\ read \in Seq(Ordinals)

CellsOf(m) == m.first..m.last
Delivered == {delivered[i] : i \in DOMAIN delivered}

\* As long as the clock tells queued data cells apart (inTurn), what the
\* Reassembler hands over is in the order it was written and holds nothing
\* twice, whatever cell IDs collide, whichever messages lack their end flag and
\* wherever the transport or the sender stops.
DeliveredInOrder ==
    inTurn => \A i, j \in DOMAIN delivered : i < j => delivered[i] < delivered[j]

\* As long as the clock tells queued data cells apart, a message is handed over
\* whole or not at all: ProcessCell never releases a buffer that starts or stops
\* in the middle of one (README.md: Read "returns the original application data
\* ... once a complete message is received").
WholeMessages ==
    inTurn => \A i \in DOMAIN msgs :
        \/ CellsOf(msgs[i]) \subseteq Delivered
        \/ CellsOf(msgs[i]) \cap Delivered = {}

\* As long as the clock tells queued data cells apart, ProcessCell refuses a
\* cell on an ordered transport only when an earlier message drew the same
\* CellID and never got its end flag.
RejectedOnlyAfterUnterminated ==
    inTurn => \A x \in rejected : \E j \in DOMAIN msgs :
        /\ x \in CellsOf(msgs[j])
        /\ \E i \in 1..(j - 1) : msgs[i].id = msgs[j].id /\ ~msgs[i].end

\* When Write returns over a working transport, the queue holds some of the
\* caller's data (the cells alias the caller's slice) only while the clock
\* stands before a time it has already shown: cover cells waiting for their time
\* never keep a data cell back, and once the clock has caught up the next Write
\* leaves nothing, however often and far it was set back.
WriteFlushesData ==
    [][writing /\ ~writing' /\ up' /\ ~panicked' /\ DataQueued' # {}
         => now' < latest']_vars

\* The i-th message ends with the end flag and drew an ID no unterminated
\* message had drawn before.
Deliverable(i) ==
    /\ i \in DOMAIN msgs /\ msgs[i].end
    /\ \A j \in 1..(i - 1) : msgs[j].id = msgs[i].id => msgs[j].end

Stopped == panicked \/ ~up
HandedOver(i) == i \in DOMAIN msgs /\ CellsOf(msgs[i]) \subseteq Delivered

\* A part of the i-th message waits for the next Write, which WriteFlushesData
\* allows after a set-back of the clock only.
LeftQueued(i) ==
    /\ i \in DOMAIN msgs /\ ~writing
    /\ \E x \in DataQueued : x.cell.ord \in CellsOf(msgs[i])

OnItsWay(i) == Deliverable(i) /\ ~HandedOver(i) /\ ~LeftQueued(i)

\* Such messages do not stay on their way for good: there comes a time when all
\* are handed over but for those a set-back leaves to a Write that never comes,
\* unless the sender panics, the transport fails or the clock mixes up the queue.
DeliverableArrives ==
    (\E i \in 1..MaxCells : OnItsWay(i))
        ~> (Stopped \/ ~inTurn \/ \A i \in 1..MaxCells : ~OnItsWay(i))

\* README.md: Read returns the application data "once a complete message is
\* received".  Every message, then, is handed over in the end; what happens to
\* the sender, the transport and the clock is excepted as above.
EveryMessageArrives ==
    \A i \in 1..MaxCells :
        (i \in DOMAIN msgs)
            ~> (Stopped \/ ~inTurn \/ LeftQueued(i) \/ HandedOver(i))

\* The stream of messages the link implements: what was framed and what the
\* Reassembler handed over.
Promise == INSTANCE MessageStream WITH
    MaxUnits <- MaxCells,
    sent <- [i \in DOMAIN msgs |-> [first |-> msgs[i].first, last |-> msgs[i].last]],
    out <- delivered

\* As long as the clock tells queued data cells apart, every step of the link
\* is one of the message stream: what ProcessCell writes to inboundQueue is
\* always a run of whole messages that come after everything it wrote before.
ImplementsMessageStream ==
    Promise!Init /\ [][inTurn' => Promise!Next]_(Promise!vars)
=============================================================================
