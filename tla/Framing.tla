------------------------------- MODULE Framing -------------------------------
(***************************************************************************)
(* The Framer: how Fragment cuts data into cells, how EncodeCell lays a    *)
(* cell out as bytes and how DecodeCell reads it back.  Framer.mu covers   *)
(* a whole Fragment; a step here is one round of its loop.                 *)
(*                                                                         *)
(* The n-th byte of application data is the number n, padding bytes are    *)
(* negative, the zero bytes of a fresh buffer are 0 and the bytes of an    *)
(* encoded header are HeaderByte.                                          *)
(***************************************************************************)
EXTENDS Integers, Sequences

CONSTANTS
    CellHeaderLen,  \* framing.CellHeaderLen and profile.CellHeaderLen, 20
    MinCellSize,    \* Profile.MinCellSize, 64 in the code
    MaxCellSize,    \* Profile.MaxCellSize, 1400 in the code
    MaxData,        \* bound: bytes of one message
    MaxBytes,       \* bound: bytes fragmented in a behaviour
    MaxDummies      \* bound: cover cells created in a behaviour

ASSUME FramingAssumption ==
    /\ CellHeaderLen \in Nat /\ MinCellSize \in Nat /\ MaxCellSize \in Nat
    /\ CellHeaderLen < MinCellSize /\ MinCellSize < MaxCellSize
    /\ MaxData \in Nat /\ MaxBytes \in Nat /\ MaxDummies \in Nat

VARIABLES
    busy,     \* a Fragment is running
    from,     \* bytes fragmented before the current message
    length,   \* len(data) of the current message
    offset,   \* payloadOffset
    seq,      \* Framer.seq
    message,  \* history: what each cell of the current message carries
    dummies,  \* cover cells created so far
    cell      \* the cell made last, or NoCell

vars == <<busy, from, length, offset, seq, message, dummies, cell>>

-----------------------------------------------------------------------------
(* Bytes.                                                                  *)

HeaderByte == -1000
Zeros(n) == [i \in 1..n |-> 0]
Bytes(a, n) == [i \in 1..n |-> a + i]      \* n bytes of data after the first a

\* The padding generatePadding makes: exactly n bytes, whatever the profile.
generatePadding(n) == [i \in 1..(IF n > 0 THEN n ELSE 0) |-> -i]

\* copy(dst[at:], src): as much of src as there is room for.
Copy(dst, at, src) ==
    [i \in 1..Len(dst) |->
        IF at < i /\ i <= at + Len(src) THEN src[i - at] ELSE dst[i]]

\* src[lo:hi]
Slice(src, lo, hi) == [i \in 1..(hi - lo) |-> src[lo + i]]

-----------------------------------------------------------------------------
(* EncodeCell and DecodeCell.  A packet is its bytes, with the fields that *)
(* binary.Write put into its first 22 ones; a field read back by           *)
(* binary.Read in the same order has the value that was written.  All      *)
(* lengths are far below 2^16.  DecodeCell is asked about cells the peer's *)
(* Framer encoded, and prefixes of them.                                   *)

\* CellID, Type, Flags, Seq, Timestamp, PayloadLen, PaddingLen, RandOffset.
EncodedHeaderLen == 2 + 1 + 1 + 4 + 8 + 2 + 2 + 2

\* The slice expressions of EncodeCell are within bounds: totalContent and
\* Padding are both cut at RandOffset.
Encodable(c) == c.randOffset <= Len(c.padding)

\* Mutant of EncodeCell: the rest of the padding is not put behind the payload.
EncodeCellOverlap(c) ==
    LET total == Len(c.payload) + Len(c.padding)
        one == Copy(Zeros(total), c.randOffset, c.payload)
        two == Copy(one, 0, Slice(c.padding, 0, c.randOffset))
        content == Copy(two, c.randOffset,
                        Slice(c.padding, c.randOffset, Len(c.padding)))
    IN  [type |-> c.type, end |-> c.end, seq |-> c.seq,
         payloadLen |-> Len(c.payload), paddingLen |-> Len(c.padding),
         randOffset |-> c.randOffset,
         bytes |-> [i \in 1..EncodedHeaderLen |-> HeaderByte] \o content]

EncodeCell(c) ==
    LET total == Len(c.payload) + Len(c.padding)
        one == Copy(Zeros(total), c.randOffset, c.payload)
        two == Copy(one, 0, Slice(c.padding, 0, c.randOffset))
        content == Copy(two, c.randOffset + Len(c.payload),
                        Slice(c.padding, c.randOffset, Len(c.padding)))
    IN  [type |-> c.type, end |-> c.end, seq |-> c.seq,
         payloadLen |-> Len(c.payload), paddingLen |-> Len(c.padding),
         randOffset |-> c.randOffset,
         bytes |-> [i \in 1..EncodedHeaderLen |-> HeaderByte] \o content]

DecodeError == [error |-> TRUE]

DecodeCell(p) ==
    LET rest == Slice(p.bytes, CellHeaderLen, Len(p.bytes))
        after == Slice(rest, p.randOffset + p.payloadLen, Len(rest))
    IN  IF \/ Len(p.bytes) < CellHeaderLen
           \/ Len(p.bytes) < EncodedHeaderLen
           \/ Len(p.bytes) - CellHeaderLen # p.payloadLen + p.paddingLen
        THEN DecodeError
        ELSE [type |-> p.type, end |-> p.end, seq |-> p.seq,
              randOffset |-> p.randOffset,
              payload |-> Copy(Zeros(p.payloadLen), 0,
                            Slice(rest, p.randOffset, p.randOffset + p.payloadLen)),
              padding |-> Copy(Copy(Zeros(p.paddingLen), 0,
                                 Slice(rest, 0, p.randOffset)),
                            p.randOffset, after)]

-----------------------------------------------------------------------------
(* Drawing lengths.                                                        *)

\* Mutant of PayloadLengths: the lower clamp is missing.
PayloadLengthsFromZero == 0..(MaxCellSize - CellHeaderLen)

\* GetNextPayloadLength clamps its sample to this range.
PayloadLengths == 1..(MaxCellSize - CellHeaderLen)

\* GetNextCellSize: rand.Intn(MaxCellSize - MinCellSize) + MinCellSize.
CellSizes == MinCellSize..(MaxCellSize - 1)

\* generateRandomOffset(max): rand.Intn(max - 1), of the total cell size.
RandomOffsets(max) == IF max <= 1 THEN {0} ELSE 0..(max - 2)

\* One round of Fragment's loop, for the lengths it drew.
MakeCell(payloadLen, end, total, randOffset) ==
    [type |-> "data", end |-> end, seq |-> seq, randOffset |-> randOffset,
     payload |-> Bytes(from + offset, payloadLen),
     padding |-> generatePadding(total - CellHeaderLen - payloadLen)]

-----------------------------------------------------------------------------
NoCell == [type |-> "none"]

Init ==
    /\ busy = FALSE /\ from = 0 /\ length = 0 /\ offset = 0 /\ seq = 0
    /\ message = <<>> /\ dummies = 0 /\ cell = NoCell

\* Fragment is called with n bytes.
FragmentCalled(n) ==
    /\ ~busy /\ from + length + n <= MaxBytes
    /\ busy' = TRUE
    /\ from' = from + length /\ length' = n /\ offset' = 0
    /\ message' = <<>>
    /\ UNCHANGED <<seq, dummies, cell>>

\* Mutant of FragmentRound: the end flag compares the cell's size with the data.
FragmentRoundEndBySize(drawn, total, randOffset) ==
    LET last == offset + total > length
        payloadLen == IF offset + drawn > length THEN length - offset ELSE drawn
    IN  /\ busy /\ offset < length
        /\ cell' = MakeCell(payloadLen, last, total, randOffset)
        /\ message' = Append(message, [first |-> from + offset, len |-> payloadLen,
                                       end |-> last, seq |-> seq])
        /\ offset' = offset + payloadLen
        /\ seq' = seq + 1
        /\ UNCHANGED <<busy, from, length, dummies>>

\* One round of Fragment's loop: a length beyond the end of the data is cut
\* and the cell gets the end flag.
FragmentRound(drawn, total, randOffset) ==
    LET last == offset + drawn > length
        payloadLen == IF last THEN length - offset ELSE drawn
    IN  /\ busy /\ offset < length
        /\ cell' = MakeCell(payloadLen, last, total, randOffset)
        /\ message' = Append(message, [first |-> from + offset, len |-> payloadLen,
                                       end |-> last, seq |-> seq])
        /\ offset' = offset + payloadLen
        /\ seq' = seq + 1
        /\ UNCHANGED <<busy, from, length, dummies>>

FragmentReturns ==
    /\ busy /\ offset >= length
    /\ busy' = FALSE
    /\ UNCHANGED <<from, length, offset, seq, message, dummies, cell>>

\* CreateDummyCell does not take Framer.mu; the Manager's lock keeps it out of
\* a running Fragment.
CreateDummyCell(total, randOffset) ==
    /\ ~busy /\ dummies < MaxDummies
    /\ dummies' = dummies + 1
    /\ cell' = [type |-> "dummy", end |-> FALSE, seq |-> 0,
                randOffset |-> randOffset, payload |-> <<>>,
                padding |-> generatePadding(total - CellHeaderLen)]
    /\ UNCHANGED <<busy, from, length, offset, seq, message>>

Next ==
    \/ \E n \in 0..MaxData : FragmentCalled(n)
    \/ \E drawn \in PayloadLengths, total \in CellSizes :
        \E randOffset \in RandomOffsets(total) :
            FragmentRound(drawn, total, randOffset)
    \/ FragmentReturns
    \/ \E total \in CellSizes : \E randOffset \in RandomOffsets(total) :
        CreateDummyCell(total, randOffset)

Spec == Init /\ [][Next]_vars

-----------------------------------------------------------------------------
(* Properties.                                                             *)

Extent == [first : Nat, len : Nat, end : BOOLEAN, seq : Nat]
Cell == [type : {"data", "dummy"}, end : BOOLEAN, seq : Nat,
         randOffset : Nat, payload : Seq(Int), padding : Seq(Int)]

\* The type invariant of the framer.
TypeOK ==
    /\ busy \in BOOLEAN
    /\ from \in Nat /\ length \in Nat /\ offset \in 0..length /\ seq \in Nat
    /\ message \in Seq(Extent)
    /\ dummies \in 0..MaxDummies
    /\ cell \in Cell \cup {NoCell}

\* Whatever lengths are drawn, the cells of a message carry its bytes in
\* order, each exactly once and at least one per cell, under consecutive
\* sequence numbers that end just below Framer.seq.
FragmentsInOrder ==
    /\ \A i \in DOMAIN message :
        /\ message[i].len > 0
        /\ message[i].first + message[i].len
             = IF i = Len(message) THEN from + offset ELSE message[i + 1].first
        /\ message[i].seq + Len(message) = seq + i - 1
    /\ IF message = <<>> THEN offset = 0 ELSE message[1].first = from

\* Only the cell that carries the last byte can have the end flag, so the
\* Reassembler never releases part of a message.
EndFlagOnlyLast ==
    \A i \in DOMAIN message : message[i].end => i = Len(message) /\ offset = length

Encoded == cell # NoCell /\ Encodable(cell)

\* The three copies of EncodeCell and those of DecodeCell are inverse to each
\* other when the two agree on the length of the header; when they do not,
\* DecodeCell refuses every cell EncodeCell makes.
DecodedIffLengthsAgree ==
    Encoded => DecodeCell(EncodeCell(cell))
                 = IF CellHeaderLen = EncodedHeaderLen THEN cell ELSE DecodeError

\* framing.go: DecodeCell "deserializes a byte slice back into a Cell struct".
RoundTrip == Encoded => DecodeCell(EncodeCell(cell)) = cell

=============================================================================
