------------------------------- MODULE Records -------------------------------
(***************************************************************************)
(* The record layer of a Conn after its handshake: the goroutines in       *)
(* Write, one in Read, those in Close and CloseWrite, what they share of   *)
(* c.out and the transport, and what Read makes of the records that come   *)
(* in.  Alerts and close_notify are sealed under the lock of c.out; Write  *)
(* seals without it.                                                       *)
(*                                                                         *)
(* A goroutine that panics stops; what the others do then is what they do  *)
(* in a program that recovers it.                                          *)
(***************************************************************************)
EXTENDS Naturals

CONSTANTS
    Writers,     \* goroutines in Conn.Write
    Closers,     \* goroutines in Conn.Close or Conn.CloseWrite
    Reader,      \* the goroutine in Conn.Read
    None,        \* no error, no owner
    Modes,       \* bound: what c.vers and the cipher may be
    MaxUseless,  \* maxUselessRecords
    SeqSpace,    \* bound: sequence numbers, counted modulo it
    MaxBurst,    \* bound: whole records one fetch brings
    MaxWrites,   \* bound: Writes of one goroutine
    MaxCloses,   \* bound: calls of one closer
    MaxReads     \* bound: Reads

\* What c.vers and the cipher make of a record without a header: TLS 1.3; a
\* nonce or IV in front of the record; nothing in front of it.
CipherModes == {"tls13", "explicit", "bare"}

ASSUME RecordsAssumption ==
    /\ Modes \subseteq CipherModes
    /\ Reader \notin Writers \cup Closers /\ Writers \cap Closers = {}
    /\ None \notin Writers \cup Closers \cup {Reader, "eof", "error"}
    /\ MaxUseless \in Nat /\ SeqSpace \in Nat \ {0, 1}
    /\ MaxBurst \in Nat \ {0}
    /\ {MaxWrites, MaxCloses, MaxReads} \subseteq Nat

Goroutines == Writers \cup Closers \cup {Reader}

\* Records by what they are found to be when opened; "bad" does not open.
Kinds == {"data", "empty", "handshake", "close", "warning", "fatal", "ccs",
          "bad"}

VARIABLES
    mode,             \* of this connection
    pc,               \* where each goroutine is
    calls,            \* the calls it has made
    \* the outgoing half
    lock,             \* the owner of c.out's mutex
    seq,              \* c.out.seq
    tmp,              \* local: the number of the record in hand
    closedBy,         \* who has set the low bit of activeCall
    closeNotifySent,
    deadline,         \* of writes: "none", "soon" or "past"
    transportClosed,  \* c.conn.Close was called
    \* the incoming half
    inErr,            \* c.in.err: None, "eof" or "error"
    input, hand,      \* c.input, c.hand are not empty
    rawInput,         \* whole records in c.rawInput
    partial,          \* ... and a part of another at its end
    aligned,          \* c.rawInput will start with a record
    retryCount,
    owed,             \* local: alerts Read has to send before it returns
    \* history
    raced,            \* a Write sealed while another goroutine did
    sealed, inTurn,   \* records sealed until then; each with the next number
    notice,           \* close_notify: "no", "taken" by the transport, "final"
                      \* behind closeNotify's deadline, "reopened"
    late,             \* a record followed it that should not have
    moved,            \* the application has moved the deadline that
                      \* closeNotify has given its alert
    ended,            \* the peer's stream: "no", "clean", "cut"
    peerClosed,       \* its close_notify was read
    outcome           \* of the first Read that returned no data

seals == <<seq, tmp, sealed, inTurn, raced>>
follow == <<notice, late>>
wire == <<deadline, transportClosed, moved, follow>>
closing == <<closedBy, closeNotifySent>>
outgoing == <<lock, seals, wire, closing>>
stream == <<rawInput, partial, aligned>>
return == <<owed, outcome>>
incoming == <<inErr, input, hand, retryCount, peerClosed, stream, return>>
vars == <<mode, pc, calls, ended, outgoing, incoming>>

tls13 == mode = "tls13"

Goto(g, label) == pc' = [pc EXCEPT ![g] = label]

Called(g) == calls' = [calls EXCEPT ![g] = @ + 1]

Init ==
    /\ mode \in Modes
    /\ pc = [g \in Goroutines |-> "idle"] /\ calls = [g \in Goroutines |-> 0]
    /\ lock = None /\ seq = 0 /\ tmp = [g \in Goroutines |-> 0]
    /\ closedBy = None /\ closeNotifySent = FALSE
    /\ deadline = "none" /\ transportClosed = FALSE
    /\ inErr = None /\ input = FALSE /\ hand = FALSE
    /\ rawInput = 0 /\ partial = FALSE /\ aligned = TRUE
    /\ retryCount = 0 /\ owed = 0
    /\ sealed = 0 /\ inTurn = TRUE /\ raced = FALSE
    /\ notice = "no" /\ late = FALSE /\ moved = FALSE
    /\ ended = "no" /\ peerClosed = FALSE /\ outcome = None

-----------------------------------------------------------------------------
(* Sealing and sending a record.                                           *)

Sealing(g) == pc[g] = "incSeq"

\* encrypt takes the number of the record from seq.  Write hands it no room
\* for a header: before TLS 1.3 and without a nonce in front, it slices an
\* empty record and panics.
Seal(g) ==
    /\ pc[g] = "seal"
    /\ IF g \in Writers /\ mode = "bare"
       THEN Goto(g, "panicked") /\ UNCHANGED seals
       ELSE /\ Goto(g, "incSeq")
            /\ tmp' = [tmp EXCEPT ![g] = seq]
            /\ raced' = (raced \/ \E h \in Goroutines \ {g} :
                            Sealing(h) /\ {g, h} \cap Writers # {})
            /\ sealed' = IF raced' THEN 0 ELSE (sealed + 1) % SeqSpace
            /\ inTurn' = (inTurn /\ (raced' \/ seq = sealed))
            /\ UNCHANGED seq
    /\ UNCHANGED <<mode, calls, ended, incoming, lock, wire, closing>>

\* incSeq, for Write without a lock.  It reads seq after encrypt has; that
\* makes a difference only between goroutines that have raced already.
incSeq(g) ==
    /\ pc[g] = "incSeq"
    /\ seq' = (tmp[g] + 1) % SeqSpace /\ tmp' = [tmp EXCEPT ![g] = 0]
    /\ Goto(g, "send")
    /\ UNCHANGED <<mode, calls, ended, incoming, lock, wire, closing,
                   sealed, inTurn, raced>>

\* Where a goroutine goes when c.conn.Write returns.  Write may have another
\* packet of the Manager to send, if the transport has taken this one.  Read
\* has another alert to send or returns; either way it lets go of the lock.
Sent(g, ok) ==
    \/ /\ g \in Writers
       /\ Goto(g, "idle") \/ (ok /\ Goto(g, "seal"))
       /\ UNCHANGED <<lock, owed>>
    \/ g \in Closers /\ Goto(g, "notified") /\ UNCHANGED <<lock, owed>>
    \/ /\ g = Reader
       /\ lock' = None /\ owed' = owed - 1
       /\ Goto(g, IF owed > 1 THEN "lock" ELSE "idle")

\* What must not follow close_notify: another one, ever; an alert, while
\* closeNotify has the lock; and anything, once closeNotify has left its
\* deadline behind, until the application sets another.
Excluded(g) ==
    \/ g \in Closers /\ notice # "no"
    \/ g = Reader /\ notice = "taken"
    \/ notice = "final"

\* c.conn.Write returns when the transport has taken the record, which it may
\* never do if the peer stops reading.
Transmit(g) ==
    /\ pc[g] = "send" /\ ~transportClosed /\ deadline # "past"
    /\ late' = (late \/ Excluded(g))
    /\ notice' = IF g \in Closers THEN "taken" ELSE notice
    /\ Sent(g, TRUE)
    /\ UNCHANGED <<mode, calls, ended, seals, closing, deadline, moved,
                   transportClosed, inErr, input, hand, retryCount, peerClosed,
                   stream, outcome>>

\* It fails once the deadline has passed or the transport is closed.
TransmitFails(g) ==
    /\ pc[g] = "send" /\ (transportClosed \/ deadline = "past")
    /\ Sent(g, FALSE)
    /\ UNCHANGED <<mode, calls, ended, seals, closing, wire, inErr, input, hand,
                   retryCount, peerClosed, stream, outcome>>

\* Write: each packet the Manager hands out is sealed and sent; there is one.
Write(w) ==
    /\ pc[w] = "idle" /\ calls[w] < MaxWrites
    /\ Called(w)
    /\ Goto(w, "seal")
    /\ UNCHANGED <<mode, ended, incoming, lock, seals, wire, closing>>

-----------------------------------------------------------------------------
(* Close and CloseWrite.                                                   *)

\* Close claims the low bit of activeCall, or returns at once.  Nobody counts
\* in the other bits, so its way out for a Write in flight is never taken.
Close(k) ==
    /\ pc[k] = "idle" /\ calls[k] < MaxCloses /\ closedBy = None
    /\ Called(k)
    /\ closedBy' = k
    /\ Goto(k, "closeNotify")
    /\ UNCHANGED <<mode, ended, incoming, lock, seals, wire,
                   closeNotifySent>>

CloseWrite(k) ==
    /\ pc[k] = "idle" /\ calls[k] < MaxCloses /\ closedBy # k
    /\ Called(k)
    /\ Goto(k, "closeNotify")
    /\ UNCHANGED <<mode, ended, incoming, outgoing>>

\* Mutant of closeNotify: no deadline for the alert.
closeNotifyNoDeadline(k) ==
    /\ pc[k] = "closeNotify" /\ lock = None
    /\ lock' = k
    /\ Goto(k, IF closeNotifySent THEN "unlock" ELSE "seal")
    /\ UNCHANGED <<mode, calls, ended, incoming, seals, wire, closing>>

\* closeNotify takes the lock and allows the alert five seconds.
closeNotify(k) ==
    /\ pc[k] = "closeNotify" /\ lock = None
    /\ lock' = k
    /\ IF closeNotifySent
       THEN Goto(k, "unlock") /\ UNCHANGED deadline
       ELSE Goto(k, "seal") /\ deadline' = "soon"
    /\ UNCHANGED <<mode, calls, ended, incoming, seals, closing,
                   transportClosed, moved, follow>>

\* The alert was sent, or the transport has refused it.
Notified(k) ==
    /\ pc[k] = "notified"
    /\ closeNotifySent' = TRUE
    /\ Goto(k, "expire")
    /\ moved' = FALSE
    /\ UNCHANGED <<mode, calls, ended, incoming, lock, seals, closedBy,
                   deadline, transportClosed, follow>>

\* Mutant of Expire: later writes keep the five seconds.
ExpireNot(k) ==
    /\ pc[k] = "expire"
    /\ notice' = "final"
    /\ Goto(k, "unlock")
    /\ UNCHANGED <<mode, calls, ended, incoming, lock, seals, closing,
                   deadline, transportClosed, moved, late>>

\* "Any subsequent writes will fail": of a Write, which asks nobody, those
\* after this deadline.
Expire(k) ==
    /\ pc[k] = "expire"
    /\ deadline' = "past" /\ notice' = "final"
    /\ Goto(k, "unlock")
    /\ UNCHANGED <<mode, calls, ended, incoming, lock, seals, closing,
                   transportClosed, moved, late>>

\* closeNotify returns; Close closes the transport.
NotifyReturns(k) ==
    /\ pc[k] = "unlock"
    /\ lock' = None
    /\ transportClosed' = (transportClosed \/ closedBy = k)
    /\ Goto(k, "idle")
    /\ UNCHANGED <<mode, calls, ended, incoming, seals, closing, deadline,
                   moved, follow>>

-----------------------------------------------------------------------------
(* Read.                                                                   *)

\* Read returns r after it has sent k alerts.
ReadReturns(r, k) ==
    /\ outcome' = IF outcome = None /\ r # "data" THEN r ELSE outcome
    /\ owed' = k
    /\ Goto(Reader, IF k = 0 THEN "idle" ELSE "lock")

\* c.in.err is set, and nothing looks at what else there is any more.
Abandon(err) ==
    /\ inErr' = err /\ input' = FALSE /\ hand' = FALSE /\ retryCount' = 0
    /\ rawInput' = 0 /\ partial' = FALSE /\ aligned' = TRUE

\* readRecord has failed after k alerts with an error other than EOF, which
\* readAndDecryptRecord replaces by handshakeErr, that is nil.  Read takes
\* what it returns for a record of type 0, sets c.in.err again and sends an
\* alert of its own.
ReadRecordFails(k) == Abandon("error") /\ ReadReturns("error", k + 1)

\* readRecord has ended with EOF, which stays.
ReadRecordEnds == Abandon("eof") /\ ReadReturns("eof", 0)

\* Mutant of LockForAlert: sendAlert calls sendAlertLocked without the lock.
LockForAlertNot ==
    /\ pc[Reader] = "lock"
    /\ Goto(Reader, "seal")
    /\ UNCHANGED <<mode, calls, ended, incoming, outgoing>>

\* sendAlert, for Read.
LockForAlert ==
    /\ pc[Reader] = "lock" /\ lock = None
    /\ lock' = Reader
    /\ Goto(Reader, "seal")
    /\ UNCHANGED <<mode, calls, ended, incoming, seals, wire, closing>>

\* A Read that finds data with the Manager returns it and changes nothing here.
Read ==
    /\ pc[Reader] = "idle" /\ calls[Reader] < MaxReads
    /\ Called(Reader)
    /\ Goto(Reader, "readRecord")
    /\ UNCHANGED <<mode, ended, outgoing, incoming>>

\* readRecordOrCCS before it looks at the transport: an error stays one, and
\* so does data in c.input, which nobody takes from there.
ReadRefused ==
    /\ pc[Reader] = "readRecord" /\ (inErr # None \/ input)
    /\ IF inErr = "eof" THEN ReadRecordEnds ELSE ReadRecordFails(0)
    /\ UNCHANGED <<mode, calls, ended, outgoing, peerClosed>>

Reading == pc[Reader] = "readRecord" /\ inErr = None /\ ~input

\* readFromUntil: part of a record, or at least one record, perhaps more and
\* perhaps a part of the next.
Fetch ==
    /\ Reading /\ rawInput = 0 /\ ~transportClosed
    /\ \/ ~partial /\ partial' = TRUE /\ UNCHANGED rawInput
       \/ rawInput' \in 1 .. MaxBurst /\ partial' \in BOOLEAN
    /\ UNCHANGED <<mode, pc, calls, ended, outgoing, inErr, input, hand, aligned,
                   retryCount, peerClosed, return>>

StreamEnds == ended' = IF partial \/ ~aligned THEN "cut" ELSE "clean"

\* Mutant of FetchEnds: the end of the stream is an end wherever it comes.
FetchEndsAnywhere ==
    /\ Reading /\ rawInput = 0
    /\ StreamEnds /\ ReadRecordEnds
    /\ UNCHANGED <<mode, calls, outgoing, peerClosed>>

\* The peer's stream has ended: at a record boundary that is EOF.
FetchEnds ==
    /\ Reading /\ rawInput = 0
    /\ StreamEnds
    /\ IF partial THEN ReadRecordFails(0) ELSE ReadRecordEnds
    /\ UNCHANGED <<mode, calls, outgoing, peerClosed>>

\* Any other error of the transport, a read deadline among them: what is
\* temporary for readRecord is permanent for Read.
FetchFails ==
    /\ Reading /\ rawInput = 0
    /\ ReadRecordFails(0)
    /\ UNCHANGED <<mode, calls, ended, outgoing, peerClosed>>

\* The next record opens as a kind; out of step with the records nothing opens.
Opens(kind) == aligned \/ kind = "bad"

\* The records that retryReadRecord drops.
Useless == {"empty", IF tls13 THEN "ccs" ELSE "warning"}

\* The records readRecordOrCCS answers with an alert.
Refused(kind) ==
    \/ kind = "bad"
    \/ tls13 /\ hand /\ kind # "handshake"
    \/ kind = "ccs" /\ (~tls13 \/ hand)

\* Mutant of DropRecord: the retries are not limited.
DropRecordAlways ==
    /\ Reading /\ rawInput > 0
    /\ \E kind \in Useless : Opens(kind) /\ ~Refused(kind)
    /\ rawInput' = rawInput - 1
    /\ UNCHANGED <<mode, pc, calls, ended, outgoing, input, hand, inErr, partial,
                   aligned, retryCount, peerClosed, return>>

\* retryReadRecord.
DropRecord ==
    /\ Reading /\ rawInput > 0
    /\ \E kind \in Useless : Opens(kind) /\ ~Refused(kind)
    /\ IF retryCount = MaxUseless
       THEN ReadRecordFails(1)
       ELSE /\ retryCount' = retryCount + 1 /\ rawInput' = rawInput - 1
            /\ UNCHANGED <<pc, inErr, input, hand, partial, aligned, return>>
    /\ UNCHANGED <<mode, calls, ended, outgoing, peerClosed>>

\* readRecordOrCCS on a record that ends it with an error.
EndRecord ==
    /\ Reading /\ rawInput > 0
    /\ \E kind \in Kinds :
          /\ Opens(kind)
          /\ \/ Refused(kind) /\ ReadRecordFails(1)
             \/ ~Refused(kind) /\ kind = "close" /\ ReadRecordEnds
             \/ /\ ~Refused(kind) /\ kind \in {"warning", "fatal"} \ Useless
                /\ ReadRecordFails(0)
          /\ peerClosed' = (peerClosed \/ kind = "close")
    /\ UNCHANGED <<mode, calls, ended, outgoing>>

\* readRecordOrCCS on a record that advances the connection.
TakeRecord ==
    /\ Reading /\ rawInput > 0
    /\ \E kind \in {"data", "handshake"} :
          /\ Opens(kind) /\ ~Refused(kind)
          /\ input' = (kind = "data") /\ hand' = (hand \/ kind = "handshake")
    /\ rawInput' = rawInput - 1 /\ retryCount' = 0
    /\ Goto(Reader, "decrypt")
    /\ UNCHANGED <<mode, calls, ended, outgoing, inErr, partial, aligned,
                   peerClosed, return>>

\* readAndDecryptRecord then opens all that is left in c.rawInput as one
\* record: nothing, and too little for a header, panic; anything but exactly
\* one record does not open.  No error of this is kept in c.in.err.
DecryptRest ==
    /\ pc[Reader] = "decrypt"
    /\ rawInput' = 0 /\ partial' = FALSE
    /\ aligned' = (aligned /\ ~partial)
    /\ \/ /\ rawInput = 0
          /\ Goto(Reader, "panicked")
          /\ UNCHANGED <<return, peerClosed>>
       \/ /\ partial \/ rawInput > 0
          /\ ReadReturns("error", 1) /\ UNCHANGED peerClosed
       \/ /\ ~partial /\ rawInput = 1
          /\ \/ ReadReturns("eof", 0) /\ peerClosed' = TRUE
             \/ ReadReturns("error", 0) /\ UNCHANGED peerClosed
             \/ Goto(Reader, "process") /\ UNCHANGED <<return, peerClosed>>
    /\ UNCHANGED <<mode, calls, ended, outgoing, inErr, input, hand, retryCount>>

\* ProcessInboundTraffic refuses the cell; or it takes it, and there is
\* application data for the caller or Read goes on.
ProcessRecord ==
    /\ pc[Reader] = "process"
    /\ \/ ReadReturns("error", 1)
       \/ ReadReturns("data", 0)
       \/ Goto(Reader, "readRecord") /\ UNCHANGED return
    /\ UNCHANGED <<mode, calls, ended, outgoing, inErr, input, hand, retryCount,
                   peerClosed, stream>>

-----------------------------------------------------------------------------
(* Deadlines.                                                              *)

\* The application calls SetWriteDeadline, which asks nobody, at any time:
\* under an alert of closeNotify as well, or after closeNotify has returned.
\* A closed transport refuses it.
SetWriteDeadline ==
    /\ ~transportClosed
    /\ deadline' \in {"none", "soon"}
    /\ moved' = (moved \/ \E k \in Closers :
                              pc[k] \in {"seal", "incSeq", "send"})
    /\ notice' = IF notice = "final" THEN "reopened" ELSE notice
    /\ UNCHANGED <<mode, pc, calls, ended, incoming, lock, seals, closing,
                   transportClosed, late>>

DeadlinePasses ==
    /\ deadline = "soon"
    /\ deadline' = "past"
    /\ UNCHANGED <<mode, pc, calls, ended, incoming, lock, seals, closing,
                   transportClosed, moved, follow>>

-----------------------------------------------------------------------------
(* The specification.                                                      *)

SealAndFail(g) == Seal(g) \/ incSeq(g) \/ TransmitFails(g)

WriterNext(w) == Write(w) \/ SealAndFail(w)

CloserNext(k) ==
    \/ closeNotify(k) \/ SealAndFail(k)
    \/ Notified(k) \/ Expire(k) \/ NotifyReturns(k)

ReaderNext ==
    \/ ReadRefused \/ Fetch \/ FetchEnds \/ FetchFails \/ DropRecord
    \/ EndRecord \/ TakeRecord \/ DecryptRest \/ ProcessRecord
    \/ LockForAlert \/ SealAndFail(Reader)

Next ==
    \/ \E w \in Writers : WriterNext(w)
    \/ \E k \in Closers : Close(k) \/ CloseWrite(k) \/ CloserNext(k)
    \/ Read \/ ReaderNext
    \/ \E g \in Goroutines : Transmit(g)
    \/ SetWriteDeadline \/ DeadlinePasses

Spec == Init /\ [][Next]_vars

\* Goroutines are scheduled, deadlines pass, and the peer goes on sending
\* until its stream ends.  It need not read what it is sent: nothing is
\* assumed of Transmit.
FairSpec ==
    /\ Spec
    /\ \A k \in Closers : WF_vars(CloserNext(k))
    /\ WF_vars(ReaderNext) /\ WF_vars(DeadlinePasses)

-----------------------------------------------------------------------------
(* Properties.                                                             *)

\* Every record has its own number and they follow each other, unless a Write
\* sealed a record while another goroutine was sealing one: alerts of Read
\* and close_notify, under the lock, never disturb each other.
SealedInTurn == inTurn

\* However Close and CloseWrite meet each other and the alerts of Read, the
\* transport takes one close_notify and no alert next to it; and from the
\* deadline that closeNotify leaves behind, no record at all until the
\* application sets another deadline.  Before the one and after the other a
\* Write puts its records behind close_notify.
NothingAfterCloseNotify == ~late

\* A Close or CloseWrite returns, also if the peer reads nothing any more and
\* a Write hangs in the transport, unless an alert of Read hangs there with
\* the lock or the application moves the deadline that the alert was given.
CloseReturns ==
    \/ \A k \in Closers : pc[k] # "idle" ~> pc[k] = "idle" \/ moved
    \/ <>[](pc[Reader] = "send")

\* A Read whose peer goes on sending, or ends the stream, ends itself or comes
\* to a cell, whatever it is sent, unless its alert hangs in the transport or
\* waits for one that does.
ReadsEnd ==
    \/ pc[Reader] # "idle" ~> pc[Reader] \in {"idle", "panicked", "process"}
    \/ <>[](pc[Reader] \in {"lock", "send"})

\* Read says that the stream has ended, before it has said that it failed,
\* only if the peer has sent close_notify or ended its stream with a whole
\* record; a stream that is cut off reads as an error.
TruthfulEnd ==
    outcome = "eof" => peerClosed \/ ended = "clean"

=============================================================================
