# Verification of Disguise

TLA+ models of uDisguise, a TLS library in Go (a fork of crypto/tls) whose
connections hide the shape of their traffic: application data is cut into cells
of random size, mixed with cover cells, and put together again by the peer. The
modules are written from the code under `src/`; file and line numbers below are
those of that code. `PROJECT.json` holds the exact correspondence ("map"), the
runs, the mutants, the findings and the hazards.

## 1. The system

| Part | State it keeps | Operations | Talks to |
|---|---|---|---|
| Framer (`disguise/framing/framing.go`) | `seq`, profile | `Fragment`, `CreateDummyCell`, `EncodeCell`, `DecodeCell`, `SetProfile` | called by the Manager; draws lengths from the Profile |
| Reassembler (`framing/reassembler.go`) | one stream (`lastSeq`, buffer) per CellID | `ProcessCell` | called by the Manager |
| Scheduler (`scheduler/scheduler.go`) | a heap of cells by send time, profile | `ScheduleCell`, `GetNextCell`, `SetProfile` | called by the Manager; `container/heap`, the wall clock |
| Profile (`profile/profile.go`) | sizes, intervals, weights | samplers | read by Framer and Scheduler |
| Classifier (`disguise/classifier.go`) | transition and emission counts of an HMM | `Train`, `Predict` | called by the Manager |
| Manager (`disguise/manager.go`) | profile, observation queue, `inboundQueue`, one mutex | `SetProfile`, `QueueApplicationData`, `GetOutboundTraffic`, `ProcessInboundTraffic`, `ReadApplicationData`, two loops of its own | called by `Conn.Read` and `Conn.Write` |
| Conn, handshake gate (`conn.go` 1487-1558) | `handshakeStatus`, `handshakeErr`, `handshakeMutex` | `handshakeContext` and its interrupter | called by `Read`, `Write`, `Handshake`, `Dial` |
| Conn, half connections (`conn.go`) | keys, sequence numbers, sticky errors, buffers | record reading and writing, alerts, `Close` | net.Conn |
| Config, session ticket keys (`common.go` 755-946) | `SessionTicketKey`, explicit and automatic keys, an RWMutex | `ticketKeys`, `SetSessionTicketKeys` | server handshakes, the application |
| Client session cache (`common.go` 1387-1462) | a map and a list of entries, a mutex | `Get`, `Put` | client handshakes of any number of connections |
| Negotiation (`common.go`, `cipher_suites.go`, `handshake_server.go`) | none | choice of version, suite, curve, protocol | handshakes, Config |
| Handshakes (`handshake_*.go`) | transcript, secrets, negotiated parameters | the message flows of TLS 1.2 and 1.3 | half connections, Config |

What is hard here: the Manager's methods are called by several goroutines beside
two loops that share its mutex; cells are ordered by nothing but readings of the
wall clock, while the Reassembler accepts cells only in exact order; CellIDs are
random and collide; a transport that fails, or a panic, stops a message half
way; a handshake is entered by many goroutines at once, any of which may give
up; Config's lock is given up and taken again in the middle of a method; a
`Write` seals its records without the lock that alerts and `close_notify` take,
and `Close` must return although the peer may have stopped reading; a session
outlives the configurations, versions, keys and certificates it was made under;
and the two ends of a handshake must hash the same messages and change keys at the same
points of each flight, on paths (retry, resumption, client certificates) that
differ in order.

What makes the parts right: the link hands over whole messages, in order and
once, or nothing; every cell made can be encoded and decoded to itself; the heap
always yields a cell of least send time; a `Write` leaves none of the caller's
data in the queue; the classifier learns only from what the current profile
produced; a connection runs one handshake with one outcome for everybody; ticket
keys are rotated once, and what is sealed with one can be opened for a while;
records have one number each; `close_notify` is sent once, and the deadline
behind it keeps records from following; `Read` tells a stream that was cut from
one that ended; a session is resumed only for the server, version and identity
it was made for; the two ends of a handshake agree on everything or report a
failure, and no path around a certificate satisfies `ClientAuth`. The code keeps
some of this only up to a point (the clock, the life of tickets, `close_notify`);
sections 3 and 5 say up to which.

## 2. The modules

| Module | Models |
|---|---|
| `DisguiseLink` | one direction from `Conn.Write` to `Conn.Read`: framing at the level of cells, schedule, transport, reassembly, delivery |
| `MessageStream` | what the link promises: messages may be lost, never torn, repeated or reordered |
| `Framing` | `Fragment`, `EncodeCell`, `DecodeCell` byte by byte |
| `Scheduler` | the Scheduler with the heap of `container/heap` |
| `CellQueue` | what the Scheduler promises: an item of least send time is taken |
| `Manager`, `MCManager` | the Manager's mutex, profiles, observations and loops |
| `HandshakeGate` | `handshakeContext` with its interrupter goroutine |
| `TicketKeys` | session ticket keys under `Config.mutex` |
| `Handshake13`, `MCHandshake13` | the TLS 1.3 handshake, client and server over one connection |
| `Handshake12`, `MCHandshake12` | the handshakes of TLS 1.0 to 1.2 over a sequence of connections |
| `Negotiation` | version, downgrade canary, suite, curve and ALPN, as functions; used by `Handshake12` and `Handshake13` |
| `SessionCache` | the LRU cache of client sessions; used by `Handshake12` |
| `Records` | the two half connections after the handshake: `Read`, `Write`, `Close`, `CloseWrite`, alerts, deadlines |
| `DisguiseLinkProofs`, `CellProofs` (`Framing` and `Scheduler`), `ManagerProofs`, `ConnProofs` (`HandshakeGate` and `Records`), `TicketKeysProofs`, `Handshake13Proofs`, `Handshake13CauseProofs`, `Handshake12Proofs` | theorems |

### DisguiseLink

A data cell is known by its ordinal, which stands for its bytes; its sequence
number is the ordinal modulo `SeqMod`. `Write` is `Conn.Write` up to its loop:
it frames and schedules the whole message, with any ID and with or without the
end flag (`Fragment`, 79: the flag is set only if the drawn length exceeds what
is left). `SendCell` is a round of the loop, `WriteReturns` its end,
`EncodePanics` the slice of `EncodeCell` (201) out of bounds. `CoverTick` is the
cover loop, `SendFails` a transport that refuses a record. The clock is
`time.Now().UnixNano()`, the wall clock: it ticks, and may stand still, jump ahead
or be set back, also between the readings for two cells of one message
(`Stamps`, `ClockTick`, `ClockSetBack`). Cells are ordered by it alone, so order
is lost as soon as a data cell is stamped no later than one that waits; `inTurn`
remembers whether that has happened. On the other side `ReceiveData` is a
`Read` that finds nothing queued and passes a record on; `ProcessCell` rejects,
extends or releases as the Reassembler does; `DropCell` is a cover cell, or any
cell DecodeCell refuses; `Read` empties `inboundQueue` and copies what fits.

Three things are taken from outside. The record layer is an ordered channel of
cells, which is what `Records` would have to be for the link to work and is not
(section 5); one goroutine writes and one reads at a time; and the connection has a
Manager: `tls.go` (29-60) never assigns `disguiseManager`, so as the code stands
the first `Read` or `Write` dereferences nil, although README.md:9 and 64 of the
repository describe the manager as part of every connection.

**The header length.** `EncodeCell` writes a header of 22 bytes and `DecodeCell`
expects `CellHeaderLen`, 20 (framing.go:18, profile.go:19, SPEC.md:115), and
therefore refuses every cell (run `framing_round_trip`, theorems
`CellsDecodeIffLengthsAgree` and `NothingDecoded`). `CellHeaderLen` is a
constant of the models. The passing runs of the link and of framing set it to 22
to show what holds once the two agree; what is proved holds for every value.

### Framing

Bytes of data are numbered, padding is negative, so that a copy to the wrong
place shows. A step is a round of `Fragment`'s loop with any length
`GetNextPayloadLength` can return after clamping, any size and any offset. Cells
whose offset lies beyond the padding are not encodable (`Encodable`).

### Scheduler

The heap is modelled as `container/heap` works on it: `Swap`, `up`, `down`, with
the index fields. The loops of `up` and `down` are recursive functions from the
number of rounds to the slice and the position reached (`UpRound`, `DownRound`);
`break` is a round that changes nothing. The clock may stand still between two readings, tick or be
set back. A profile change alters the delay of the cover cells that follow.

### Manager

Each method is a call, the acquisition of `m.mu` and its body; the loops are
goroutines of their own. The profiling loop calls `SetProfile` with the lock
held. `Train` panics on the label Dynamic once there are two observations
(classifier.go:164 assigns into a nil map). What the methods do to cells is in
`DisguiseLink`.

### HandshakeGate

The steps of `handshakeContext` between its synchronisations: the unlocked look
at `handshakeStatus`, the start of the interrupter, `handshakeMutex`, the
handshake (its I/O, the store of the status, its return), the deferred calls.
The interrupter's `select` may take either case when both are ready.

### TicketKeys

`ticketKeys` at the pace of its lock operations on the listener's Config and on
one that `GetConfigForClient` returned. `given` remembers which automatic key a
connection got to seal tickets with, and when. What happens between `Lock` and `Unlock`
is one step. A waiting writer keeps new readers out, as in `sync.RWMutex`.

### Handshake13

`c` and `s` are the two ends: a record of the Conn and handshake-state fields
that matter, with `pc` for the place in `handshake()`. An action is one function
of the handshake, or the part of one up to a read; `ClientReads` and
`ServerReads` are `readHandshake` on the next record in flight, with the alert
or the remote error that may come of it; `Return` is the way out through
`handshakeContext`, which flushes `sendBuf`; `ClientBecomes` includes the
deferred removal of a failed session from the cache (handshake_client.go:162).

Cryptography is symbolic. A transcript is the sequence of messages hashed, a MAC
or signature the record of what it covers, a secret the record of what it is
derived from, and a record opens only under the key it was sealed with. Two
ends that hashed different messages therefore disagree on all that follows, as
they would with real hashes. The transcript starts over after a
HelloRetryRequest (`messageHash`), a binder covers the hello without binders, and
the server hashes the client's Finished before it arrives (`sendSessionTickets`).

A configuration (`Configs`) holds what the two `tls.Config`s and machines
contribute: groups, protocols, AES support, the cached session and what its
ticket contains, the client's certificate, `ClientAuth`, and the callbacks that
may refuse. Left out: fields both ends fill with constants and the checks on
them, the choice of signature schemes, `GetConfigForClient`, cookies (this
server sends none), failures of the random source, the key log and signing, and
a transport that breaks (`HandshakeGate` has that one).

### Handshake12, Negotiation, SessionCache

Built like `Handshake13`, for the versions before, and over a sequence of
connections (`Connect`): what a session meets when it comes back is the point.
Between two connections time passes, the ticket keys may be rotated, and the
configuration of either end, the server's name included, may change. An action
is the part of `clientHandshakeState.handshake`, `doFullHandshake` or their
server counterparts from one read to the next; the record of an end carries the
pending cipher, the keys in use in each direction, the transcript and whether
the handshake buffer is still there (`finishedHash.discardHandshakeBuffer`, whose
use afterwards panics). ChangeCipherSpec is a record of its own and changes the
keys. Tickets are records sealed under a ticket key with the creation time they
inherit. `RivalFails` is another connection of the client that shares the cache
and drops the session this one has offered. `made` remembers what each master
secret was agreed on for.

`Negotiation` keeps cipher suites that differ in the flags of the table, one of
each; a few combinations are left out (RSA key exchange with a suite for TLS 1.2
only, ECDHE_ECDSA with CBC), and so is, in `Handshake13.SelectedSuite`, the
server's look at its own AES hardware. The limits of a version are those of `Config`: 0 is a limit not set.
`SessionCache` is the map and the list of `lruSessionCache` as one sequence.
Left out is what `Handshake13` leaves out, and renegotiation (nothing in this
fork starts it), TLS 1.3 between two ends that both allow it, SCTs, and the
choice of certificate and signature scheme.

### Records

Any number of goroutines in `Write` and in `Close` or `CloseWrite`, one in
`Read`, on a connection whose handshake is done. A record is sealed in two steps
(`Seal` takes the number, `incSeq` sets the next) and then handed to the
transport, which takes it (`Transmit`), does not, or fails it once the deadline
has passed or `Close` has closed it (`TransmitFails`). The lock of `c.out` is
taken where the code takes it, which `Write` does not. Sequence numbers count
modulo `SeqSpace`: the properties compare neighbours only. Records that come in
are known by what they turn out to be when opened (`Kinds`); `c.rawInput` is a
number of whole records and perhaps a part of another. `readRecordOrCCS` is one
action for each way it can end; what `readAndDecryptRecord` does with the rest
of the buffer is `DecryptRest`, what the Manager makes of a cell
`ProcessRecord`. `closeNotify` is taken apart where a `Write`, which holds no
lock, can come between: the alert (1451), `closeNotifySent` (1452, `Notified`)
and the deadline that is to stop later writes (1454, `Expire`). The application
sets write deadlines at any time, also after `CloseWrite` (`SetWriteDeadline`).
How many records a `Write` sends is left open: after each it is done or goes on.

## 3. The runs

| Run | Shows |
|---|---|
| `link` | as long as the clock tells queued data cells apart: order, wholeness, cause of every rejection, refinement of `MessageStream`, delivery in the end of every message that can be completed; with any clock: `Write` over a working transport leaves data queued only while the clock stands before a time it has shown |
| `link_exact_fit` (violation) | a message whose last length meets its end exactly is never delivered |
| `scheduler` | no due cell overlooked, refinement of `CellQueue` (nothing lost or repeated) |
| `framing` | partition of the data, end flag, round trip at every offset |
| `framing_round_trip` (violation) | with the code's header length nothing round-trips |
| `manager` | training labels, methods return until the profiling loop locks itself out |
| `manager_switch` (violation) | a switch the profiling loop decides on never happens |
| `gate` | one outcome for all callers, interrupters joined, cancelled calls return |
| `tickets` | locks in balance, one rotation per period, a key kept for the rest of its lifetime from when a connection got it, at least its lifetime less the rotation period, explicit keys stay, no circular wait |
| `handshake13` | agreement of the two ends, `ClientAuth` on every path, tickets whose secret the client shares, alerts only for a cause in the configuration, compatible ends complete, nobody waits for ever |
| `handshake12` | agreement of the two ends on everything up to keys, best common version, sound resumption over three connections, `ClientAuth` and server verification on every path, alerts only for a cause in the configurations, no circular wait |
| `records` | sequence numbers in turn under the lock, `close_notify` once and nothing behind the deadline that follows it until another is set, `Close` returns unless its deadline is moved, `Read` ends whatever it is sent and tells a cut stream from its end |

Every property has a mutant: the model with one definition changed as a bug in
the code might change it, for which TLC finds the property violated.

**Bounds.** `link`: three data cells, two to a message, two IDs and one cover
cell: enough for a message without its end flag, a second one under the same ID
that is refused, and a third under another; cell IDs collide as soon as there are
two messages. The sequence space is 4, so that no wrap falls within a run. The
clock goes to 2 and is set back once, before, between or after the stamps of a
message; `link_exact_fit` is a counterexample with a clock that only goes forward.
`scheduler`: five items, so that a pop sifts down two levels, two clock values
and two intervals, hence four send times. `framing`: messages of up to 4 bytes,
5 bytes in all: every way to cut them, every offset, and a second message. `manager`: two callers and
both loops, observations one beyond what the profiling loop waits for. `gate`:
three callers, two of them with contexts; a third is the first that can overtake
a waiter. `tickets`: two connections and one setter, clock to 4 with a rotation
period of 2 and a lifetime of 3, so that keys are made, handed out at their age
limit, kept and dropped.
`handshake13`: one connection, nothing capped, about 1650 configurations in three
families: every combination of group preference (share fits, retry, nothing in
common), `ClientAuth`, client certificate, tickets and nine kinds of session; every
combination of refusals on a full, a retried and a resumed handshake; AES
support, protocols and caching.
`handshake12`: three connections: a first that tries about 140 configurations in
families (version limits of both ends, suites with keys, curves and hardware,
protocols, client authentication, refusals, makers of sessions), then twice any
of 12 that a session can meet; so a ticket can be made, renewed and refused, or
refused and made again. Two servers and a cache of one place: the second server
evicts the first. A lifetime of 1 and a clock to 2, so that a ticket can be at
its limit and beyond; two ticket keys are kept, so the third connection can
present one whose key is gone. One rival.
`records`: one `Write`, one goroutine that calls
`CloseWrite` and then `Close`, two `Read`s, one useless record before the limit,
bursts of two records and a part. Of the three kinds of cipher the run takes
TLS 1.3 and the one whose records panic; the third, with a nonce in front, seals
as the first and reads as the second. Two senders are enough for a race, two `Read`s
for what the first leaves behind; more goroutines are the theorems' business.

**Fairness.** `DisguiseLink`: the loops of `Write` and `Read` go on once they
are entered: weak fairness of a round of each, since the clock may change which
of its branches is possible; nothing makes the application write again, the
clock move or the transport fail. `Manager`: a goroutine that holds
the mutex runs on, tickers tick, and `sync.Mutex` hands the lock to a waiter
that starves (strong fairness of `Acquire`). `HandshakeGate`: the same, and a
closed transport fails the handshake's I/O; that the I/O ends otherwise is not
assumed, the peer may be silent. `Handshake13`: each end's goroutine runs on
while it is not blocked, and what was written arrives. `Records`: goroutines in
`Close` and `Read` run on, a deadline passes, and the peer sends on until its
stream ends; that the transport takes a record is not assumed, the peer may have
stopped reading. `TicketKeys`, `Scheduler`, `Framing`, `Handshake12`: none.

**Deadlock** is checked in `gate` and in `handshake12`, where `Finished` stands
for the end of the last connection. The other models stop at their bounds, and
Manager and TicketKeys really can stop: see the findings. In `handshake13` a
state without a successor is a handshake that ended, or one end waiting for
ever; `HandshakesEnd` tells the two apart.

## 4. The proofs

All for arbitrary constants subject to the `ASSUME` of each module.

* **DisguiseLinkProofs.** `TypeCorrect`. `InOrderDelivery`,
  `WholeMessageDelivery` and `RejectionCause` assume `MaxCells <= SeqMod` (no
  wrap) and speak of the behaviour as long as `inTurn`: every data cell was
  stamped later than those that waited. Both are needed, ties and set-backs
  reorder cells. They rest on `LinkInv`, kept while `inTurn` (`InTurnInv`). None of the three is
  inductive by itself: one has to know that the data cells queued, in flight and
  arrived are the framed ones in order (`QueueInv`, `WireInv`), that each open
  stream holds a run of ordinals that starts at a message's beginning and goes
  up to what has arrived of its ID (`StreamInv`), and that a message half
  arrived has its stream open (`MidMessageOpen`). `WriteFlushes` holds for
  any clock: a data cell is never stamped later than the latest time the clock
  has shown (`DataDue`), so what is left queued waits for a clock that was set
  back. `NothingDecoded`:
  if the header lengths differ, nothing is ever handed over or refused.
  `LinkImplementsStream` is the refinement of `MessageStream`: a `Write` is its
  Submit (`NoGap`: the messages follow one another without a gap), a cell that
  completes a message hands over one whole message later than all before
  (`LinkInv`), and every other step changes neither.
* **CellProofs**, the Framer. `Codec`: `DecodeCell` inverts `EncodeCell` on every
  encodable cell if the header lengths agree and refuses it if not, for all
  lengths; by the position of every byte after each of the three copies.
  `FragmentationPartitions`, `EndFlagSound`, `CellsDecodeIffLengthsAgree` are
  invariants of the specification, from `FramingInv`.
* **CellProofs**, the Scheduler. For any number of cells, any profiles and any
  clock. `SchedulerFindsDue` and `SchedulerRefines` are the two properties of the
  run. Both rest on `SchedulerInv`: the queue is a heap (`Heap`: ordered by send
  time, its cells distinct, each index field the position), every cell scheduled
  waits or was handed out once (`EachCellOnce`), and no cell was handed out
  before one scheduled earlier with an earlier send time, whether that one was
  handed out since (`ReorderedOnlyByClock`) or still waits
  (`OvertakenNoEarlier`). The work is in the two loops. A heap with one item out
  of place has two shapes: on the way up only that item may be less than its
  parent (`UpOK`), on the way down only its children may be less than it
  (`DownOK`), and in both its children are no less than its parent. An exchange
  moves the place (`UpMoves`, `DownMoves`) and keeps the entries, the
  distinctness and the index fields (`SwapRearranges`). That the loops' recursive
  definitions have solutions (`LoopExists`) and that the last round of `Len(q)`
  is one where the loop has broken (`upOrders`, `downOrders`) is by induction on
  the rounds. `HeapPushAdds` and `HeapPopTakes` state the outcome: one entry
  more, or the root's entry less. `RootLeast` makes the root the least, by the
  absence of a least position with a lesser item. `ScheduleCell` is then the
  abstract `Put`, `GetNextCell` the `Take`, and all else a stutter.
* **ManagerProofs.** `TrainingLabelsTrue`, `OnlyProfiler`, `SwitchIsFinal`, for
  any number of goroutines, from `MutexInv` (who holds the mutex is where the
  label says).
* **ConnProofs**, the handshake gate. `StatusImpliesNoError`, `OneHandshake`,
  `OneOutcome`, `InterruptersEnd` for any set of callers, from `GateInv`: the
  mutex, the one handshake whose outcome is stored before it is unlocked, and
  what each caller was told.
* **Handshake13Proofs.** `ClientAuthSafety`, from `AuthInv`: no certificates before a ticket was looked
  at; those of an accepted ticket satisfy the policy; without a ticket there are
  none until the client's message, which is checked against the policy, and the
  server waits for Finished only once a signature by them is in the transcript.
  The invariant says nothing of the other end or of the records in flight: the
  theorem holds for every configuration and for any records the peer may send. `AgreementSafety`, from `AgreeInv`, goes through the keys and not through
  stages: each end's secret, suite, protocol and application keys are functions
  of what its handshake key and its transcript hold (`Keyed`, `Extended`,
  `Closed`); the Finished the server computes ahead covers both (`Expects`); and a
  Finished on the wire to the server is one a client sent that is done and
  settled on what it covers (`WireOK`). So two ends with the same Finished agree
  (`OneFinished`), whatever else the wires carried. `TicketSafety` adds
  `TicketInv`: a client that has accepted the server's Finished has settled what
  the server has (`Joined`), and what either end hashes after that Finished is
  fixed by the client's certificate and by whether the server asked for it
  (`Before`, `Full`); so the transcript under a ticket's secret is known before
  either end has hashed it, and every ticket on the wire has it (`TicketOK`),
  whether the server sealed it before or after the client's certificate came.
  Nothing but tickets follows the Finished on that wire (`Ordered`).
* **Handshake13CauseProofs.** `CauseSafety` needs the stages that the others
  avoid, since it denies that a record fails to open or a message is not
  expected. `CauseInv` says that the connection is in one of nine (`Stage`):
  nothing sent, hello sent, three of a retry, the server computing its flight
  (`Answering`), the flight delivered, the client done, the client failed. The
  server sends its flight in one write and the client answers in one, so a stage
  describes a wire by what its reader, from the function it is in, still has to
  find there: `FedFin`, `FedVerify`, `FedCert` .. `FedHello` build the flight
  from its end backwards, each over the transcript the client will then have,
  and `CFin`, `CVerify`, `CFlight`, `CAll` the answer. While a flight is still
  in a buffer the stage says what it will be once the rest is appended, whatever
  that rest is (`Answering`, `Unsent`). A failed end leaves no record but an
  alert under the key the other one reads with (`AlertNext`, `Excuse`);
  `OnlyCCS` and `CCSNext` are the ChangeCipherSpec records, which may come late.
  A failed end reports an error it has a cause for (`Blameless`): one in the
  configurations or the other end's alert. With configurations that fit
  (`Compatible`) the first end to fail would have neither, so neither end ever
  fails, on any path (`CompatibleSafety`, from the same `CauseInv`).
  `NeverStuck` is the deadlock freedom behind `HandshakesEnd`: since a stage says
  what the reader finds, until both ends are through one of them computes or has
  a record it takes. A client that fails leaves an alert on the wire (`Alerted`),
  unless the error is the one of `GetClientCertificate`.
  That a suite, a group and a protocol are found at all rests on lemmas about
  `FirstIn` (`SuiteFound`, `GroupFound`, `ProtocolFound`). The assumptions are
  the module's: `ConfigAssumption`, types of the configuration's fields, among
  them that a cached session and its ticket have one suite, as they stem from
  one handshake (handshake_client_tls13.go:666, handshake_server_tls13.go:729),
  and `NoneAssumption`, that nil is no value it stands in for.
* **TicketKeysProofs.** `BalancedLocks`, for any finite set of goroutines, from
  `LockInv`: the count of a Config's read locks is the number of goroutines at
  the labels that hold one, and those left behind. `NobodyLockedOut` says of
  the guards of `Step` what `SomeoneMoves` says with ENABLED: who keeps the others
  out is past `Lock` at the same Config (`WriterInv`), and it waits only for
  goroutines with the read lock, each of which can go on. `SetKeysSurvive` from
  the same typing, as an action property. `OneRotation` and `KeysSurvive` from
  `AutoInv`: the automatic keys are in order of age, a rotation period apart; a key
  that a connection got was not stale then (`GivenFresh`), and is among them for
  its own lifetime (`GivenLive`), so for `Lifetime - Rotation` at least from when
  it was got. The step that matters is
  the loop of a rotation, the recursive function `valid`: that its definition has
  a solution, and what each round keeps, is shown by induction on the rounds,
  as the absence of a least round at which it fails.
* **Handshake12Proofs.** For every set of configurations, any number of
  connections and any size of the cache: `AgreementAlways`,
  `ResumptionAlwaysSound`, `ClientAuthAlways`, `AlwaysVerified`, `CausesAlways`
  and `AlwaysProceeds`, the six properties of the run, all from one inductive
  invariant, `ConnInv` (`StagesHold`). It says that the connection is in one of eleven stages
  (`Stage`): nothing sent, hello sent, the client reading the server's flight,
  the server reading the client's, the server done, the two stages of an
  abbreviated handshake, and the four ways to fail. A stage gives the records on
  both wires, the transcripts of both ends (`Rest0` .. `Sent5`, `Hash1` .. `HashF`),
  the keys in use and pending, and what the two have settled on (`ChoseFull`,
  `ChoseResume`); that much is needed because each check of a signature, a MAC or a
  record depends on everything hashed before it. `CacheOK` says that each cached
  session, and the ticket inside it, stems from a full handshake in `made` with
  the same server, at least as young as the ticket says: that is what a
  resumption leans on, connections later. The lemmas on `Negotiation` (what
  `Filter`, `FirstIn`, `mutualVersion` and `selectCipherSuite` return, with the
  version the best common one) and on `SessionCache` (`Get`, `Put` and eviction
  keep entries sound) hold for every argument. The constants' assumptions are
  those of the module: `ConfigAssumption`, types of the configuration's fields,
  at least one version at the client, not both ends open to TLS 1.3; and
  `NoneAssumption`, that nil is no value of any other kind.
* **ConnProofs**, the record layer. For any number of goroutines. `AlertsInTurn`
  and `CloseNotifyOnceAndLast` from `RecordsInv`: who seals under the lock has it
  (`LockInv`); until a `Write` has raced, one goroutine at a time is between
  reading and setting the number, and it has read the current one (`TurnInv`);
  and `closeNotify`, once it has let go of the lock, has left a deadline in the
  past that only the application moves (`NotifyInv`), which is what stops a
  `Write` that does not ask.
  `EndsAreTrue` from `EndInv`: EOF is kept only for a reason or after a failure,
  and out of step with the records `Read` has already failed or panicked.

`TypeCorrect`, `OnlyProfiler`, `SwitchIsFinal`, `StatusImpliesNoError`,
`OneHandshake`, `SchedulerKeepsCells`, `SchedulerReorders`, `SchedulerIndexes`,
`CompatibleSafety`, `NeverStuck` and `NobodyLockedOut` are proved and in no run.

Only model-checked: all liveness (`DeliverableArrives`, `MethodsReturn`,
`CancelledCallReturns`, `CompatibleEndsComplete`, `HandshakesEnd`,
`CloseReturns`, `ReadsEnd`) and `SomeoneMoves`, which uses ENABLED, both out of
this prover's reach. Of three of them the safe half is a theorem: that
compatible ends do not fail (`CompatibleSafety`), that the two ends never wait
for each other (`NeverStuck`), and `SomeoneMoves` with the guards spelt out
(`NobodyLockedOut`). Every other property of a passing run is a theorem.

## 5. What the models say about the code

Findings, each with a run: the header length (framing.go:227), the exact fit
(framing.go:79), the profiling loop that waits for its own lock (manager.go:186).

Modelled, false of the code, and without a run of its own:

* `generateRandomOffset` draws from the whole cell size, so `EncodeCell` slices
  the padding out of bounds and panics on many cells (framing.go:201).
* `SetProfile` panics after two observations under the initial profile
  (classifier.go:164).
* The cover loop's ticker keeps the interval of the first profile
  (manager.go:151), and cover cells leave the queue only inside a `Write`: on a
  connection that does not write they pile up without bound.
* `Conn.Read` drops what does not fit into the caller's buffer (conn.go:1224).
* Ties in the clock, and a clock that is set back, reorder the cells of a message
  and those of the next ones (scheduler.go:84). After a set-back `Write` may also
  find nothing due and return success with the caller's data still in the queue
  (scheduler.go:107); the cells alias the caller's slice (framing.go:85), so they
  carry what it holds when a later `Write` sends them. `WriteFlushesData` says
  when this can happen.
* A context cancelled between the end of the handshake and the return of its
  call closes a connection that other goroutines already use (conn.go:1520).
* A Config from `GetConfigForClient` with tickets disabled keeps a read lock at
  every handshake (common.go:871); `SetSessionTicketKeys` on it then never
  returns. `lost` counts these locks and `SomeoneMoves` excepts them.
* A ticket may outlive its key. The key is dropped `ticketKeyLifetime` after it
  was made (common.go:911), the ticket may be sealed up to a rotation period
  later, and `SetSessionTicketKeys` retires the automatic keys at once.
  `KeysKept` promises the lifetime less the rotation period, and only while the
  application sets no keys.
* An error of `GetClientCertificate` is the one failure of a handshake that is
  reported to nobody (handshake_client_tls13.go:556): the server waits on.
  `HandshakesEnd` excepts it.
* `Conn.Write` hands `encrypt` no record header (conn.go:1324), although that
  "must already contain the record header" (476): a TLS 1.3 record cannot be
  opened by the peer, with an explicit nonce the nonce stands where the header
  should be, and the other ciphers panic.
* `Write` takes no lock of `c.out`: beside an alert, `close_notify` or another
  `Write`, two records may get one number. `SealedInTurn` excepts it. It does
  not count itself in `activeCall` either, so the branch of `Close` for a
  `Write` in flight (1408) is never taken.
* `readAndDecryptRecord` panics when a record arrives alone, as nothing is left
  in `c.rawInput` for its own decryption; `c.input` is drained by nobody, so
  after the first data record every later `Read` fails; an error of `readRecord`
  is replaced by a nil `handshakeErr`, and `Read` goes on to refuse a record of
  type 0 with an alert of its own; a read deadline becomes a permanent error
  (1338-1393).
* A `Close` waits for the lock of `c.out`, which a `Read` may hold while its alert
  is stuck in the transport; `CloseReturns` excepts it.
* "Any subsequent writes will fail" (conn.go:1453) is not what `CloseWrite` gives. A
  `Write` that seals between the alert of 1451 and the deadline of 1454 sends its
  record behind `close_notify`, and a `SetWriteDeadline` afterwards, which nothing
  refuses, lets any later `Write` through: it asks neither `closeNotifySent` nor
  `c.out.err`. `NothingAfterCloseNotify` excepts both. The same call moves the
  five seconds given to the alert, which `CloseReturns` excepts (`moved`).
* After a `Write` has timed out a later one may succeed: nothing keeps the error,
  contrary to the comments on the deadlines (conn.go 142-158).
* `checkForResumption` leaves a ticket it refuses in `hs.sessionState`
  (handshake_server.go:408), and the ticket of the full handshake that follows
  takes its creation time from it (748): a new session may be near its end.
* `Put(key, nil)` on a key that is not there stores a nil entry, perhaps at the
  cost of a live one (common.go:1437).
* Under a stricter `ClientAuth` a ticket with a certificate that no longer
  verifies fails the connection, where a full handshake would do.

Unreachable in this fork: `handlePostHandshakeMessage` (conn.go:1153) has no
caller, so a NewSessionTicket never reaches the client's cache, a KeyUpdate is
never answered and renegotiation never starts; `Conn.Read` refuses handshake
records (1282). The sessions in `Handshake13` stand for entries of an
application's `ClientSessionCache`, however they got there.

## 6. Not modelled, and the plan

Left out: the arithmetic of the crypto (key schedule, PRF and key agreement are
symbolic in the handshakes; ciphers are functions without state); marshalling of
handshake messages, which has no state and whose faults the handshakes would see
only as decode errors; alert and enum names; the certificate generator; the
choice of certificates and signature schemes; the statistics of profiles and the
floating-point arithmetic of the classifier; two goroutines in `Read` at once.

To come, most important first:

1. `Records` under `DisguiseLink` in place of its ordered channel, once the
   record path of `Read` and `Write` can carry a cell at all (section 5).
