----------------------------- MODULE ConnProofs -----------------------------
(***************************************************************************)
(* Proofs about what the goroutines of an application see of one Conn, for *)
(* any number of them: of its handshake (HandshakeGate: there is one, with *)
(* one outcome, and a call takes its interrupter with it) and of its       *)
(* record layer afterwards (Records: Write, Read, Close and CloseWrite,    *)
(* with any bounds).                                                       *)
(***************************************************************************)
EXTENDS HandshakeGate, Records, TLAPS

-----------------------------------------------------------------------------
(* The handshake.                                                          *)

Holding == {"run", "finish", "complete"}

\* handshakeMutex is held exactly by the caller inside handshakeFn.
MutexInv ==
    /\ mutex \in Callers => at[mutex] \in Holding
    /\ \A g \in Callers : at[g] \in Holding => mutex = g

\* One handshake, whose outcome is stored by its runner before it unlocks.
OutcomeInv ==
    /\ runs <= 1
    /\ runs = 0 => mutex = Free /\ ~status /\ handshakeErr = "nil"
    /\ runs = 1 /\ mutex = Free => status \/ handshakeErr = "failed"
    /\ handshakeErr = "failed" => mutex = Free /\ ~status
    /\ status /\ mutex # Free => at[mutex] = "complete"
    /\ \A g \in Callers : at[g] = "complete" => status

\* What a caller was told is the outcome.
ResultInv ==
    \A g \in Callers :
        /\ ret[g] = "nil" => status
        /\ ret[g] = "failed" => handshakeErr = "failed"

\* An interrupter waits only while its call is under way.
JoinInv ==
    \A g \in Callers : at[g] = "idle" =>
        /\ interrupter[g] # "waiting"
        /\ interrupter[g] = "ctx" => ret[g] = "ctx"

GateInv == GateTypeOK /\ MutexInv /\ OutcomeInv /\ ResultInv /\ JoinInv

LEMMA GateStarts == GateInit => GateInv
  <1> SUFFICES ASSUME GateInit PROVE GateInv
    OBVIOUS
  <1> USE GateAssumption DEF GateInit
  <1>1. GateTypeOK
    BY DEF GateTypeOK, CallerLabels
  <1>2. MutexInv
    BY DEF MutexInv, Holding
  <1>3. OutcomeInv
    BY DEF OutcomeInv
  <1>4. ResultInv
    BY DEF ResultInv
  <1>5. JoinInv
    BY DEF JoinInv
  <1> QED
    BY <1>1, <1>2, <1>3, <1>4, <1>5 DEF GateInv

LEMMA GateTypeStep == GateTypeOK /\ [GateNext]_gateVars => GateTypeOK'
  <1> SUFFICES ASSUME GateTypeOK, [GateNext]_gateVars PROVE GateTypeOK'
    OBVIOUS
  <1> USE GateAssumption DEF GateTypeOK, CallerLabels
  <1>1. ASSUME NEW g \in Callers, FastExit(g) PROVE GateTypeOK'
    BY <1>1 DEF FastExit
  <1>2. ASSUME NEW g \in Callers, NEW c \in Contexts(g), Call(g, c)
        PROVE  GateTypeOK'
    BY <1>2 DEF Call, Contexts
  <1>3. ASSUME NEW g \in Callers, FindsOutcome(g) PROVE GateTypeOK'
    BY <1>3 DEF FindsOutcome
  <1>4. ASSUME NEW g \in Callers, StartsHandshake(g) PROVE GateTypeOK'
    BY <1>4 DEF StartsHandshake
  <1>5. ASSUME NEW g \in Callers, FinishesIO(g) PROVE GateTypeOK'
    BY <1>5 DEF FinishesIO
  <1>6. ASSUME NEW g \in Callers, MarksComplete(g) PROVE GateTypeOK'
    BY <1>6 DEF MarksComplete
  <1>7. ASSUME NEW g \in Callers, Succeeds(g) PROVE GateTypeOK'
    BY <1>7 DEF Succeeds
  <1>8. ASSUME NEW g \in Callers, Fails(g) PROVE GateTypeOK'
    BY <1>8 DEF Fails
  <1>9. ASSUME NEW g \in Callers, ClosesDone(g) PROVE GateTypeOK'
    BY <1>9 DEF ClosesDone
  <1>10. ASSUME NEW g \in Callers, Returns(g) PROVE GateTypeOK'
    BY <1>10 DEF Returns
  <1>11. ASSUME NEW g \in Callers, Interrupts(g) PROVE GateTypeOK'
    BY <1>11 DEF Interrupts
  <1>12. ASSUME NEW g \in Callers, StandsDown(g) PROVE GateTypeOK'
    BY <1>12 DEF StandsDown
  <1>13. ASSUME NEW g \in Callers, Cancel(g) PROVE GateTypeOK'
    BY <1>13 DEF Cancel
  <1>14. CASE CloseConn
    BY <1>14 DEF CloseConn
  <1>15. CASE UNCHANGED gateVars
    BY <1>15 DEF gateVars
  <1> HIDE DEF GateTypeOK
  <1> QED
    BY <1>1, <1>2, <1>3, <1>4, <1>5, <1>6, <1>7, <1>8, <1>9, <1>10, <1>11,
       <1>12, <1>13, <1>14, <1>15 DEF GateNext, CallerStep

LEMMA GateStep == GateInv /\ [GateNext]_gateVars => GateInv'
  <1> SUFFICES ASSUME GateInv, [GateNext]_gateVars PROVE GateInv'
    OBVIOUS
  <1>0. GateTypeOK /\ GateTypeOK'
    BY GateTypeStep DEF GateInv
  <1> USE GateAssumption, <1>0 DEF GateInv, GateTypeOK
  <1> DEFINE Rest == MutexInv /\ OutcomeInv /\ ResultInv /\ JoinInv
  <1>1. ASSUME NEW g \in Callers, FastExit(g) PROVE Rest'
    BY <1>1 DEF FastExit, MutexInv, OutcomeInv, ResultInv, JoinInv, Holding
  <1>2. ASSUME NEW g \in Callers, NEW c \in Contexts(g), Call(g, c) PROVE Rest'
    BY <1>2 DEF Call, MutexInv, OutcomeInv, ResultInv, JoinInv, Holding
  <1>3. ASSUME NEW g \in Callers, FindsOutcome(g) PROVE Rest'
    BY <1>3 DEF FindsOutcome, MutexInv, OutcomeInv, ResultInv, JoinInv, Holding
  <1>4. ASSUME NEW g \in Callers, StartsHandshake(g) PROVE Rest'
    <2>1. runs = 0 /\ runs' = 1 /\ mutex' = g /\ at'[g] = "run"
      BY <1>4 DEF StartsHandshake, OutcomeInv
    <2>2. MutexInv'
      BY <1>4, <2>1 DEF StartsHandshake, MutexInv, Holding
    <2>3. OutcomeInv'
      BY <1>4, <2>1 DEF StartsHandshake, OutcomeInv
    <2>4. ResultInv' /\ JoinInv'
      BY <1>4 DEF StartsHandshake, ResultInv, JoinInv
    <2> QED
      BY <2>2, <2>3, <2>4
  <1>5. ASSUME NEW g \in Callers, FinishesIO(g) PROVE Rest'
    BY <1>5 DEF FinishesIO, MutexInv, OutcomeInv, ResultInv, JoinInv, Holding
  <1>6. ASSUME NEW g \in Callers, MarksComplete(g) PROVE Rest'
    BY <1>6 DEF MarksComplete, MutexInv, OutcomeInv, ResultInv, JoinInv, Holding
  <1>7. ASSUME NEW g \in Callers, Succeeds(g) PROVE Rest'
    BY <1>7 DEF Succeeds, MutexInv, OutcomeInv, ResultInv, JoinInv, Holding
  <1>8. ASSUME NEW g \in Callers, Fails(g) PROVE Rest'
    BY <1>8 DEF Fails, MutexInv, OutcomeInv, ResultInv, JoinInv, Holding
  <1>9. ASSUME NEW g \in Callers, ClosesDone(g) PROVE Rest'
    BY <1>9 DEF ClosesDone, MutexInv, OutcomeInv, ResultInv, JoinInv, Holding
  <1>10. ASSUME NEW g \in Callers, Returns(g) PROVE Rest'
    BY <1>10 DEF Returns, MutexInv, OutcomeInv, ResultInv, JoinInv, Holding
  <1>11. ASSUME NEW g \in Callers, Interrupts(g) PROVE Rest'
    BY <1>11 DEF Interrupts, MutexInv, OutcomeInv, ResultInv, JoinInv, Holding
  <1>12. ASSUME NEW g \in Callers, StandsDown(g) PROVE Rest'
    BY <1>12 DEF StandsDown, MutexInv, OutcomeInv, ResultInv, JoinInv, Holding
  <1>13. ASSUME NEW g \in Callers, Cancel(g) PROVE Rest'
    BY <1>13 DEF Cancel, MutexInv, OutcomeInv, ResultInv, JoinInv, Holding
  <1>14. ASSUME CloseConn PROVE Rest'
    BY <1>14 DEF CloseConn, MutexInv, OutcomeInv, ResultInv, JoinInv, Holding
  <1>15. ASSUME UNCHANGED gateVars PROVE Rest'
    BY <1>15 DEF gateVars, MutexInv, OutcomeInv, ResultInv, JoinInv, Holding
  <1> HIDE DEF Rest
  <1>16. Rest'
    BY <1>1, <1>2, <1>3, <1>4, <1>5, <1>6, <1>7, <1>8, <1>9, <1>10, <1>11,
       <1>12, <1>13, <1>14, <1>15 DEF GateNext, CallerStep
  <1>17. MutexInv' /\ OutcomeInv' /\ ResultInv' /\ JoinInv'
    BY <1>16 DEF Rest
  <1> HIDE DEF GateTypeOK
  <1> QED
    BY <1>0, <1>17

LEMMA GateInvariance == GateSpec => []GateInv
  BY GateStarts, GateStep, PTL DEF GateSpec

\* The gate is type correct.
THEOREM GateTypes == GateSpec => []GateTypeOK
  <1>1. GateInv => GateTypeOK
    BY DEF GateInv
  <1> QED
    BY <1>1, GateInvariance, PTL

\* handshakeStatus is 1 only if handshakeErr is nil, so handshakeContext never
\* panics, whatever its callers and contexts do.
THEOREM StatusImpliesNoError == GateSpec => []CompleteMeansNoError
  <1>1. GateInv => CompleteMeansNoError
    BY DEF GateInv, OutcomeInv, CompleteMeansNoError, GateTypeOK
  <1> QED
    BY <1>1, GateInvariance, PTL

\* handshakeFn is called at most once, for any number of callers.
THEOREM OneHandshake == GateSpec => []HandshakeRunsOnce
  <1>1. GateInv => HandshakeRunsOnce
    BY DEF GateInv, OutcomeInv, HandshakeRunsOnce
  <1> QED
    BY <1>1, GateInvariance, PTL

\* All callers of handshakeContext agree on the outcome.
THEOREM OneOutcome == GateSpec => []ResultsAgree
  <1>1. GateInv => ResultsAgree
    BY DEF GateInv, OutcomeInv, ResultInv, ResultsAgree
  <1> QED
    BY <1>1, GateInvariance, PTL

\* No interrupter goroutine outlives the call that started it.
THEOREM InterruptersEnd == GateSpec => []InterrupterJoined
  <1>1. GateInv => InterrupterJoined
    BY DEF GateInv, JoinInv, InterrupterJoined
  <1> QED
    BY <1>1, GateInvariance, PTL

-----------------------------------------------------------------------------
(* The record layer.                                                       *)

\* Where a goroutine can be.
Labels ==
    {"idle", "seal", "incSeq", "send", "panicked", "closeNotify", "notified",
     "expire", "unlock", "lock", "readRecord", "decrypt", "process"}

\* The variables the proofs look at.
Shapes ==
    /\ pc \in [Goroutines -> Labels]
    /\ tmp \in [Goroutines -> Nat] /\ seq \in Nat /\ sealed \in Nat

\* closeNotify with the lock.
AlertLabels == {"seal", "incSeq", "send", "notified", "expire", "unlock"}

\* A closer, from closeNotify's Lock to its Unlock, and Read, while it seals
\* and sends an alert, have the lock of c.out.
LockInv ==
    /\ \A k \in Closers : pc[k] \in AlertLabels => lock = k
    /\ pc[Reader] \in {"seal", "incSeq", "send"} => lock = Reader

\* Until a Write has raced, one goroutine at a time is between reading seq and
\* setting it, and it has read what is there.
TurnInv ==
    ~raced =>
        /\ \A g, h \in Goroutines : Sealing(g) /\ Sealing(h) => g = h
        /\ \A g \in Goroutines :
              Sealing(g) => tmp[g] = seq /\ sealed = (seq + 1) % SeqSpace
        /\ (\A g \in Goroutines : ~Sealing(g)) => sealed = seq

\* close_notify is on the wire once a closer that still has the lock says so,
\* or closeNotifySent does; closeNotify seals no other then.  The deadline it
\* leaves behind stays until the application sets another.
NotifyInv ==
    /\ notice \in {"no", "taken", "final", "reopened"}
    /\ notice = "taken" => \E k \in Closers : pc[k] \in {"notified", "expire"}
    /\ notice \in {"final", "reopened"} => closeNotifySent
    /\ notice = "final" => deadline = "past"
    /\ \A k \in Closers : pc[k] = "expire" => closeNotifySent
    /\ \A k \in Closers : pc[k] \in {"seal", "incSeq", "send"} => ~closeNotifySent

RecordsInv ==
    Shapes /\ LockInv /\ TurnInv /\ NotifyInv /\ SealedInTurn
    /\ NothingAfterCloseNotify

\* What an action of Read that does not seal leaves to the others.
ReaderOnly ==
    /\ \/ pc' = pc
       \/ \E p \in {"idle", "lock", "readRecord", "decrypt", "process",
                    "panicked"} : pc' = [pc EXCEPT ![Reader] = p]
    /\ UNCHANGED outgoing

-----------------------------------------------------------------------------

\* Steps that neither begin nor advance a closeNotify beyond its alert.
LEMMA NotifyKept ==
    ASSUME NotifyInv, UNCHANGED <<notice, deadline, closeNotifySent>>,
           \A k \in Closers :
              \/ pc'[k] = pc[k]
              \/ /\ pc[k] \notin {"notified", "expire"}
                 /\ pc'[k] \notin {"notified", "expire"}
                 /\ pc'[k] \in {"seal", "incSeq", "send"} =>
                       pc[k] \in {"seal", "incSeq", "send"}
    PROVE  NotifyInv'
  BY DEF NotifyInv

LEMMA ReaderOnlyPreserves ==
    ASSUME RecordsInv, ReaderOnly, pc[Reader] \notin {"seal", "incSeq", "send"}
    PROVE  RecordsInv'
<1> USE RecordsAssumption
<1>1. /\ lock' = lock /\ seq' = seq /\ tmp' = tmp /\ sealed' = sealed
      /\ inTurn' = inTurn /\ raced' = raced /\ late' = late
      /\ UNCHANGED <<notice, deadline, closeNotifySent>>
  BY DEF ReaderOnly, outgoing, seals, wire, follow, closing
<1>2. /\ pc' \in [Goroutines -> Labels]
      /\ \A g \in Goroutines : g # Reader => pc'[g] = pc[g]
      /\ pc'[Reader] \notin {"seal", "incSeq", "send"}
  BY DEF ReaderOnly, RecordsInv, Shapes, Goroutines, Labels
<1>3. \A g \in Goroutines : Sealing(g)' <=> Sealing(g)
  BY <1>2 DEF Sealing, Goroutines
<1>4. Closers \subseteq Goroutines /\ Reader \notin Closers
  BY DEF Goroutines
<1>5. Shapes'
  BY <1>1, <1>2 DEF ReaderOnly, RecordsInv, Shapes
<1>6. LockInv'
  BY <1>1, <1>2, <1>4 DEF RecordsInv, LockInv, AlertLabels
<1>7. TurnInv'
  BY <1>1, <1>3 DEF RecordsInv, TurnInv
<1>8. NotifyInv'
  BY <1>1, <1>2, <1>4, NotifyKept DEF RecordsInv, Goroutines
<1>9. SealedInTurn' /\ NothingAfterCloseNotify'
  BY <1>1 DEF RecordsInv, SealedInTurn, NothingAfterCloseNotify
<1>10. QED
  BY <1>5, <1>6, <1>7, <1>8, <1>9 DEF RecordsInv

\* A step of the others, or of Read with the lock, that neither seals nor
\* sets seq.
LEMMA NoSealPreserves ==
    ASSUME Shapes, TurnInv, SealedInTurn,
           NEW g \in Goroutines, NEW p \in Labels \ {"incSeq"},
           pc[g] # "incSeq", pc' = [pc EXCEPT ![g] = p],
           UNCHANGED seals
    PROVE  TurnInv' /\ SealedInTurn'
<1>1. \A h \in Goroutines : Sealing(h)' <=> Sealing(h)
  BY DEF Sealing, Shapes
<1>2. QED
  BY <1>1 DEF TurnInv, SealedInTurn, seals

-----------------------------------------------------------------------------
(* Sealing.                                                                *)

LEMMA SealPreserves ==
    ASSUME RecordsInv, NEW g \in Goroutines, Seal(g)
    PROVE  RecordsInv'
<1> USE RecordsAssumption
<1>1. /\ lock' = lock /\ late' = late
      /\ UNCHANGED <<notice, deadline, closeNotifySent>>
  BY DEF Seal, wire, follow, closing
<1>2. Closers \subseteq Goroutines /\ Reader \notin Closers /\ Reader \in Goroutines
  BY DEF Goroutines
<1>3. PICK p \in {"incSeq", "panicked"} : pc' = [pc EXCEPT ![g] = p]
  BY DEF Seal, Goto
<1>4. pc[g] = "seal"
  BY DEF Seal
<1>5. LockInv'
  <2>1. g \in Closers => lock = g
    BY <1>4 DEF RecordsInv, LockInv, AlertLabels
  <2>2. g = Reader => lock = g
    BY <1>4 DEF RecordsInv, LockInv, AlertLabels
  <2>3. QED
    BY <1>1, <1>2, <1>3, <2>1, <2>2 DEF RecordsInv, LockInv, AlertLabels, Shapes
<1>6. NotifyInv' /\ NothingAfterCloseNotify'
  <2>1. /\ pc'[g] \in {"incSeq", "panicked"}
        /\ \A h \in Goroutines : h # g => pc'[h] = pc[h]
    BY <1>3 DEF RecordsInv, Shapes
  <2>2. QED
    BY <2>1, <1>1, <1>2, <1>4, NotifyKept DEF RecordsInv, NothingAfterCloseNotify
<1>7. CASE g \in Writers /\ mode = "bare"
  <2>1. pc' = [pc EXCEPT ![g] = "panicked"] /\ UNCHANGED seals
    BY <1>7 DEF Seal, Goto
  <2>2. TurnInv' /\ SealedInTurn'
    BY <2>1, <1>4, NoSealPreserves DEF RecordsInv, Labels
  <2>3. Shapes'
    BY <2>1, <1>1 DEF RecordsInv, Shapes, seals, Labels
  <2>4. QED
    BY <2>2, <2>3, <1>5, <1>6 DEF RecordsInv
<1>8. CASE ~(g \in Writers /\ mode = "bare")
  <2> DEFINE meets == \E h \in Goroutines \ {g} :
                          Sealing(h) /\ {g, h} \cap Writers # {}
  <2>1. /\ pc' = [pc EXCEPT ![g] = "incSeq"]
        /\ tmp' = [tmp EXCEPT ![g] = seq] /\ seq' = seq
        /\ raced' = (raced \/ meets)
        /\ sealed' = IF raced' THEN 0 ELSE (sealed + 1) % SeqSpace
        /\ inTurn' = (inTurn /\ (raced' \/ seq = sealed))
    BY <1>8 DEF Seal, Goto
  <2>2. ASSUME ~raced'
        PROVE  \A h \in Goroutines : ~Sealing(h)
    <3> SUFFICES ASSUME NEW h \in Goroutines, Sealing(h)
                 PROVE  FALSE
      OBVIOUS
    <3>1. h # g
      BY <1>4 DEF Sealing
    <3>2. ~meets
      BY <2>1, <2>2 DEF RecordsInv, Shapes
    <3>3. g \notin Writers /\ h \notin Writers
      BY <3>1, <3>2
    <3>4. lock = g
      BY <1>4, <3>3 DEF RecordsInv, LockInv, AlertLabels, Goroutines
    <3>5. lock = h
      BY <3>3 DEF RecordsInv, LockInv, AlertLabels, Goroutines, Sealing
    <3>6. QED
      BY <3>1, <3>4, <3>5
  <2> HIDE DEF meets
  <2>3. ~raced' => seq = sealed /\ ~raced
    BY <2>1, <2>2 DEF RecordsInv, TurnInv, Shapes
  <2>4. (sealed + 1) % SeqSpace \in Nat
    BY DEF RecordsInv, Shapes
  <2>5. Shapes'
    BY <2>1, <2>4, <1>1 DEF RecordsInv, Shapes, Labels
  <2>6. SealedInTurn'
    BY <2>1, <2>3 DEF RecordsInv, SealedInTurn
  <2>7. TurnInv'
    <3> SUFFICES ASSUME ~raced'
                 PROVE  /\ \A h, i \in Goroutines :
                              Sealing(h)' /\ Sealing(i)' => h = i
                        /\ \A h \in Goroutines :
                              Sealing(h)' => /\ tmp'[h] = seq'
                                             /\ sealed' = (seq' + 1) % SeqSpace
                        /\ (\A h \in Goroutines : ~Sealing(h)') => sealed' = seq'
      BY DEF TurnInv
    <3>1. \A h \in Goroutines : Sealing(h)' <=> h = g
      BY <2>1, <2>2 DEF Sealing, RecordsInv, Shapes
    <3>2. tmp'[g] = seq' /\ sealed' = (seq' + 1) % SeqSpace
      BY <2>1, <2>3 DEF RecordsInv, Shapes
    <3>3. QED
      BY <3>1, <3>2
  <2>8. QED
    BY <2>5, <2>6, <2>7, <1>5, <1>6 DEF RecordsInv
<1>9. QED
  BY <1>7, <1>8

LEMMA IncSeqPreserves ==
    ASSUME RecordsInv, NEW g \in Goroutines, incSeq(g)
    PROVE  RecordsInv'
<1> USE RecordsAssumption
<1>1. /\ lock' = lock /\ late' = late
      /\ UNCHANGED <<notice, deadline, closeNotifySent>>
      /\ sealed' = sealed /\ inTurn' = inTurn /\ raced' = raced
      /\ seq' = (tmp[g] + 1) % SeqSpace /\ tmp' = [tmp EXCEPT ![g] = 0]
      /\ pc' = [pc EXCEPT ![g] = "send"] /\ pc[g] = "incSeq"
  BY DEF incSeq, wire, follow, closing, Goto
<1>2. Closers \subseteq Goroutines /\ Reader \notin Closers /\ Reader \in Goroutines
  BY DEF Goroutines
<1>3. Shapes'
  <2>1. (tmp[g] + 1) % SeqSpace \in Nat
    BY DEF RecordsInv, Shapes
  <2>2. QED
    BY <2>1, <1>1 DEF RecordsInv, Shapes, Labels
<1>4. LockInv'
  BY <1>1, <1>2 DEF RecordsInv, LockInv, AlertLabels, Shapes
<1>5. NotifyInv' /\ NothingAfterCloseNotify' /\ SealedInTurn'
  <2>1. pc'[g] = "send" /\ \A h \in Goroutines : h # g => pc'[h] = pc[h]
    BY <1>1 DEF RecordsInv, Shapes
  <2>2. QED
    BY <2>1, <1>1, <1>2, NotifyKept
    DEF RecordsInv, NothingAfterCloseNotify, SealedInTurn
<1>6. TurnInv'
  <2> SUFFICES ASSUME ~raced
               PROVE  (\A h \in Goroutines : ~Sealing(h)') /\ sealed' = seq'
    BY <1>1 DEF TurnInv
  <2>1. \A h \in Goroutines : Sealing(h) => h = g
    BY <1>1 DEF RecordsInv, TurnInv, Sealing
  <2>2. \A h \in Goroutines : ~Sealing(h)'
    BY <2>1, <1>1 DEF RecordsInv, Shapes, Sealing
  <2>3. tmp[g] = seq /\ sealed = (seq + 1) % SeqSpace
    BY <1>1 DEF RecordsInv, TurnInv, Sealing
  <2>4. QED
    BY <2>2, <2>3, <1>1
<1>7. QED
  BY <1>3, <1>4, <1>5, <1>6 DEF RecordsInv

-----------------------------------------------------------------------------
(* Sending.                                                                *)

\* What c.conn.Write leaves behind, whether it fails or not.
LEMMA SentPreserves ==
    ASSUME RecordsInv, NEW g \in Goroutines, NEW ok \in BOOLEAN,
           pc[g] = "send", Sent(g, ok), UNCHANGED <<seals, closing>>,
           deadline' = deadline, ~late',
           \/ notice' = notice
           \/ g \in Closers /\ notice' = "taken"
    PROVE  RecordsInv'
<1> USE RecordsAssumption
<1>1. Closers \subseteq Goroutines /\ Reader \notin Closers /\ Reader \in Goroutines
  BY DEF Goroutines
<1>2. PICK p \in {"seal", "idle", "notified", "lock"} :
        /\ pc' = [pc EXCEPT ![g] = p]
        /\ g \in Closers => p = "notified"
        /\ g = Reader => p \in {"idle", "lock"}
        /\ IF g = Reader THEN lock' = None ELSE lock' = lock
  <2>1. CASE g \in Writers
    BY <2>1 DEF Sent, Goto
  <2>2. CASE g \in Closers
    BY <2>2 DEF Sent, Goto
  <2>3. CASE g = Reader
    <3>1. /\ pc' = [pc EXCEPT ![g] = IF owed > 1 THEN "lock" ELSE "idle"]
          /\ lock' = None
      BY <2>3 DEF Sent, Goto
    <3>2. CASE owed > 1
      BY <3>1, <3>2, <2>3
    <3>3. CASE ~(owed > 1)
      BY <3>1, <3>3, <2>3
    <3>4. QED
      BY <3>2, <3>3
  <2>4. QED
    BY <2>1, <2>2, <2>3 DEF Goroutines
<1>3. /\ closeNotifySent' = closeNotifySent
      /\ seq' = seq /\ tmp' = tmp /\ sealed' = sealed /\ inTurn' = inTurn
      /\ raced' = raced
  BY DEF seals, closing
<1>4. Shapes'
  BY <1>2, <1>3 DEF RecordsInv, Shapes, Labels
<1>5. LockInv'
  <2>1. CASE g = Reader
    <3>1. lock = Reader
      BY <2>1 DEF RecordsInv, LockInv, AlertLabels
    <3>2. \A k \in Closers : pc'[k] = pc[k]
      BY <2>1, <1>1, <1>2 DEF RecordsInv, Shapes
    <3>3. \A k \in Closers :
             pc[k] \notin AlertLabels
      BY <3>1, <1>1 DEF RecordsInv, LockInv, AlertLabels
    <3>4. pc'[Reader] \in {"idle", "lock"}
      BY <2>1, <1>1, <1>2 DEF RecordsInv, Shapes
    <3>5. QED
      BY <3>2, <3>3, <3>4 DEF LockInv, AlertLabels
  <2>2. CASE g # Reader
    <3>1. lock' = lock /\ pc'[Reader] = pc[Reader]
      BY <2>2, <1>1, <1>2 DEF RecordsInv, Shapes
    <3>2. \A k \in Closers : pc'[k] = pc[k] \/ k = g
      BY <1>1, <1>2 DEF RecordsInv, Shapes
    <3>3. g \in Closers => lock = g
      BY DEF RecordsInv, LockInv, AlertLabels
    <3>4. QED
      BY <3>1, <3>2, <3>3 DEF RecordsInv, LockInv, AlertLabels
  <2>3. QED
    BY <2>1, <2>2
<1>6. TurnInv' /\ SealedInTurn'
  BY <1>2, NoSealPreserves DEF RecordsInv, Labels
<1>7. NotifyInv'
  <2>1. CASE g \in Closers
    <3>1. ~closeNotifySent
      BY <2>1 DEF RecordsInv, NotifyInv
    <3>2. pc'[g] = "notified" /\ \A h \in Goroutines : h # g => pc'[h] = pc[h]
      BY <2>1, <1>2 DEF RecordsInv, Shapes
    <3>3. QED
      BY <2>1, <3>1, <3>2, <1>1, <1>3 DEF RecordsInv, NotifyInv
  <2>2. CASE g \notin Closers
    <3>1. \A k \in Closers : pc'[k] = pc[k]
      BY <2>2, <1>1, <1>2 DEF RecordsInv, Shapes
    <3>2. QED
      BY <2>2, <3>1, <1>3, NotifyKept DEF RecordsInv
  <2>3. QED
    BY <2>1, <2>2
<1>8. QED
  BY <1>4, <1>5, <1>6, <1>7 DEF RecordsInv, NothingAfterCloseNotify

LEMMA TransmitPreserves ==
    ASSUME RecordsInv, NEW g \in Goroutines, Transmit(g)
    PROVE  RecordsInv'
<1> USE RecordsAssumption
<1>1. pc[g] = "send" /\ deadline # "past"
  BY DEF Transmit
<1>2. Reader \notin Closers
  BY DEF Goroutines
<1>3. notice # "final"
  BY <1>1 DEF RecordsInv, NotifyInv
<1>4. ASSUME g \in Closers \/ g = Reader
      PROVE  notice # "taken"
  <2>1. lock = g
    BY <1>1, <1>4 DEF RecordsInv, LockInv, AlertLabels
  <2>2. SUFFICES ASSUME NEW k \in Closers, pc[k] \in {"notified", "expire"}
                 PROVE  FALSE
    BY DEF RecordsInv, NotifyInv
  <2>3. lock = k
    BY <2>2 DEF RecordsInv, LockInv, AlertLabels
  <2>4. QED
    BY <2>1, <2>2, <2>3, <1>1
<1>5. g \in Closers => notice = "no"
  BY <1>1, <1>3, <1>4 DEF RecordsInv, NotifyInv
<1>6. ~late'
  BY <1>3, <1>4, <1>5 DEF Transmit, Excluded, RecordsInv, NothingAfterCloseNotify
<1>7. notice' = notice \/ (g \in Closers /\ notice' = "taken")
  BY DEF Transmit
<1>8. QED
  BY <1>6, <1>7, SentPreserves DEF Transmit

LEMMA TransmitFailsPreserves ==
    ASSUME RecordsInv, NEW g \in Goroutines, TransmitFails(g)
    PROVE  RecordsInv'
<1>1. ~late' /\ deadline' = deadline /\ notice' = notice
  BY DEF TransmitFails, RecordsInv, NothingAfterCloseNotify, wire, follow
<1>2. QED
  BY <1>1, SentPreserves DEF TransmitFails

-----------------------------------------------------------------------------
(* The other steps of Write, Close and CloseWrite.                         *)

LEMMA WritePreserves ==
    ASSUME RecordsInv, NEW w \in Writers, Write(w)
    PROVE  RecordsInv'
<1> USE RecordsAssumption
<1>1. /\ pc' = [pc EXCEPT ![w] = "seal"] /\ pc[w] = "idle"
      /\ lock' = lock /\ late' = late /\ UNCHANGED seals
      /\ UNCHANGED <<notice, deadline, closeNotifySent>>
  BY DEF Write, Goto, wire, follow, closing
<1>2. /\ Closers \subseteq Goroutines /\ Reader \in Goroutines
      /\ w \in Goroutines /\ w # Reader /\ w \notin Closers
  BY DEF Goroutines
<1>3. Shapes'
  BY <1>1, <1>2 DEF RecordsInv, Shapes, seals, Labels
<1>4. LockInv'
  BY <1>1, <1>2 DEF RecordsInv, LockInv, AlertLabels, Shapes
<1>5. TurnInv' /\ SealedInTurn'
  BY <1>1, <1>2, NoSealPreserves DEF RecordsInv, Labels
<1>6. NotifyInv' /\ NothingAfterCloseNotify'
  <2>1. \A k \in Closers : pc'[k] = pc[k]
    BY <1>1, <1>2 DEF RecordsInv, Shapes
  <2>2. QED
    BY <2>1, <1>1, NotifyKept DEF RecordsInv, NothingAfterCloseNotify
<1>7. QED
  BY <1>3, <1>4, <1>5, <1>6 DEF RecordsInv

\* The entries of Close and CloseWrite.
LEMMA CallPreserves ==
    ASSUME RecordsInv, NEW k \in Closers, Close(k) \/ CloseWrite(k)
    PROVE  RecordsInv'
<1> USE RecordsAssumption
<1>1. /\ pc' = [pc EXCEPT ![k] = "closeNotify"] /\ pc[k] = "idle"
      /\ lock' = lock /\ late' = late /\ UNCHANGED seals
      /\ UNCHANGED <<notice, deadline, closeNotifySent>>
  BY DEF Close, CloseWrite, Goto, wire, follow, closing, outgoing
<1>2. /\ Closers \subseteq Goroutines /\ Reader \in Goroutines
      /\ k \in Goroutines /\ k # Reader
  BY DEF Goroutines
<1>3. Shapes'
  BY <1>1, <1>2 DEF RecordsInv, Shapes, seals, Labels
<1>4. LockInv'
  BY <1>1, <1>2 DEF RecordsInv, LockInv, AlertLabels, Shapes
<1>5. TurnInv' /\ SealedInTurn'
  BY <1>1, <1>2, NoSealPreserves DEF RecordsInv, Labels
<1>6. NotifyInv' /\ NothingAfterCloseNotify'
  <2>1. pc'[k] = "closeNotify" /\ \A h \in Goroutines : h # k => pc'[h] = pc[h]
    BY <1>1, <1>2 DEF RecordsInv, Shapes
  <2>2. QED
    BY <2>1, <1>1, <1>2, NotifyKept DEF RecordsInv, NothingAfterCloseNotify
<1>7. QED
  BY <1>3, <1>4, <1>5, <1>6 DEF RecordsInv

LEMMA CloseNotifyPreserves ==
    ASSUME RecordsInv, NEW k \in Closers, closeNotify(k)
    PROVE  RecordsInv'
<1> USE RecordsAssumption
<1>1. /\ pc[k] = "closeNotify" /\ lock = None /\ lock' = k
      /\ late' = late /\ UNCHANGED <<notice, closeNotifySent, seals>>
      /\ IF closeNotifySent
         THEN deadline' = deadline /\ Goto(k, "unlock")
         ELSE deadline' = "soon" /\ Goto(k, "seal")
  BY DEF closeNotify, follow, closing
<1>2. PICK p \in {"unlock", "seal"} : pc' = [pc EXCEPT ![k] = p]
  BY DEF closeNotify, Goto
<1>3. /\ Closers \subseteq Goroutines /\ Reader \in Goroutines
      /\ k \in Goroutines /\ k # Reader
  BY DEF Goroutines
<1>4. Shapes'
  BY <1>1, <1>2, <1>3 DEF RecordsInv, Shapes, seals, Labels
<1>5. LockInv'
  <2>1. \A g \in Goroutines : g # None
    BY DEF Goroutines
  <2>2. /\ pc[Reader] \notin {"seal", "incSeq", "send"}
        /\ \A j \in Closers :
              pc[j] \notin AlertLabels
    BY <2>1, <1>1, <1>3 DEF RecordsInv, LockInv, AlertLabels
  <2>3. \A g \in Goroutines : g # k => pc'[g] = pc[g]
    BY <1>2 DEF RecordsInv, Shapes
  <2>4. QED
    BY <2>2, <2>3, <1>1, <1>3 DEF LockInv, AlertLabels
<1>6. TurnInv' /\ SealedInTurn'
  BY <1>1, <1>2, <1>3, NoSealPreserves DEF RecordsInv, Labels
<1>7. \A h \in Goroutines : h # k => pc'[h] = pc[h]
  BY <1>2 DEF RecordsInv, Shapes
<1>8. NotifyInv' /\ NothingAfterCloseNotify'
  <2>1. NothingAfterCloseNotify'
    BY <1>1 DEF RecordsInv, NothingAfterCloseNotify
  <2>2. CASE closeNotifySent
    <3>1. pc'[k] = "unlock"
      BY <2>2, <1>1, <1>3 DEF RecordsInv, Shapes, Goto
    <3>2. QED
      BY <2>1, <2>2, <3>1, <1>1, <1>3, <1>7, NotifyKept DEF RecordsInv
  <2>3. CASE ~closeNotifySent
    <3>1. pc'[k] = "seal"
      BY <2>3, <1>1, <1>3 DEF RecordsInv, Shapes, Goto
    <3>2. \A j \in Closers : j # None
      BY DEF Goroutines
    <3>3. \A j \in Closers : pc[j] \notin {"notified", "expire"}
      BY <3>2, <1>1 DEF RecordsInv, LockInv, AlertLabels
    <3>4. notice = "no"
      BY <2>3, <3>3 DEF RecordsInv, NotifyInv
    <3>5. QED
      BY <2>1, <2>3, <3>1, <3>3, <3>4, <1>1, <1>3, <1>7 DEF RecordsInv, NotifyInv
  <2>4. QED
    BY <2>2, <2>3
<1>9. QED
  BY <1>4, <1>5, <1>6, <1>8 DEF RecordsInv

LEMMA NotifiedPreserves ==
    ASSUME RecordsInv, NEW k \in Closers, Notified(k) \/ Expire(k)
    PROVE  RecordsInv'
<1> USE RecordsAssumption
<1>1. /\ pc[k] \in {"notified", "expire"}
      /\ lock' = lock /\ late' = late /\ UNCHANGED seals
  BY DEF Notified, Expire, follow
<1>2. PICK p \in {"expire", "unlock"} : pc' = [pc EXCEPT ![k] = p]
  BY DEF Notified, Expire, Goto
<1>3. /\ Closers \subseteq Goroutines /\ Reader \in Goroutines
      /\ k \in Goroutines /\ k # Reader
  BY DEF Goroutines
<1>4. pc'[k] = p /\ \A h \in Goroutines : h # k => pc'[h] = pc[h]
  BY <1>2, <1>3 DEF RecordsInv, Shapes
<1>5. Shapes'
  BY <1>1, <1>2, <1>3 DEF RecordsInv, Shapes, seals, Labels
<1>6. LockInv'
  BY <1>1, <1>3, <1>4 DEF RecordsInv, LockInv, AlertLabels
<1>7. TurnInv' /\ SealedInTurn'
  BY <1>1, <1>2, <1>3, NoSealPreserves DEF RecordsInv, Labels
<1>8. NothingAfterCloseNotify'
  BY <1>1 DEF RecordsInv, NothingAfterCloseNotify
<1>9. NotifyInv'
  <2>1. CASE Notified(k)
    <3>1. /\ pc'[k] = "expire" /\ closeNotifySent'
          /\ notice' = notice /\ deadline' = deadline
      BY <2>1, <1>3 DEF Notified, Goto, follow, RecordsInv, Shapes
    <3>2. \A j \in Closers : pc'[j] \notin {"seal", "incSeq", "send"}
      BY <3>1, <1>1, <1>3, <1>4 DEF RecordsInv, LockInv, AlertLabels
    <3>3. QED
      BY <3>1, <3>2, <1>3, <1>4 DEF RecordsInv, NotifyInv
  <2>2. CASE Expire(k)
    <3>1. /\ pc'[k] = "unlock" /\ notice' = "final" /\ deadline' = "past"
          /\ closeNotifySent' = closeNotifySent /\ closeNotifySent
      BY <2>2, <1>3 DEF Expire, Goto, closing, RecordsInv, Shapes, NotifyInv
    <3>2. QED
      BY <3>1, <1>3, <1>4 DEF RecordsInv, NotifyInv
  <2>3. QED
    BY <2>1, <2>2
<1>10. QED
  BY <1>5, <1>6, <1>7, <1>8, <1>9 DEF RecordsInv

LEMMA NotifyReturnsPreserves ==
    ASSUME RecordsInv, NEW k \in Closers, NotifyReturns(k)
    PROVE  RecordsInv'
<1> USE RecordsAssumption
<1>1. /\ pc[k] = "unlock" /\ pc' = [pc EXCEPT ![k] = "idle"]
      /\ late' = late /\ UNCHANGED seals
      /\ UNCHANGED <<notice, deadline, closeNotifySent>>
  BY DEF NotifyReturns, Goto, follow, closing
<1>2. /\ Closers \subseteq Goroutines /\ Reader \in Goroutines
      /\ k \in Goroutines /\ k # Reader
  BY DEF Goroutines
<1>3. Shapes'
  BY <1>1, <1>2 DEF RecordsInv, Shapes, seals, Labels
<1>4. LockInv'
  <2>1. lock = k
    BY <1>1 DEF RecordsInv, LockInv, AlertLabels
  <2>2. /\ pc[Reader] \notin {"seal", "incSeq", "send"}
        /\ \A j \in Closers : j # k =>
              pc[j] \notin AlertLabels
    BY <2>1, <1>2 DEF RecordsInv, LockInv, AlertLabels
  <2>3. pc'[k] = "idle" /\ \A g \in Goroutines : g # k => pc'[g] = pc[g]
    BY <1>1, <1>2 DEF RecordsInv, Shapes
  <2>4. QED
    BY <2>2, <2>3, <1>2 DEF LockInv, AlertLabels
<1>5. TurnInv' /\ SealedInTurn'
  BY <1>1, <1>2, NoSealPreserves DEF RecordsInv, Labels
<1>6. pc'[k] = "idle" /\ \A h \in Goroutines : h # k => pc'[h] = pc[h]
  BY <1>1, <1>2 DEF RecordsInv, Shapes
<1>7. NotifyInv' /\ NothingAfterCloseNotify'
  BY <1>1, <1>2, <1>6, NotifyKept DEF RecordsInv, NothingAfterCloseNotify
<1>8. QED
  BY <1>3, <1>4, <1>5, <1>7 DEF RecordsInv

-----------------------------------------------------------------------------
(* Read and the deadline.                                                  *)

LEMMA LockForAlertPreserves ==
    ASSUME RecordsInv, LockForAlert
    PROVE  RecordsInv'
<1> USE RecordsAssumption
<1>1. /\ pc[Reader] = "lock" /\ pc' = [pc EXCEPT ![Reader] = "seal"]
      /\ lock = None /\ lock' = Reader
      /\ late' = late /\ UNCHANGED seals
      /\ UNCHANGED <<notice, deadline, closeNotifySent>>
  BY DEF LockForAlert, Goto, closing, wire, follow
<1>2. /\ Closers \subseteq Goroutines /\ Reader \in Goroutines
      /\ Reader \notin Closers
  BY DEF Goroutines
<1>3. Shapes'
  BY <1>1, <1>2 DEF RecordsInv, Shapes, seals, Labels
<1>4. LockInv'
  <2>1. \A j \in Closers : j # None /\ j # Reader
    BY DEF Goroutines
  <2>2. \A j \in Closers :
           pc[j] \notin AlertLabels
    BY <2>1, <1>1 DEF RecordsInv, LockInv, AlertLabels
  <2>3. \A j \in Closers : pc'[j] = pc[j]
    BY <2>1, <1>1, <1>2 DEF RecordsInv, Shapes
  <2>4. QED
    BY <2>2, <2>3, <1>1 DEF LockInv, AlertLabels
<1>5. TurnInv' /\ SealedInTurn'
  BY <1>1, <1>2, NoSealPreserves DEF RecordsInv, Labels
<1>6. NotifyInv' /\ NothingAfterCloseNotify'
  <2>1. \A j \in Closers : pc'[j] = pc[j]
    BY <1>1, <1>2 DEF RecordsInv, Shapes
  <2>2. QED
    BY <2>1, <1>1, NotifyKept DEF RecordsInv, NothingAfterCloseNotify
<1>7. QED
  BY <1>3, <1>4, <1>5, <1>6 DEF RecordsInv

\* What Read does with the records that come in touches nothing of c.out.
ReadSteps ==
    \/ Read \/ ReadRefused \/ Fetch \/ FetchEnds \/ FetchFails \/ DropRecord
    \/ EndRecord \/ TakeRecord \/ DecryptRest \/ ProcessRecord

LEMMA ReturnsTo ==
    ASSUME NEW r, NEW k, ReadReturns(r, k)
    PROVE  \E p \in {"idle", "lock", "readRecord", "decrypt", "process",
                     "panicked"} : pc' = [pc EXCEPT ![Reader] = p]
  BY DEF ReadReturns, Goto

LEMMA ReadStepsAreReaderOnly ==
    ASSUME Shapes, ReadSteps
    PROVE  ReaderOnly /\ pc[Reader] \notin {"seal", "incSeq", "send"}
<1> USE RecordsAssumption
<1> DEFINE Quiet == {"idle", "lock", "readRecord", "decrypt", "process",
                     "panicked"}
           Moves == \E p \in Quiet : pc' = [pc EXCEPT ![Reader] = p]
<1> HIDE DEF Moves
<1>1. ASSUME NEW r, NEW k, ReadReturns(r, k)
      PROVE  Moves
  BY <1>1, ReturnsTo DEF Moves
<1>2. ASSUME NEW p \in Quiet, Goto(Reader, p)
      PROVE  Moves
  BY <1>2 DEF Goto, Moves
<1>3. ASSUME NEW k, ReadRecordFails(k)
      PROVE  Moves
  BY <1>1, <1>3 DEF ReadRecordFails
<1>4. ReadRecordEnds => Moves
  BY <1>1 DEF ReadRecordEnds
<1>6. /\ pc' = pc \/ Moves
      /\ UNCHANGED outgoing
      /\ pc[Reader] \notin {"seal", "incSeq", "send"}
  <2>0. CASE Read
    BY <2>0, <1>2 DEF Read
  <2>1. CASE ReadRefused
    BY <2>1, <1>3, <1>4 DEF ReadRefused
  <2>2. CASE Fetch
    BY <2>2 DEF Fetch, Reading
  <2>3. CASE FetchEnds
    BY <2>3, <1>3, <1>4 DEF FetchEnds, Reading
  <2>4. CASE FetchFails
    BY <2>4, <1>3 DEF FetchFails, Reading
  <2>5. CASE DropRecord
    BY <2>5, <1>3 DEF DropRecord, Reading
  <2>6. CASE EndRecord
    BY <2>6, <1>3, <1>4 DEF EndRecord, Reading
  <2>7. CASE TakeRecord
    BY <2>7, <1>2 DEF TakeRecord, Reading
  <2>8. CASE DecryptRest
    BY <2>8, <1>1, <1>2 DEF DecryptRest
  <2>9. CASE ProcessRecord
    BY <2>9, <1>1, <1>2 DEF ProcessRecord
  <2>10. QED
    BY <2>0, <2>1, <2>2, <2>3, <2>4, <2>5, <2>6, <2>7, <2>8, <2>9 DEF ReadSteps
<1>7. QED
  BY <1>6 DEF ReaderOnly, Moves

LEMMA DeadlinePreserves ==
    ASSUME RecordsInv, SetWriteDeadline \/ DeadlinePasses
    PROVE  RecordsInv'
<1>1. /\ pc' = pc /\ lock' = lock /\ late' = late
      /\ closeNotifySent' = closeNotifySent /\ UNCHANGED seals
      /\ \/ notice' = notice /\ deadline' = "past"
         \/ notice' = IF notice = "final" THEN "reopened" ELSE notice
  BY DEF SetWriteDeadline, DeadlinePasses, closing, follow
<1>2. Shapes' /\ LockInv' /\ SealedInTurn' /\ NothingAfterCloseNotify'
  BY <1>1
  DEF RecordsInv, Shapes, LockInv, SealedInTurn, NothingAfterCloseNotify, seals
<1>3. TurnInv'
  BY <1>1 DEF RecordsInv, TurnInv, Sealing, seals
<1>4. NotifyInv'
  BY <1>1 DEF RecordsInv, NotifyInv
<1>5. QED
  BY <1>2, <1>3, <1>4 DEF RecordsInv

-----------------------------------------------------------------------------
(* The end of the stream.                                                  *)

\* EOF is kept, as long as Read has not failed before, only for one of the two
\* reasons; out of step with the records, Read has failed or panicked; and a
\* stream that has ended is not looked at again.
EndInv ==
    /\ TruthfulEnd
    /\ inErr = "eof" => peerClosed \/ ended = "clean" \/ outcome # None
    /\ ~aligned => outcome # None \/ pc[Reader] = "panicked"
    /\ ended = "clean" => inErr # None

\* What the proof needs of a step that is not one of Read's own.
EndKept ==
    /\ UNCHANGED <<inErr, outcome, peerClosed, ended, aligned>>
    /\ pc[Reader] = "panicked" => pc'[Reader] = "panicked"

LEMMA EndKeptPreserves ==
    ASSUME EndInv, EndKept
    PROVE  EndInv'
  BY DEF EndInv, EndKept, TruthfulEnd

\* A failure of readRecord.
LEMMA FailsPreserves ==
    ASSUME EndInv, NEW k, ReadRecordFails(k), peerClosed => peerClosed',
           ended = "clean" => ended' = "clean"
    PROVE  EndInv'
<1> USE RecordsAssumption
<1>1. /\ inErr' = "error" /\ aligned'
      /\ outcome' = IF outcome = None THEN "error" ELSE outcome
  BY DEF ReadRecordFails, Abandon, ReadReturns
<1>2. QED
  BY <1>1 DEF EndInv, TruthfulEnd

\* Its end, for one of the two reasons or after Read has failed.
LEMMA EndsPreserves ==
    ASSUME EndInv, ReadRecordEnds, peerClosed => peerClosed',
           ended = "clean" => ended' = "clean",
           peerClosed' \/ ended' = "clean" \/ outcome # None
    PROVE  EndInv'
<1> USE RecordsAssumption
<1>1. /\ inErr' = "eof" /\ aligned'
      /\ outcome' = IF outcome = None THEN "eof" ELSE outcome
  BY DEF ReadRecordEnds, Abandon, ReadReturns
<1>2. QED
  BY <1>1 DEF EndInv, TruthfulEnd

LEMMA ReadStepsKeepEnd ==
    ASSUME Shapes, EndInv, ReadSteps
    PROVE  EndInv'
<1> USE RecordsAssumption
<1>1. Reader \in Goroutines
  BY DEF Goroutines
<1>2. CASE Read
  <2>1. EndKept
    BY <1>2 DEF Read, EndKept, incoming, stream, return
  <2>2. QED
    BY <2>1, EndKeptPreserves
<1>3. CASE ReadRefused
  <2>1. peerClosed' = peerClosed /\ ended' = ended
    BY <1>3 DEF ReadRefused
  <2>2. CASE inErr = "eof"
    <3>1. ReadRecordEnds
      BY <1>3, <2>2 DEF ReadRefused
    <3>2. peerClosed' \/ ended' = "clean" \/ outcome # None
      BY <2>1, <2>2 DEF EndInv
    <3>3. QED
      BY <2>1, <3>1, <3>2, EndsPreserves
  <2>3. CASE inErr # "eof"
    BY <1>3, <2>1, <2>3, FailsPreserves DEF ReadRefused
  <2>4. QED
    BY <2>2, <2>3
<1>4. CASE Fetch
  <2>1. EndKept
    BY <1>4 DEF Fetch, EndKept, return
  <2>2. QED
    BY <2>1, EndKeptPreserves
<1>5. CASE FetchEnds
  <2>1. peerClosed' = peerClosed /\ inErr = None /\ pc[Reader] = "readRecord"
    BY <1>5 DEF FetchEnds, Reading
  <2>2. ended # "clean"
    BY <2>1 DEF EndInv
  <2>3. CASE partial
    BY <1>5, <2>1, <2>2, <2>3, FailsPreserves DEF FetchEnds
  <2>4. CASE ~partial
    <3>1. ReadRecordEnds
      BY <1>5, <2>4 DEF FetchEnds
    <3>2. ended' = "clean" \/ outcome # None
      BY <1>5, <2>1, <2>4 DEF FetchEnds, StreamEnds, EndInv
    <3>3. QED
      BY <2>1, <2>2, <3>1, <3>2, EndsPreserves
  <2>5. QED
    BY <2>3, <2>4
<1>6. CASE FetchFails
  BY <1>6, FailsPreserves DEF FetchFails
<1>7. CASE DropRecord
  <2>1. peerClosed' = peerClosed /\ ended' = ended
    BY <1>7 DEF DropRecord
  <2>2. CASE retryCount = MaxUseless
    BY <1>7, <2>1, <2>2, FailsPreserves DEF DropRecord
  <2>3. CASE retryCount # MaxUseless
    <3>1. EndKept
      BY <1>7, <2>1, <2>3 DEF DropRecord, EndKept, return
    <3>2. QED
      BY <3>1, EndKeptPreserves
  <2>4. QED
    BY <2>2, <2>3
<1>8. CASE EndRecord
  <2>1. ended' = ended
    BY <1>8 DEF EndRecord
  <2>2. PICK kind \in Kinds :
          /\ \/ ReadRecordFails(1)
             \/ kind = "close" /\ ReadRecordEnds
             \/ ReadRecordFails(0)
          /\ peerClosed' = (peerClosed \/ kind = "close")
    BY <1>8 DEF EndRecord
  <2>3. peerClosed => peerClosed'
    BY <2>2
  <2>4. kind = "close" => peerClosed'
    BY <2>2
  <2>5. QED
    BY <2>1, <2>2, <2>3, <2>4, FailsPreserves, EndsPreserves
<1>9. CASE TakeRecord
  <2>1. EndKept
    BY <1>9 DEF TakeRecord, EndKept, return, Reading
  <2>2. QED
    BY <2>1, EndKeptPreserves
<1>10. CASE DecryptRest
  <2>1. /\ inErr' = inErr /\ ended' = ended /\ pc[Reader] = "decrypt"
        /\ aligned' = (aligned /\ ~partial)
    BY <1>10 DEF DecryptRest
  <2>2. \/ /\ Goto(Reader, "panicked") /\ UNCHANGED <<outcome, peerClosed>>
        \/ /\ ReadReturns("error", 1) \/ ReadReturns("error", 0)
           /\ peerClosed' = peerClosed
        \/ ~partial /\ ReadReturns("eof", 0) /\ peerClosed' = TRUE
        \/ ~partial /\ UNCHANGED <<outcome, peerClosed>>
    BY <1>10 DEF DecryptRest, return
  <2>3. CASE Goto(Reader, "panicked") /\ UNCHANGED <<outcome, peerClosed>>
    <3>1. pc'[Reader] = "panicked"
      BY <2>3, <1>1 DEF Goto, Shapes
    <3>2. QED
      BY <2>1, <2>3, <3>1 DEF EndInv, TruthfulEnd
  <2>4. CASE /\ ReadReturns("error", 1) \/ ReadReturns("error", 0)
             /\ peerClosed' = peerClosed
    <3>1. outcome' = IF outcome = None THEN "error" ELSE outcome
      BY <2>4 DEF ReadReturns
    <3>2. QED
      BY <2>1, <2>4, <3>1 DEF EndInv, TruthfulEnd
  <2>5. CASE ~partial /\ ReadReturns("eof", 0) /\ peerClosed' = TRUE
    <3>1. outcome' = IF outcome = None THEN "eof" ELSE outcome
      BY <2>5 DEF ReadReturns
    <3>2. QED
      BY <2>1, <2>5, <3>1 DEF EndInv, TruthfulEnd
  <2>6. CASE ~partial /\ UNCHANGED <<outcome, peerClosed>>
    BY <2>1, <2>6 DEF EndInv, TruthfulEnd
  <2>7. QED
    BY <2>2, <2>3, <2>4, <2>5, <2>6
<1>11. CASE ProcessRecord
  <2>1. /\ UNCHANGED <<inErr, peerClosed, ended, aligned>>
        /\ pc[Reader] = "process"
        /\ outcome' = outcome \/ (outcome = None /\ outcome' = "error")
    BY <1>11 DEF ProcessRecord, ReadReturns, stream, return
  <2>2. QED
    BY <2>1 DEF EndInv, TruthfulEnd
<1>12. QED
  BY <1>2, <1>3, <1>4, <1>5, <1>6, <1>7, <1>8, <1>9, <1>10, <1>11 DEF ReadSteps

\* The steps that are not Read's, and those in which it sends an alert.
LEMMA OthersKeepEnd ==
    ASSUME Shapes, [Next]_vars, ~ReadSteps
    PROVE  EndKept
<1> USE RecordsAssumption
<1>1. Reader \in Goroutines
  BY DEF Goroutines
<1>2. ASSUME NEW g \in Goroutines, SealAndFail(g) \/ Transmit(g)
      PROVE  EndKept
  <2>1. UNCHANGED <<inErr, outcome, peerClosed, ended, aligned>>
    BY <1>2 DEF SealAndFail, Seal, incSeq, Transmit, TransmitFails, incoming,
                stream, return
  <2>2. pc[g] # "panicked" /\ \E p : pc' = [pc EXCEPT ![g] = p]
    <3>1. CASE Seal(g)
      BY <3>1 DEF Seal, Goto
    <3>2. CASE incSeq(g)
      BY <3>2 DEF incSeq, Goto
    <3>3. CASE TransmitFails(g)
      BY <3>3 DEF TransmitFails, Sent, Goto
    <3>4. CASE Transmit(g)
      BY <3>4 DEF Transmit, Sent, Goto
    <3>5. QED
      BY <1>2, <3>1, <3>2, <3>3, <3>4 DEF SealAndFail
  <2>3. pc[Reader] = "panicked" => pc'[Reader] = "panicked"
    BY <2>2, <1>1 DEF Shapes
  <2>4. QED
    BY <2>1, <2>3 DEF EndKept
<1>3. ASSUME NEW w \in Writers, Write(w)
      PROVE  EndKept
  BY <1>1, <1>3 DEF Write, Goto, EndKept, Shapes, incoming, stream, return
<1>4. ASSUME NEW k \in Closers,
             \/ Close(k) \/ CloseWrite(k) \/ closeNotify(k) \/ Notified(k)
             \/ Expire(k) \/ NotifyReturns(k)
      PROVE  EndKept
  <2>1. UNCHANGED <<inErr, outcome, peerClosed, ended, aligned>>
    BY <1>4
    DEF Close, CloseWrite, closeNotify, Notified, Expire, NotifyReturns,
        incoming, stream, return
  <2>2. \E p : pc' = [pc EXCEPT ![k] = p]
    BY <1>4
    DEF Close, CloseWrite, closeNotify, Notified, Expire, NotifyReturns, Goto
  <2>3. pc'[Reader] = pc[Reader]
    BY <2>2, <1>1 DEF Shapes
  <2>4. QED
    BY <2>1, <2>3 DEF EndKept
<1>5. CASE LockForAlert
  BY <1>5, <1>1 DEF LockForAlert, EndKept, incoming, stream, return
<1>6. CASE SetWriteDeadline \/ DeadlinePasses
  BY <1>6 DEF SetWriteDeadline, DeadlinePasses, EndKept, incoming, stream, return
<1>7. CASE UNCHANGED vars
  BY <1>7 DEF vars, EndKept, incoming, stream, return
<1>8. Writers \subseteq Goroutines /\ Closers \subseteq Goroutines
  BY DEF Goroutines
<1>9. QED
  BY <1>1, <1>2, <1>3, <1>4, <1>5, <1>6, <1>7, <1>8
  DEF Next, WriterNext, CloserNext, ReaderNext, ReadSteps

-----------------------------------------------------------------------------
(* The theorems.                                                           *)

\* RecordsInv holds when the handshake has ended.
LEMMA InitEstablishes ==
    Init => RecordsInv
<1> SUFFICES ASSUME Init PROVE RecordsInv
  OBVIOUS
<1> USE RecordsAssumption
<1>1. \A g \in Goroutines : pc[g] = "idle"
  BY DEF Init
<1>2. Closers \subseteq Goroutines /\ Reader \in Goroutines
  BY DEF Goroutines
<1>3. Shapes
  BY DEF Init, Shapes, Labels
<1>4. LockInv
  BY <1>1, <1>2 DEF LockInv, AlertLabels
<1>5. TurnInv
  BY <1>1 DEF TurnInv, Sealing, Init
<1>6. NotifyInv
  BY <1>1, <1>2 DEF NotifyInv, Init
<1>7. QED
  BY <1>3, <1>4, <1>5, <1>6
  DEF RecordsInv, Init, SealedInTurn, NothingAfterCloseNotify

\* Every step preserves it.
LEMMA NextPreserves ==
    RecordsInv /\ [Next]_vars => RecordsInv'
<1> SUFFICES ASSUME RecordsInv, [Next]_vars PROVE RecordsInv'
  OBVIOUS
<1>1. Writers \cup Closers \cup {Reader} = Goroutines
  BY DEF Goroutines
<1>2. ASSUME NEW g \in Goroutines, SealAndFail(g) \/ Transmit(g)
      PROVE  RecordsInv'
  BY <1>2, SealPreserves, IncSeqPreserves, TransmitPreserves,
     TransmitFailsPreserves DEF SealAndFail
<1>3. ASSUME NEW w \in Writers, WriterNext(w)
      PROVE  RecordsInv'
  BY <1>1, <1>2, <1>3, WritePreserves DEF WriterNext
<1>4. ASSUME NEW k \in Closers, Close(k) \/ CloseWrite(k) \/ CloserNext(k)
      PROVE  RecordsInv'
  BY <1>1, <1>2, <1>4, CallPreserves, CloseNotifyPreserves, NotifiedPreserves,
     NotifyReturnsPreserves DEF CloserNext
<1>5. ASSUME Read \/ ReaderNext
      PROVE  RecordsInv'
  <2>1. CASE ReadSteps
    BY <2>1, ReadStepsAreReaderOnly, ReaderOnlyPreserves DEF RecordsInv
  <2>2. CASE LockForAlert
    BY <2>2, LockForAlertPreserves
  <2>3. CASE SealAndFail(Reader)
    BY <2>3, <1>1, <1>2
  <2>4. QED
    BY <1>5, <2>1, <2>2, <2>3 DEF ReaderNext, ReadSteps
<1>6. CASE UNCHANGED vars
  <2>1. /\ pc' = pc /\ lock' = lock /\ late' = late /\ notice' = notice
        /\ deadline' = deadline /\ closeNotifySent' = closeNotifySent
        /\ seq' = seq /\ tmp' = tmp /\ sealed' = sealed /\ inTurn' = inTurn
        /\ raced' = raced
    BY <1>6 DEF vars, outgoing, seals, wire, follow, closing
  <2>2. QED
    BY <2>1 DEF RecordsInv, Shapes, LockInv, TurnInv, Sealing, NotifyInv,
                SealedInTurn, NothingAfterCloseNotify
<1>7. QED
  BY <1>2, <1>3, <1>4, <1>5, <1>6, DeadlinePreserves DEF Next

\* The records that Read's alerts and close_notify seal, and those of a Write
\* that meets nobody, take consecutive sequence numbers, however many
\* goroutines there are (conn.go 478-562, 816-840, 1444-1457).
THEOREM AlertsInTurn == Spec => []SealedInTurn
<1>1. RecordsInv => SealedInTurn
  BY DEF RecordsInv
<1>2. QED
  BY <1>1, InitEstablishes, NextPreserves, PTL DEF Spec

\* The transport takes one close_notify, no alert of Read between it and the
\* deadline of conn.go 1454, and from then on no record of anybody until the
\* application sets another deadline, however many goroutines close and
\* write.  Writes before that deadline, or after another, are not excluded:
\* Write does not ask whether close_notify was sent (conn.go 1444-1457).
THEOREM CloseNotifyOnceAndLast == Spec => []NothingAfterCloseNotify
<1>1. RecordsInv => NothingAfterCloseNotify
  BY DEF RecordsInv
<1>2. QED
  BY <1>1, InitEstablishes, NextPreserves, PTL DEF Spec

\* Read reports the end of the stream, before any failure, only after the
\* peer's close_notify or a stream that ended with a whole record
\* (conn.go 619-631, 696-718, 1338-1393).
THEOREM EndsAreTrue == Spec => []TruthfulEnd
<1>1. Init => EndInv
  BY RecordsAssumption DEF Init, EndInv, TruthfulEnd
<1>2. RecordsInv /\ EndInv /\ [Next]_vars => EndInv'
  BY ReadStepsKeepEnd, OthersKeepEnd, EndKeptPreserves DEF RecordsInv
<1>3. EndInv => TruthfulEnd
  BY DEF EndInv
<1>4. QED
  BY <1>1, <1>2, <1>3, InitEstablishes, NextPreserves, PTL DEF Spec

=============================================================================
