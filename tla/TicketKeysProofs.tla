--------------------------- MODULE TicketKeysProofs ---------------------------
(***************************************************************************)
(* Proofs about the session ticket keys, for any number of connections and *)
(* of goroutines that set keys.                                            *)
(***************************************************************************)
EXTENDS TicketKeys, FiniteSetTheorems, SequenceTheorems, WellFoundedInduction,
        TLAPS

\* Where a goroutine can be.
Labels ==
    {"idle", "rlock", "look", "initLock", "init", "relock", "choose",
     "rotateLock", "rotate", "final", "setLock", "set"}

\* The labels at which a goroutine has a read lock.
ReadLocked == {"look", "choose"}

Shapes ==
    /\ pc \in [Procs -> Labels] /\ at \in [Procs -> Configs]
    /\ readers \in [Configs -> Int] /\ lost \in [Configs -> Nat]

LockInv == Shapes /\ LocksBalanced

-----------------------------------------------------------------------------
(* The goroutines at a Config's read lock, and the count of it.            *)

LEMMA ReadingFinite ==
    ASSUME NEW c
    PROVE  IsFiniteSet(Reading(c)) /\ Cardinality(Reading(c)) \in Nat
<1>1. Reading(c) \subseteq Procs
  BY DEF Reading
<1>2. IsFiniteSet(Reading(c))
  BY <1>1, FS_Subset, TicketAssumption
<1>3. QED
  BY <1>2, FS_CardinalityType

\* g takes the read lock of the Config it is at.
LEMMA JoinsBalanced ==
    ASSUME LockInv, NEW g \in Procs, pc[g] \notin ReadLocked,
           NEW p \in ReadLocked, pc' = [pc EXCEPT ![g] = p], at' = at,
           readers' = [readers EXCEPT ![at[g]] = @ + 1], lost' = lost,
           disabled' = disabled
    PROVE  LockInv'
<1>1. Shapes'
  BY DEF LockInv, Shapes, Labels, ReadLocked
<1>2. ASSUME NEW c \in Configs
      PROVE  readers'[c] = Cardinality(Reading(c)') + lost'[c]
  <2>1. readers[c] = Cardinality(Reading(c)) + lost[c]
    BY DEF LockInv, LocksBalanced
  <2>2. CASE c = at[g]
    <3>1. Reading(c)' = Reading(c) \cup {g} /\ g \notin Reading(c)
      BY <2>2 DEF LockInv, Shapes, Reading, ReadLocked
    <3>2. Cardinality(Reading(c)') = Cardinality(Reading(c)) + 1
      BY <3>1, ReadingFinite, FS_AddElement
    <3>3. readers'[c] = readers[c] + 1
      BY <2>2 DEF LockInv, Shapes
    <3>4. QED
      BY <2>1, <3>2, <3>3, ReadingFinite DEF LockInv, Shapes
  <2>3. CASE c # at[g]
    <3>1. Reading(c)' = Reading(c)
      BY <2>3 DEF LockInv, Shapes, Reading
    <3>2. readers'[c] = readers[c]
      BY <2>3 DEF LockInv, Shapes
    <3>3. QED
      BY <2>1, <3>1, <3>2
  <2>4. QED
    BY <2>2, <2>3
<1>3. \A c \in Configs : lost'[c] > 0 => c = ForClient /\ c \in disabled'
  BY DEF LockInv, LocksBalanced
<1>4. QED
  BY <1>1, <1>2, <1>3 DEF LockInv, LocksBalanced

\* g gives the read lock back, or leaves it behind on a ForClient with
\* tickets disabled.
LEMMA LeavesBalanced ==
    ASSUME LockInv, NEW g \in Procs, pc[g] \in ReadLocked,
           NEW p \in Labels \ ReadLocked, pc' = [pc EXCEPT ![g] = p],
           NEW a \in Configs, at' = [at EXCEPT ![g] = a], disabled' = disabled,
           \/ readers' = [readers EXCEPT ![at[g]] = @ - 1] /\ lost' = lost
           \/ /\ readers' = readers /\ lost' = [lost EXCEPT ![at[g]] = @ + 1]
              /\ at[g] = ForClient /\ ForClient \in disabled
    PROVE  LockInv'
<1>1. Shapes'
  BY DEF LockInv, Shapes
<1>2. ASSUME NEW c \in Configs
      PROVE  readers'[c] = Cardinality(Reading(c)') + lost'[c]
  <2>1. readers[c] = Cardinality(Reading(c)) + lost[c]
    BY DEF LockInv, LocksBalanced
  <2>2. readers[c] \in Int /\ lost[c] \in Nat
    BY DEF LockInv, Shapes
  <2>3. CASE c = at[g]
    <3>1. Reading(c)' = Reading(c) \ {g} /\ g \in Reading(c)
      BY <2>3 DEF LockInv, Shapes, Reading, ReadLocked
    <3>2. Cardinality(Reading(c)') = Cardinality(Reading(c)) - 1
      BY <3>1, ReadingFinite, FS_RemoveElement
    <3>3. \/ readers'[c] = readers[c] - 1 /\ lost'[c] = lost[c]
          \/ readers'[c] = readers[c] /\ lost'[c] = lost[c] + 1
      BY <2>3 DEF LockInv, Shapes
    <3>4. QED
      BY <2>1, <2>2, <3>2, <3>3, ReadingFinite
  <2>4. CASE c # at[g]
    <3>1. Reading(c)' = Reading(c)
      BY <2>4 DEF LockInv, Shapes, Reading, ReadLocked
    <3>2. readers'[c] = readers[c] /\ lost'[c] = lost[c]
      BY <2>4 DEF LockInv, Shapes
    <3>3. QED
      BY <2>1, <3>1, <3>2
  <2>5. QED
    BY <2>3, <2>4
<1>3. \A c \in Configs : lost'[c] > 0 => c = ForClient /\ c \in disabled'
  BY DEF LockInv, LocksBalanced, Shapes
<1>4. QED
  BY <1>1, <1>2, <1>3 DEF LockInv, LocksBalanced

\* g has a read lock before and after the step, or neither.
LEMMA StaysBalanced ==
    ASSUME LockInv, NEW g \in Procs, NEW p \in Labels,
           pc[g] \in ReadLocked <=> p \in ReadLocked,
           pc' = [pc EXCEPT ![g] = p],
           NEW a \in Configs, at' = [at EXCEPT ![g] = a],
           p \in ReadLocked => a = at[g],
           readers' = readers, lost' = lost, disabled' = disabled
    PROVE  LockInv'
<1>1. Shapes'
  BY DEF LockInv, Shapes
<1>2. \A c : Reading(c)' = Reading(c)
  BY DEF LockInv, Shapes, Reading, ReadLocked
<1>3. QED
  BY <1>1, <1>2 DEF LockInv, LocksBalanced

-----------------------------------------------------------------------------

\* Every step of a goroutine keeps the balance.
LEMMA StepBalanced ==
    ASSUME LockInv, NEW g \in Procs, Step(g)
    PROVE  LockInv'
<1> USE DEF Labels, ReadLocked
<1>1. Main \in Configs /\ ForClient \in Configs /\ at[g] \in Configs
  BY DEF Configs, LockInv, Shapes
<1>2. at = [at EXCEPT ![g] = at[g]]
  BY DEF LockInv, Shapes
<1>3. CASE Lock(g)
  <2>1. PICK p \in {"init", "rotate", "set"} : pc' = [pc EXCEPT ![g] = p]
    BY <1>3 DEF Lock, GoTo
  <2>2. /\ pc[g] \in {"initLock", "rotateLock", "setLock"} /\ at' = at
        /\ readers' = readers /\ lost' = lost /\ disabled' = disabled
    BY <1>3 DEF Lock, GoTo, data
  <2>3. QED
    BY <1>1, <1>2, <2>1, <2>2, StaysBalanced
<1>4. CASE RLock(g)
  <2>1. PICK p \in ReadLocked : pc' = [pc EXCEPT ![g] = p]
    BY <1>4 DEF RLock, GoTo
  <2>2. /\ pc[g] \in {"rlock", "relock"} /\ at' = at
        /\ readers' = [readers EXCEPT ![at[g]] = @ + 1]
        /\ lost' = lost /\ disabled' = disabled
    BY <1>4 DEF RLock, RLocks, GoTo, data
  <2>3. QED
    BY <2>1, <2>2, JoinsBalanced
<1>5. CASE ReturnsDisabled(g)
  <2>1. /\ pc[g] = "look" /\ pc' = [pc EXCEPT ![g] = "idle"]
        /\ at' = [at EXCEPT ![g] = Main] /\ disabled' = disabled
    BY <1>5 DEF ReturnsDisabled, Return, data
  <2>2. \/ readers' = [readers EXCEPT ![at[g]] = @ - 1] /\ lost' = lost
        \/ /\ readers' = readers /\ lost' = [lost EXCEPT ![at[g]] = @ + 1]
           /\ at[g] = ForClient /\ ForClient \in disabled
    BY <1>5 DEF ReturnsDisabled, RUnlocks
  <2>3. QED
    BY <1>1, <2>1, <2>2, LeavesBalanced
<1>6. CASE LegacyMissing(g)
  <2>1. /\ pc[g] = "look" /\ pc' = [pc EXCEPT ![g] = "initLock"] /\ at' = at
        /\ readers' = [readers EXCEPT ![at[g]] = @ - 1]
        /\ lost' = lost /\ disabled' = disabled
    BY <1>6 DEF LegacyMissing, RUnlocks, GoTo, data
  <2>2. QED
    BY <1>1, <1>2, <2>1, LeavesBalanced
<1>7. CASE LegacyThere(g)
  <2>1. /\ pc[g] = "look" /\ pc' = [pc EXCEPT ![g] = "choose"] /\ at' = at
        /\ readers' = readers /\ lost' = lost /\ disabled' = disabled
    BY <1>7 DEF LegacyThere, GoTo, data
  <2>2. QED
    BY <1>1, <1>2, <2>1, StaysBalanced
<1>8. CASE InitLegacy(g)
  <2>1. /\ pc[g] = "init" /\ pc' = [pc EXCEPT ![g] = "relock"] /\ at' = at
        /\ readers' = readers /\ lost' = lost /\ disabled' = disabled
    BY <1>8 DEF InitLegacy, WritesAlone, GoTo
  <2>2. QED
    BY <1>1, <1>2, <2>1, StaysBalanced
<1>9. CASE UsesSetKeys(g)
  <2>1. /\ pc[g] = "choose" /\ pc' = [pc EXCEPT ![g] = "idle"]
        /\ at' = [at EXCEPT ![g] = Main]
        /\ readers' = [readers EXCEPT ![at[g]] = @ - 1]
        /\ lost' = lost /\ disabled' = disabled
    BY <1>9 DEF UsesSetKeys, RUnlocks, Return, data
  <2>2. QED
    BY <1>1, <2>1, LeavesBalanced
<1>10. CASE FallsBack(g)
  <2>1. /\ pc[g] = "choose" /\ pc' = [pc EXCEPT ![g] = "rlock"]
        /\ at' = [at EXCEPT ![g] = Main]
        /\ readers' = [readers EXCEPT ![at[g]] = @ - 1]
        /\ lost' = lost /\ disabled' = disabled
    BY <1>10 DEF FallsBack, RUnlocks, data
  <2>2. QED
    BY <1>1, <2>1, LeavesBalanced
<1>11. CASE UsesAutoKeys(g)
  <2>1. /\ pc[g] = "choose" /\ pc' = [pc EXCEPT ![g] = "idle"]
        /\ at' = [at EXCEPT ![g] = Main]
        /\ readers' = [readers EXCEPT ![at[g]] = @ - 1]
        /\ lost' = lost /\ disabled' = disabled
    BY <1>11 DEF UsesAutoKeys, RUnlocks, Return
  <2>2. QED
    BY <1>1, <2>1, LeavesBalanced
<1>12. CASE WantsRotation(g)
  <2>1. /\ pc[g] = "choose" /\ pc' = [pc EXCEPT ![g] = "rotateLock"]
        /\ at' = at /\ readers' = [readers EXCEPT ![at[g]] = @ - 1]
        /\ lost' = lost /\ disabled' = disabled
    BY <1>12 DEF WantsRotation, RUnlocks, GoTo, data
  <2>2. QED
    BY <1>1, <1>2, <2>1, LeavesBalanced
<1>13. CASE Rotate(g)
  <2>1. /\ pc[g] = "rotate" /\ pc' = [pc EXCEPT ![g] = "final"] /\ at' = at
        /\ readers' = readers /\ lost' = lost /\ disabled' = disabled
    BY <1>13 DEF Rotate, WritesAlone, GoTo
  <2>2. QED
    BY <1>1, <1>2, <2>1, StaysBalanced
<1>14. CASE ReturnsRotated(g)
  <2>1. /\ pc[g] = "final" /\ pc' = [pc EXCEPT ![g] = "idle"]
        /\ at' = [at EXCEPT ![g] = Main]
        /\ readers' = readers /\ lost' = lost /\ disabled' = disabled
    BY <1>14 DEF ReturnsRotated, Return, data
  <2>2. QED
    BY <1>1, <2>1, StaysBalanced
<1>15. CASE SetSessionTicketKeys(g)
  <2>1. /\ pc[g] = "set" /\ pc' = [pc EXCEPT ![g] = "idle"]
        /\ at' = [at EXCEPT ![g] = Main]
        /\ readers' = readers /\ lost' = lost /\ disabled' = disabled
    BY <1>15 DEF SetSessionTicketKeys, WritesAlone, Return
  <2>2. QED
    BY <1>1, <2>1, StaysBalanced
<1>16. QED
  BY <1>3, <1>4, <1>5, <1>6, <1>7, <1>8, <1>9, <1>10, <1>11, <1>12, <1>13,
     <1>14, <1>15 DEF Step

LEMMA EnterBalanced ==
    ASSUME LockInv, NEW g \in Procs, NEW c \in Configs,
           NEW p \in {"rlock", "setLock"}, Enter(g, c, p)
    PROVE  LockInv'
<1>1. /\ pc[g] = "idle" /\ pc' = [pc EXCEPT ![g] = p]
      /\ at' = [at EXCEPT ![g] = c]
      /\ readers' = readers /\ lost' = lost /\ disabled' = disabled
  BY DEF Enter, data
<1>2. QED
  BY <1>1, StaysBalanced DEF Labels, ReadLocked

LEMMA InitLocks ==
    Init => LockInv
<1> SUFFICES ASSUME Init PROVE LockInv
  OBVIOUS
<1>1. Main \in Configs
  BY DEF Configs
<1>2. Shapes
  BY <1>1 DEF Init, Shapes, Labels
<1>3. \A c : Reading(c) = {}
  BY DEF Init, Reading
<1>4. LocksBalanced
  <2>1. \A c : Cardinality(Reading(c)) = 0
    BY <1>3, FS_EmptySet
  <2>2. \A c \in Configs : readers[c] = 0 /\ lost[c] = 0
    BY DEF Init
  <2>3. QED
    BY <2>1, <2>2 DEF LocksBalanced
<1>5. QED
  BY <1>2, <1>4 DEF LockInv

LEMMA NextLocks ==
    LockInv /\ [Next]_vars => LockInv'
<1> SUFFICES ASSUME LockInv, [Next]_vars PROVE LockInv'
  OBVIOUS
<1>1. CASE Tick \/ UNCHANGED vars
  <2>1. /\ pc' = pc /\ at' = at /\ readers' = readers /\ lost' = lost
        /\ disabled' = disabled
    BY <1>1 DEF Tick, vars
  <2>2. \A c : Reading(c)' = Reading(c)
    BY <2>1 DEF Reading
  <2>3. QED
    BY <2>1, <2>2 DEF LockInv, Shapes, LocksBalanced
<1>2. Conns \subseteq Procs /\ Setters \subseteq Procs
  BY DEF Procs
<1>3. QED
  BY <1>1, <1>2, StepBalanced, EnterBalanced DEF Next

\* Whoever gives up a read lock in the middle of ticketKeys takes it again
\* before the deferred RUnlock, and only a ForClient with tickets disabled
\* keeps one (common.go 828-917).
THEOREM BalancedLocks == Spec => []LocksBalanced
<1>1. LockInv => LocksBalanced
  BY DEF LockInv
<1>2. QED
  BY <1>1, InitLocks, NextLocks, PTL DEF Spec

-----------------------------------------------------------------------------
(* Who holds or awaits the write lock, and that somebody can go on.        *)

\* The labels at which a goroutine has queued up for the write lock and been
\* the first, and those that only ticketKeys of Main leads to.
WriteLocked == {"init", "rotate", "set"}
OnlyMain == {"rotateLock", "rotate", "final"}

WriterInv ==
    /\ writer \in [Configs -> Procs \cup {Free}]
    /\ \A c \in Configs :
          writer[c] # Free => at[writer[c]] = c /\ pc[writer[c]] \in WriteLocked
    /\ \A g \in Procs : pc[g] \in WriteLocked => writer[at[g]] = g
    /\ \A g \in Procs : pc[g] \in OnlyMain => at[g] = Main

\* g becomes the writer of the Config it is at.
LEMMA JoinsWriter ==
    ASSUME Shapes, WriterInv, NEW g \in Procs, writer[at[g]] = Free,
           NEW p \in WriteLocked, p \in OnlyMain => at[g] = Main,
           pc[g] \notin WriteLocked, pc' = [pc EXCEPT ![g] = p], at' = at,
           writer' = [writer EXCEPT ![at[g]] = g]
    PROVE  WriterInv'
<1>1. at[g] \in Configs /\ g # Free
  BY TicketAssumption DEF Shapes
<1>2. writer' \in [Configs -> Procs \cup {Free}]
  BY <1>1 DEF WriterInv
<1>3. ASSUME NEW c \in Configs, writer'[c] # Free
      PROVE  at'[writer'[c]] = c /\ pc'[writer'[c]] \in WriteLocked
  BY <1>1, <1>3 DEF WriterInv, Shapes
<1>4. ASSUME NEW h \in Procs, pc'[h] \in WriteLocked
      PROVE  writer'[at'[h]] = h
  BY <1>1, <1>4, TicketAssumption DEF WriterInv, Shapes
<1>5. ASSUME NEW h \in Procs, pc'[h] \in OnlyMain PROVE at'[h] = Main
  BY <1>5 DEF WriterInv, Shapes
<1>6. QED
  BY <1>2, <1>3, <1>4, <1>5 DEF WriterInv

\* g has written and unlocks.
LEMMA LeavesWriter ==
    ASSUME Shapes, WriterInv, NEW g \in Procs, WritesAlone(g), NEW p \in Labels,
           p \notin WriteLocked, NEW a \in Configs, p \in OnlyMain => a = Main,
           pc' = [pc EXCEPT ![g] = p], at' = [at EXCEPT ![g] = a]
    PROVE  WriterInv'
<1>1. /\ at[g] \in Configs /\ writer[at[g]] = g
      /\ writer' = [writer EXCEPT ![at[g]] = Free]
  BY DEF Shapes, WritesAlone
<1>2. writer' \in [Configs -> Procs \cup {Free}]
  BY <1>1 DEF WriterInv
<1>3. ASSUME NEW c \in Configs, writer'[c] # Free
      PROVE  at'[writer'[c]] = c /\ pc'[writer'[c]] \in WriteLocked
  <2>1. c # at[g] /\ writer'[c] = writer[c] /\ at[writer[c]] = c
    BY <1>1, <1>3 DEF WriterInv
  <2>2. writer[c] \in Procs \ {g}
    BY <1>3, <2>1 DEF WriterInv
  <2>3. QED
    BY <1>3, <2>1, <2>2 DEF WriterInv, Shapes
<1>4. ASSUME NEW h \in Procs, pc'[h] \in WriteLocked
      PROVE  writer'[at'[h]] = h
  <2>1. h # g /\ pc'[h] = pc[h] /\ at'[h] = at[h]
    BY <1>4 DEF Shapes
  <2>2. writer[at[h]] = h /\ at[h] \in Configs
    BY <1>4, <2>1 DEF WriterInv, Shapes
  <2>3. at[h] # at[g]
    BY <1>1, <2>1, <2>2
  <2>4. QED
    BY <1>1, <2>1, <2>2, <2>3 DEF WriterInv
<1>5. ASSUME NEW h \in Procs, pc'[h] \in OnlyMain PROVE at'[h] = Main
  BY <1>5 DEF WriterInv, Shapes
<1>6. QED
  BY <1>2, <1>3, <1>4, <1>5 DEF WriterInv

\* g is no writer before and after the step.
LEMMA StaysReader ==
    ASSUME Shapes, WriterInv, NEW g \in Procs, NEW p \in Labels \ WriteLocked,
           NEW a \in Configs, p \in OnlyMain => a = Main,
           pc[g] \notin WriteLocked, pc' = [pc EXCEPT ![g] = p],
           at' = [at EXCEPT ![g] = a], writer' = writer
    PROVE  WriterInv'
<1>1. ASSUME NEW c \in Configs, writer[c] # Free PROVE writer[c] \in Procs \ {g}
  BY <1>1 DEF WriterInv
<1>2. ASSUME NEW c \in Configs, writer'[c] # Free
      PROVE  at'[writer'[c]] = c /\ pc'[writer'[c]] \in WriteLocked
  BY <1>1, <1>2 DEF WriterInv, Shapes
<1>3. ASSUME NEW h \in Procs, pc'[h] \in WriteLocked
      PROVE  writer'[at'[h]] = h
  BY <1>3 DEF WriterInv, Shapes
<1>4. ASSUME NEW h \in Procs, pc'[h] \in OnlyMain PROVE at'[h] = Main
  BY <1>4 DEF WriterInv, Shapes
<1>5. QED
  BY <1>2, <1>3, <1>4 DEF WriterInv

LEMMA StepWriter ==
    ASSUME Shapes, WriterInv, NEW g \in Procs, Step(g) PROVE WriterInv'
<1> USE DEF Labels, WriteLocked, OnlyMain
<1>1. Main \in Configs /\ at[g] \in Configs
  BY DEF Configs, Shapes
<1>2. at = [at EXCEPT ![g] = at[g]]
  BY DEF Shapes
<1>3. CASE Lock(g)
  <2>1. PICK p \in WriteLocked :
          /\ pc' = [pc EXCEPT ![g] = p]
          /\ p = "rotate" => pc[g] = "rotateLock"
    BY <1>3 DEF Lock, GoTo
  <2>2. /\ pc[g] \in {"initLock", "rotateLock", "setLock"} /\ at' = at
        /\ writer[at[g]] = Free /\ writer' = [writer EXCEPT ![at[g]] = g]
    BY <1>3 DEF Lock, GoTo
  <2>3. p \in OnlyMain => at[g] = Main
    BY <2>1 DEF WriterInv
  <2>4. QED
    BY <2>1, <2>2, <2>3, JoinsWriter
<1>4. CASE RLock(g)
  <2>1. PICK p \in {"look", "choose"} : pc' = [pc EXCEPT ![g] = p]
    BY <1>4 DEF RLock, GoTo
  <2>2. pc[g] \in {"rlock", "relock"} /\ at' = at /\ writer' = writer
    BY <1>4 DEF RLock, RLocks, GoTo
  <2>3. QED
    BY <1>1, <1>2, <2>1, <2>2, StaysReader
<1>5. CASE ReturnsDisabled(g) \/ UsesSetKeys(g) \/ UsesAutoKeys(g)
  <2>1. /\ pc[g] \in {"look", "choose"} /\ writer' = writer
        /\ pc' = [pc EXCEPT ![g] = "idle"] /\ at' = [at EXCEPT ![g] = Main]
    BY <1>5 DEF ReturnsDisabled, UsesSetKeys, UsesAutoKeys, RUnlocks, Return
  <2>2. QED
    BY <1>1, <2>1, StaysReader
<1>6. CASE LegacyMissing(g) \/ LegacyThere(g)
  <2>1. PICK p \in {"initLock", "choose"} : pc' = [pc EXCEPT ![g] = p]
    BY <1>6 DEF LegacyMissing, LegacyThere, GoTo
  <2>2. pc[g] = "look" /\ at' = at /\ writer' = writer
    BY <1>6 DEF LegacyMissing, LegacyThere, RUnlocks, GoTo
  <2>3. QED
    BY <1>1, <1>2, <2>1, <2>2, StaysReader
<1>7. CASE InitLegacy(g)
  <2>1. WritesAlone(g) /\ pc' = [pc EXCEPT ![g] = "relock"] /\ at' = at
    BY <1>7 DEF InitLegacy, GoTo
  <2>2. QED
    BY <1>1, <1>2, <2>1, LeavesWriter
<1>8. CASE FallsBack(g)
  <2>1. /\ pc[g] = "choose" /\ writer' = writer
        /\ pc' = [pc EXCEPT ![g] = "rlock"] /\ at' = [at EXCEPT ![g] = Main]
    BY <1>8 DEF FallsBack, RUnlocks
  <2>2. QED
    BY <1>1, <2>1, StaysReader
<1>9. CASE WantsRotation(g)
  <2>1. /\ pc[g] = "choose" /\ writer' = writer /\ at[g] = Main
        /\ pc' = [pc EXCEPT ![g] = "rotateLock"] /\ at' = at
    BY <1>9 DEF WantsRotation, RUnlocks, GoTo
  <2>2. QED
    BY <1>1, <1>2, <2>1, StaysReader
<1>10. CASE Rotate(g)
  <2>1. /\ WritesAlone(g) /\ pc[g] = "rotate"
        /\ pc' = [pc EXCEPT ![g] = "final"] /\ at' = at
    BY <1>10 DEF Rotate, GoTo
  <2>2. at[g] = Main
    BY <2>1 DEF WriterInv
  <2>3. QED
    BY <1>1, <1>2, <2>1, <2>2, LeavesWriter
<1>11. CASE ReturnsRotated(g)
  <2>1. /\ pc[g] = "final" /\ writer' = writer
        /\ pc' = [pc EXCEPT ![g] = "idle"] /\ at' = [at EXCEPT ![g] = Main]
    BY <1>11 DEF ReturnsRotated, Return
  <2>2. QED
    BY <1>1, <2>1, StaysReader
<1>12. CASE SetSessionTicketKeys(g)
  <2>1. /\ WritesAlone(g) /\ pc' = [pc EXCEPT ![g] = "idle"]
        /\ at' = [at EXCEPT ![g] = Main]
    BY <1>12 DEF SetSessionTicketKeys, Return
  <2>2. QED
    BY <1>1, <2>1, LeavesWriter
<1>13. QED
  BY <1>3, <1>4, <1>5, <1>6, <1>7, <1>8, <1>9, <1>10, <1>11, <1>12 DEF Step

LEMMA InitWriter ==
    Init => WriterInv
<1>1. Main \in Configs
  BY DEF Configs
<1>2. QED
  BY <1>1 DEF Init, WriterInv, WriteLocked, OnlyMain

LEMMA NextWriter ==
    LockInv /\ WriterInv /\ [Next]_vars => WriterInv'
<1> SUFFICES ASSUME Shapes, WriterInv, [Next]_vars PROVE WriterInv'
  BY DEF LockInv
<1>1. CASE Tick \/ UNCHANGED vars
  BY <1>1 DEF Tick, vars, WriterInv
<1>2. ASSUME NEW g \in Procs, NEW c \in Configs, NEW p \in {"rlock", "setLock"},
             Enter(g, c, p)
      PROVE  WriterInv'
  <2>1. /\ pc[g] = "idle" /\ pc' = [pc EXCEPT ![g] = p]
        /\ at' = [at EXCEPT ![g] = c] /\ writer' = writer
    BY <1>2 DEF Enter
  <2>2. QED
    BY <2>1, StaysReader DEF Labels, WriteLocked, OnlyMain
<1>3. Conns \subseteq Procs /\ Setters \subseteq Procs
  BY DEF Procs
<1>4. QED
  BY <1>1, <1>2, <1>3, StepWriter DEF Next

\* What Step(g) asks of the mutex: nothing at a label with the read lock, that
\* nobody writes or waits to at those before a lock, and that the readers have
\* left at those of a writer.
CanStep(g) ==
    \/ pc[g] \in ReadLocked
    \/ /\ pc[g] \in {"rlock", "relock", "initLock", "rotateLock", "setLock", "final"}
       /\ writer[at[g]] = Free
    \/ pc[g] \in WriteLocked /\ writer[at[g]] = g /\ readers[at[g]] = 0

SomeoneCanStep ==
    \A c \in Configs :
        LET here == {g \in Procs : at[g] = c /\ pc[g] # "idle"}
        IN  here # {} /\ lost[c] = 0 => \E g \in here : CanStep(g)

\* Giving up the read lock to take the write lock never ends with everyone
\* waiting, however many goroutines there are: what SomeoneMoves says with
\* ENABLED, said with the guards of Step (common.go 828-917, 933-946).
THEOREM NobodyLockedOut == Spec => []SomeoneCanStep
<1>1. LockInv /\ WriterInv => SomeoneCanStep
  <2> SUFFICES ASSUME LockInv, WriterInv, NEW c \in Configs, lost[c] = 0,
                      NEW h \in Procs, at[h] = c, pc[h] # "idle"
               PROVE  \E g \in Procs :
                         at[g] = c /\ pc[g] # "idle" /\ CanStep(g)
    BY DEF SomeoneCanStep
  <2>1. CASE writer[c] = Free
    <3>1. pc[h] \notin WriteLocked
      BY <2>1, TicketAssumption DEF WriterInv
    <3>2. CanStep(h)
      BY <2>1, <3>1 DEF LockInv, Shapes, Labels, CanStep, ReadLocked, WriteLocked
    <3>3. QED
      BY <3>2
  <2>2. CASE writer[c] # Free
    <3> DEFINE w == writer[c]
    <3>1. w \in Procs /\ at[w] = c /\ pc[w] \in WriteLocked
      BY <2>2 DEF WriterInv
    <3>2. CASE readers[c] = 0
      BY <3>1, <3>2 DEF CanStep, WriteLocked
    <3>3. CASE readers[c] # 0
      <4>1. Cardinality(Reading(c)) # 0
        BY <3>3 DEF LockInv, LocksBalanced
      <4>2. Reading(c) # {}
        BY <4>1, FS_EmptySet
      <4>3. QED
        BY <4>2 DEF Reading, CanStep, ReadLocked
    <3>4. QED
      BY <3>2, <3>3
  <2>3. QED
    BY <2>1, <2>2
<1>2. QED
  BY <1>1, InitLocks, NextLocks, InitWriter, NextWriter, PTL DEF Spec

-----------------------------------------------------------------------------
(* The keys of the application.                                            *)

KeysShape == keys \in [Configs -> {"none", "user", "set"}]

LEMMA KeysStep ==
    ASSUME Shapes, KeysShape, [Next]_vars
    PROVE  KeysShape' /\ \A c \in Configs : keys[c] = "set" => keys'[c] = "set"
<1>1. ASSUME NEW g \in Procs, InitLegacy(g)
      PROVE  KeysShape' /\ \A c \in Configs : keys[c] = "set" => keys'[c] = "set"
  BY <1>1 DEF InitLegacy, KeysShape, Shapes
<1>2. ASSUME NEW g \in Procs, SetSessionTicketKeys(g)
      PROVE  KeysShape' /\ \A c \in Configs : keys[c] = "set" => keys'[c] = "set"
  BY <1>2 DEF SetSessionTicketKeys, KeysShape, Shapes
<1>3. ASSUME NEW g \in Procs, Step(g), ~InitLegacy(g), ~SetSessionTicketKeys(g)
      PROVE  keys' = keys
  BY <1>3 DEF Step, Lock, RLock, ReturnsDisabled, LegacyMissing, LegacyThere,
              UsesSetKeys, FallsBack, UsesAutoKeys, WantsRotation, Rotate,
              ReturnsRotated, data
<1>4. ASSUME \/ \E g \in Conns, c \in Configs : Enter(g, c, "rlock")
             \/ \E s \in Setters, c \in Configs : Enter(s, c, "setLock")
             \/ Tick \/ UNCHANGED vars
      PROVE  keys' = keys
  BY <1>4 DEF Enter, Tick, vars, data
<1>5. keys' = keys =>
        KeysShape' /\ \A c \in Configs : keys[c] = "set" => keys'[c] = "set"
  BY DEF KeysShape
<1>6. QED
  BY <1>1, <1>2, <1>3, <1>4, <1>5 DEF Next

\* What SetSessionTicketKeys has set no connection replaces, also one that was
\* on its way to fill in the legacy key (common.go 828-861, 933-946).
THEOREM SetKeysSurvive == Spec => SetKeysStay
<1>1. Init => KeysShape
  BY DEF Init, KeysShape
<1>2. LockInv /\ KeysShape /\ [Next]_vars =>
        /\ KeysShape'
        /\ [\A c \in Configs : keys[c] = "set" => keys'[c] = "set"]_vars
  BY KeysStep DEF LockInv
<1>3. QED
  BY <1>1, <1>2, InitLocks, NextLocks, PTL DEF Spec, SetKeysStay

-----------------------------------------------------------------------------
(* The loop that drops the expired keys.                                   *)

\* Induction up to n, over the set of numbers for which something holds: the
\* least number outside S would follow one inside.
LEMMA BoundedInduction ==
    ASSUME NEW n \in Nat, NEW S, 0 \in S,
           \A i \in 0..(n - 1) : i \in S => i + 1 \in S
    PROVE  0..n \subseteq S
<1> DEFINE T == (0..n) \ S
<1> SUFFICES ASSUME T # {} PROVE FALSE
  OBVIOUS
<1>1. T \subseteq Nat
  OBVIOUS
<1> HIDE DEF T
<1>2. PICK m \in T : \A i \in T : ~(<<i, m>> \in OpToRel(<, Nat))
  BY <1>1, NatLessThanWellFounded, WFMin
<1>3. \A i \in T : ~(<<i, m>> \in {ss \in Nat \X Nat : ss[1] < ss[2]})
  BY <1>2 DEF OpToRel
<1>4. m \in 0..n /\ m # 0 /\ m \notin S
  BY DEF T
<1>5. m - 1 \in 0..(n - 1) /\ m - 1 \in 0..n /\ (m - 1) + 1 = m
  BY <1>4
<1>6. m - 1 \notin S
  BY <1>4, <1>5
<1>7. m - 1 \in T
  BY <1>5, <1>6 DEF T
<1>8. ~(<<m - 1, m>> \in {ss \in Nat \X Nat : ss[1] < ss[2]})
  BY <1>3, <1>7
<1>9. m \in Nat /\ m - 1 \in Nat /\ m - 1 < m
  BY <1>4
<1>10. QED
  BY <1>8, <1>9

\* One round of the loop.
Round(v, i) == IF now - auto[i] < Lifetime THEN Append(v, auto[i]) ELSE v

\* f is what the loop computes in its first n rounds.
IsLoop(f, n) ==
    f = [i \in 0..n |-> IF i = 0 THEN <<now>> ELSE Round(f[i - 1], i)]

\* The recursive definition of valid has a solution: rounds are added to a
\* solution for fewer rounds one at a time.
LEMMA ValidExists ==
    ASSUME Len(auto) \in Nat
    PROVE  \E f : IsLoop(f, Len(auto))
<1> DEFINE S == {n \in Nat : \E f : IsLoop(f, n)}
<1>1. 0 \in S
  <2> DEFINE f == [i \in 0..0 |-> <<now>>]
  <2>1. IsLoop(f, 0)
    BY DEF IsLoop
  <2>2. QED
    BY <2>1
<1>2. ASSUME NEW n \in Nat, n \in S PROVE n + 1 \in S
  <2>1. PICK f : IsLoop(f, n)
    BY <1>2
  <2>2. /\ DOMAIN f = 0..n
        /\ \A i \in 0..n : f[i] = IF i = 0 THEN <<now>> ELSE Round(f[i - 1], i)
    BY <2>1 DEF IsLoop
  <2> DEFINE h == [i \in 0..(n + 1) |-> IF i <= n THEN f[i] ELSE Round(f[n], n + 1)]
  <2>3. \A i \in 0..(n + 1) :
            h[i] = IF i = 0 THEN <<now>> ELSE Round(h[i - 1], i)
    <3> TAKE i \in 0..(n + 1)
    <3>1. CASE i <= n /\ i # 0
      <4>1. i \in 0..n /\ i - 1 \in 0..(n + 1) /\ i - 1 <= n
        BY <3>1
      <4>2. h[i] = f[i] /\ h[i - 1] = f[i - 1]
        BY <3>1, <4>1
      <4> HIDE DEF h
      <4>3. QED
        BY <2>2, <3>1, <4>1, <4>2
    <3>2. CASE i = 0
      BY <2>2, <3>2
    <3>3. CASE ~(i <= n)
      <4>1. i = n + 1 /\ n \in 0..(n + 1) /\ (n + 1) - 1 = n /\ n + 1 # 0
        BY <3>3
      <4>2. h[n] = f[n] /\ h[n + 1] = Round(f[n], n + 1)
        BY <4>1
      <4> HIDE DEF h
      <4>3. QED
        BY <4>1, <4>2
    <3>4. QED
      BY <3>1, <3>2, <3>3
  <2>4. h = [i \in 0..(n + 1) |-> h[i]]
    OBVIOUS
  <2>5. IsLoop(h, n + 1)
    <3> HIDE DEF h
    <3>1. QED
      BY <2>3, <2>4 DEF IsLoop
  <2>6. QED
    BY <2>5
<1> HIDE DEF S
<1>3. Len(auto) \in S
  <2>1. 0..Len(auto) \subseteq S
    BY <1>1, <1>2, BoundedInduction
  <2>2. QED
    BY <2>1
<1>4. QED
  BY <1>3 DEF S

\* So valid is what the loop computes.
LEMMA ValidIsLoop ==
    ASSUME Len(auto) \in Nat
    PROVE  \A i \in 0..Len(auto) :
              valid[i] = IF i = 0 THEN <<now>> ELSE Round(valid[i - 1], i)
<1>1. PICK f : IsLoop(f, Len(auto))
  BY ValidExists
<1>2. IsLoop(valid, Len(auto))
  BY <1>1 DEF valid, IsLoop, Round
<1>3. QED
  BY <1>2 DEF IsLoop

-----------------------------------------------------------------------------
(* The automatic keys.                                                     *)

AutoShape ==
    /\ now \in Nat /\ auto \in Seq(Nat)
    /\ given \subseteq [key : Nat, at : Nat]

\* A key that a connection got was not stale then, and it is kept for its own
\* lifetime.
GivenFresh == \A g \in given : g.at - g.key < Rotation
GivenLive ==
    \A g \in given : now - g.key < Lifetime => \E i \in DOMAIN auto : auto[i] = g.key

AutoInv == AutoShape /\ RotatedOnce /\ GivenFresh /\ GivenLive

\* What the loop has collected after i rounds: the new key first, then keys of
\* the first i, none that has not expired missing, a rotation period apart.
RoundsOK(v, i) ==
    /\ v \in Seq(Nat) /\ Len(v) > 0
    /\ v[1] = now
    /\ \A a \in 2..Len(v) : \E j \in 1..i : v[a] = auto[j]
    /\ \A j \in 1..i : now - auto[j] < Lifetime => \E a \in 1..Len(v) : v[a] = auto[j]
    /\ \A a, b \in 1..Len(v) : a < b => v[a] - v[b] >= Rotation

\* A stale first key, or none, puts a rotation period before the new one.
LEMMA StaleKeys ==
    ASSUME AutoInv, ~Fresh
    PROVE  \A j \in 1..Len(auto) : now - auto[j] >= Rotation
<1>1. /\ now \in Nat /\ auto \in Seq(Nat) /\ Len(auto) \in Nat
      /\ DOMAIN auto = 1..Len(auto) /\ Rotation \in Nat
      /\ \A j \in 1..Len(auto) : auto[j] \in Nat
  BY TicketAssumption DEF AutoInv, AutoShape
<1>2. SUFFICES ASSUME NEW j \in 1..Len(auto) PROVE now - auto[j] >= Rotation
  OBVIOUS
<1>3. auto # <<>> /\ 1 \in 1..Len(auto)
  BY <1>1, <1>2
<1>4. now - auto[1] >= Rotation
  BY <1>1, <1>3 DEF Fresh
<1>5. j # 1 => auto[1] - auto[j] >= Rotation
  BY <1>1, <1>2, <1>3 DEF AutoInv, RotatedOnce
<1>6. auto[1] \in Nat /\ auto[j] \in Nat
  BY <1>1, <1>2, <1>3
<1>7. QED
  BY <1>1, <1>4, <1>5, <1>6

\* One round keeps what the loop has collected in order.
LEMMA RoundStep ==
    ASSUME AutoInv, ~Fresh, NEW i \in 0..(Len(auto) - 1), NEW v, RoundsOK(v, i)
    PROVE  RoundsOK(Round(v, i + 1), i + 1)
<1> DEFINE k == auto[i + 1]
           n == Len(v)
<1>1. /\ now \in Nat /\ auto \in Seq(Nat) /\ Len(auto) \in Nat
      /\ DOMAIN auto = 1..Len(auto) /\ Rotation \in Nat /\ Lifetime \in Nat
      /\ \A j \in 1..Len(auto) : auto[j] \in Nat
  BY TicketAssumption DEF AutoInv, AutoShape
<1>2. /\ i \in Nat /\ i + 1 \in 1..Len(auto) /\ k \in Nat
      /\ \A j \in 1..i : j \in 1..Len(auto) /\ j < i + 1
      /\ \A j \in 1..(i + 1) : j \in 1..i \/ j = i + 1
      /\ \A j \in 1..i : j \in 1..(i + 1)
  BY <1>1
<1>3. /\ v \in Seq(Nat) /\ n \in Nat /\ n > 0 /\ 1 \in 1..n
      /\ \A a \in 1..n : v[a] \in Nat
      /\ v[1] = now
      /\ \A a \in 2..n : \E j \in 1..i : v[a] = auto[j]
      /\ \A j \in 1..i : now - auto[j] < Lifetime => \E a \in 1..n : v[a] = auto[j]
      /\ \A a, b \in 1..n : a < b => v[a] - v[b] >= Rotation
  BY DEF RoundsOK
<1>4. CASE ~(now - k < Lifetime)
  <2>1. Round(v, i + 1) = v
    BY <1>4 DEF Round
  <2>2. \A j \in 1..(i + 1) : now - auto[j] < Lifetime => \E a \in 1..n : v[a] = auto[j]
    BY <1>2, <1>3, <1>4
  <2>3. \A a \in 2..n : \E j \in 1..(i + 1) : v[a] = auto[j]
    BY <1>2, <1>3
  <2>4. QED
    BY <1>3, <2>1, <2>2, <2>3 DEF RoundsOK
<1>5. CASE now - k < Lifetime
  <2> DEFINE w == Append(v, k)
  <2>1. Round(v, i + 1) = w
    BY <1>5 DEF Round
  <2>2. /\ w \in Seq(Nat) /\ Len(w) = n + 1 /\ w[n + 1] = k
        /\ \A a \in 1..n : w[a] = v[a]
    BY <1>2, <1>3, AppendProperties
  <2> HIDE DEF w, k, n
  <2>3. w[1] = now
    BY <1>3, <2>2
  <2>4. \A a \in 2..(n + 1) : \E j \in 1..(i + 1) : w[a] = auto[j]
    <3> TAKE a \in 2..(n + 1)
    <3>1. CASE a = n + 1
      <4>1. w[a] = auto[i + 1] /\ i + 1 \in 1..(i + 1)
        BY <1>2, <2>2, <3>1 DEF k
      <4>2. QED
        BY <4>1
    <3>2. CASE a # n + 1
      <4>1. a \in 2..n /\ a \in 1..n
        BY <1>3, <3>2
      <4>2. PICK j \in 1..i : v[a] = auto[j]
        BY <1>3, <4>1
      <4>3. QED
        BY <1>2, <2>2, <4>1, <4>2
    <3>3. QED
      BY <3>1, <3>2
  <2>5. \A j \in 1..(i + 1) :
            now - auto[j] < Lifetime => \E a \in 1..(n + 1) : w[a] = auto[j]
    <3> SUFFICES ASSUME NEW j \in 1..(i + 1), now - auto[j] < Lifetime
                 PROVE  \E a \in 1..(n + 1) : w[a] = auto[j]
      OBVIOUS
    <3>1. CASE j = i + 1
      <4>1. w[n + 1] = auto[j] /\ n + 1 \in 1..(n + 1)
        BY <1>3, <2>2, <3>1 DEF k
      <4>2. QED
        BY <4>1
    <3>2. CASE j \in 1..i
      <4>1. PICK a \in 1..n : v[a] = auto[j]
        BY <1>3, <3>2
      <4>2. a \in 1..(n + 1)
        BY <1>3
      <4>3. QED
        BY <2>2, <4>1, <4>2
    <3>3. QED
      BY <1>2, <3>1, <3>2
  <2>6. \A a \in 1..n : v[a] - k >= Rotation
    <3> TAKE a \in 1..n
    <3>1. CASE a = 1
      BY <1>2, <1>3, <3>1, StaleKeys DEF k
    <3>2. CASE a # 1
      <4>1. PICK j \in 1..i : v[a] = auto[j]
        BY <1>3, <3>2
      <4>2. auto[j] - auto[i + 1] >= Rotation
        BY <1>1, <1>2, <4>1 DEF AutoInv, RotatedOnce
      <4>3. QED
        BY <4>1, <4>2 DEF k
    <3>3. QED
      BY <3>1, <3>2
  <2>7. \A a, b \in 1..(n + 1) : a < b => w[a] - w[b] >= Rotation
    <3> SUFFICES ASSUME NEW a \in 1..(n + 1), NEW b \in 1..(n + 1), a < b
                 PROVE  w[a] - w[b] >= Rotation
      OBVIOUS
    <3>1. a \in 1..n
      BY <1>3
    <3>2. CASE b = n + 1
      BY <2>2, <2>6, <3>1, <3>2
    <3>3. CASE b # n + 1
      <4>1. b \in 1..n
        BY <1>3, <3>3
      <4>2. QED
        BY <1>3, <2>2, <3>1, <4>1
    <3>4. QED
      BY <3>2, <3>3
  <2>8. Len(w) > 0
    BY <1>3, <2>2
  <2>9. QED
    BY <2>1, <2>2, <2>3, <2>4, <2>5, <2>7, <2>8 DEF RoundsOK
<1>6. QED
  BY <1>4, <1>5

\* What the whole loop returns.
LEMMA RotatedKeys ==
    ASSUME AutoInv, ~Fresh
    PROVE  RoundsOK(Rotated, Len(auto))
<1> DEFINE S == {i \in 0..Len(auto) : RoundsOK(valid[i], i)}
<1>1. now \in Nat /\ Len(auto) \in Nat
  BY DEF AutoInv, AutoShape
<1>2. /\ valid[0] = <<now>>
      /\ \A i \in 0..(Len(auto) - 1) : valid[i + 1] = Round(valid[i], i + 1)
  <2>1. \A i \in 0..Len(auto) :
            valid[i] = IF i = 0 THEN <<now>> ELSE Round(valid[i - 1], i)
    BY <1>1, ValidIsLoop
  <2>2. ASSUME NEW i \in 0..(Len(auto) - 1)
        PROVE  i + 1 \in 0..Len(auto) /\ i + 1 # 0 /\ (i + 1) - 1 = i
    BY <1>1
  <2>3. 0 \in 0..Len(auto)
    BY <1>1
  <2>4. QED
    BY <2>1, <2>2, <2>3
<1>3. 0 \in S
  <2>1. /\ <<now>> \in Seq(Nat) /\ Len(<<now>>) = 1 /\ <<now>>[1] = now
        /\ 2..1 = {} /\ 1..0 = {} /\ 1..1 = {1}
    BY <1>1
  <2>2. RoundsOK(<<now>>, 0)
    BY <2>1 DEF RoundsOK
  <2>3. QED
    BY <1>1, <1>2, <2>2
<1>4. ASSUME NEW i \in 0..(Len(auto) - 1), i \in S PROVE i + 1 \in S
  <2>1. RoundsOK(valid[i + 1], i + 1)
    BY <1>2, <1>4, RoundStep
  <2>2. QED
    BY <1>1, <2>1
<1> HIDE DEF S
<1>5. Len(auto) \in S
  <2>1. 0..Len(auto) \subseteq S
    BY <1>1, <1>3, <1>4, BoundedInduction
  <2>2. QED
    BY <1>1, <2>1
<1>6. QED
  BY <1>5 DEF S, Rotated

\* The keys stay as they are, and a connection gets the first one, which is
\* fresh.
LEMMA GivesFresh ==
    ASSUME AutoInv, Fresh, now' = now, auto' = auto,
           given' = given \cup {[key |-> auto[1], at |-> now]}
    PROVE  AutoInv'
<1>1. /\ now \in Nat /\ auto \in Seq(Nat) /\ auto # <<>>
      /\ now - auto[1] < Rotation
  BY DEF AutoInv, AutoShape, Fresh
<1>2. 1 \in DOMAIN auto /\ auto[1] \in Nat
  BY <1>1
<1>3. AutoShape'
  BY <1>1, <1>2 DEF AutoInv, AutoShape
<1>4. GivenFresh'
  BY <1>1 DEF AutoInv, GivenFresh
<1>5. GivenLive'
  BY <1>2 DEF AutoInv, GivenLive
<1>6. QED
  BY <1>3, <1>4, <1>5 DEF AutoInv, RotatedOnce

LEMMA RotateAuto ==
    ASSUME AutoInv, NEW g \in Procs, Rotate(g)
    PROVE  AutoInv'
<1>1. /\ now' = now
      /\ auto' = IF Fresh THEN auto ELSE Rotated
      /\ given' = given \cup {[key |-> auto'[1], at |-> now]}
  BY DEF Rotate
<1>2. CASE Fresh
  BY <1>1, <1>2, GivesFresh
<1>3. CASE ~Fresh
  <2>1. RoundsOK(auto', Len(auto))
    BY <1>1, <1>3, RotatedKeys
  <2>2. /\ auto' \in Seq(Nat) /\ DOMAIN auto' = 1..Len(auto') /\ auto'[1] = now
        /\ 1 \in DOMAIN auto'
        /\ \A j \in 1..Len(auto) : now - auto[j] < Lifetime =>
              \E a \in DOMAIN auto' : auto'[a] = auto[j]
        /\ \A a, b \in DOMAIN auto' : a < b => auto'[a] - auto'[b] >= Rotation
    <3> DEFINE v == auto'
    <3>1. RoundsOK(v, Len(auto))
      BY <2>1
    <3> HIDE DEF v
    <3>2. v \in Seq(Nat) /\ Len(v) > 0
      BY <3>1 DEF RoundsOK
    <3>3. Len(v) \in Nat /\ DOMAIN v = 1..Len(v) /\ 1 \in 1..Len(v)
      BY <3>2
    <3>4. QED
      BY <3>1, <3>2, <3>3 DEF RoundsOK, v
  <2>3. given' = given \cup {[key |-> now, at |-> now]}
    BY <1>1, <2>2
  <2>4. AutoShape'
    BY <1>1, <2>2, <2>3 DEF AutoInv, AutoShape
  <2>5. RotatedOnce'
    BY <2>2 DEF RotatedOnce
  <2>6. GivenFresh'
    BY <2>3, TicketAssumption DEF AutoInv, AutoShape, GivenFresh
  <2>7. ASSUME NEW h \in given', now - h.key < Lifetime
        PROVE  \E a \in DOMAIN auto' : auto'[a] = h.key
    <3>1. CASE h.key = now
      BY <2>2, <3>1
    <3>2. CASE h \in given
      <4>1. DOMAIN auto = 1..Len(auto)
        BY DEF AutoInv, AutoShape
      <4>2. PICK j \in 1..Len(auto) : auto[j] = h.key
        BY <2>7, <3>2, <4>1 DEF AutoInv, GivenLive
      <4>3. QED
        BY <2>2, <2>7, <4>2
    <3>3. QED
      BY <2>3, <2>7, <3>1, <3>2
  <2>8. GivenLive'
    BY <1>1, <2>7 DEF GivenLive
  <2>9. QED
    BY <2>4, <2>5, <2>6, <2>8 DEF AutoInv
<1>4. QED
  BY <1>2, <1>3

LEMMA AutoStep ==
    AutoInv /\ [Next]_vars => AutoInv'
<1> SUFFICES ASSUME AutoInv, [Next]_vars PROVE AutoInv'
  OBVIOUS
<1>1. ASSUME NEW g \in Procs, Rotate(g) PROVE AutoInv'
  BY <1>1, RotateAuto
<1>2. ASSUME NEW g \in Procs, UsesAutoKeys(g) PROVE AutoInv'
  <2>1. /\ Fresh /\ now' = now /\ auto' = auto
        /\ given' = given \cup {[key |-> auto[1], at |-> now]}
    BY <1>2 DEF UsesAutoKeys
  <2>2. QED
    BY <2>1, GivesFresh
<1>3. CASE Tick
  <2>1. now \in Nat /\ now' = now + 1 /\ auto' = auto /\ given' = given
    BY <1>3 DEF Tick, AutoInv, AutoShape
  <2>2. \A h \in given : h.key \in Nat
    BY DEF AutoInv, AutoShape
  <2>3. AutoShape' /\ RotatedOnce' /\ GivenFresh'
    BY <2>1 DEF AutoInv, AutoShape, RotatedOnce, GivenFresh
  <2>4. \A h \in given : now' - h.key < Lifetime => now - h.key < Lifetime
    BY <2>1, <2>2, TicketAssumption
  <2>5. GivenLive'
    BY <2>1, <2>4 DEF AutoInv, GivenLive
  <2>6. QED
    BY <2>3, <2>5 DEF AutoInv
<1>4. CASE UNCHANGED <<auto, given, now>>
  BY <1>4 DEF AutoInv, AutoShape, RotatedOnce, GivenFresh, GivenLive
<1>5. ASSUME NEW g \in Procs, Step(g), ~Rotate(g), ~UsesAutoKeys(g)
      PROVE  UNCHANGED <<auto, given, now>>
  BY <1>5 DEF Step, Lock, RLock, ReturnsDisabled, LegacyMissing, LegacyThere,
              InitLegacy, UsesSetKeys, FallsBack, WantsRotation,
              ReturnsRotated, SetSessionTicketKeys, data
<1>6. ASSUME \/ \E g \in Conns, c \in Configs : Enter(g, c, "rlock")
             \/ \E s \in Setters, c \in Configs : Enter(s, c, "setLock")
             \/ UNCHANGED vars
      PROVE  UNCHANGED <<auto, given, now>>
  BY <1>6 DEF Enter, vars, data
<1>7. QED
  BY <1>1, <1>2, <1>3, <1>4, <1>5, <1>6 DEF Next

LEMMA InitAuto ==
    Init => AutoInv
<1> SUFFICES ASSUME Init PROVE AutoInv
  OBVIOUS
<1>1. now = 0 /\ auto = <<>> /\ given = {}
  BY DEF Init
<1>2. auto \in Seq(Nat) /\ DOMAIN auto = {}
  BY <1>1, EmptySeq
<1>3. QED
  BY <1>1, <1>2 DEF AutoInv, AutoShape, RotatedOnce, GivenFresh, GivenLive

\* However many connections find the key stale at once, one of them rotates it:
\* two automatic keys are a rotation period apart (common.go 896-918).
THEOREM OneRotation == Spec => []RotatedOnce
<1>1. AutoInv => RotatedOnce
  BY DEF AutoInv
<1>2. QED
  BY <1>1, InitAuto, AutoStep, PTL DEF Spec

\* A connection never gets a stale key to seal tickets with, whoever rotated
\* before it, and no key that one got is dropped in its lifetime: what it seals
\* can be opened for Lifetime - Rotation from then on (common.go 891-916).
THEOREM KeysSurvive == Spec => []KeysKept
<1>1. ASSUME AutoInv PROVE KeysKept
  <2>1. SUFFICES ASSUME NEW h \in given, now - h.at <= Lifetime - Rotation
                 PROVE  \E i \in DOMAIN auto : auto[i] = h.key
    BY DEF KeysKept
  <2>2. /\ now \in Nat /\ h.at \in Nat /\ h.key \in Nat
        /\ h.at - h.key < Rotation
    BY <1>1 DEF AutoInv, AutoShape, GivenFresh
  <2>3. now - h.key < Lifetime
    BY <2>1, <2>2, TicketAssumption
  <2>4. QED
    BY <1>1, <2>3 DEF AutoInv, GivenLive
<1>2. QED
  BY <1>1, InitAuto, AutoStep, PTL DEF Spec
=============================================================================
