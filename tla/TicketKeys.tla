----------------------------- MODULE TicketKeys -----------------------------
(***************************************************************************)
(* The session ticket keys of a server's Config: connections ask for them  *)
(* through Config.ticketKeys, which fills in the legacy key and rotates    *)
(* the automatic keys, while the application may set keys of its own with  *)
(* SetSessionTicketKeys.  All of it happens under Config.mutex, which is   *)
(* given up and taken again to go from reading to writing.                 *)
(*                                                                         *)
(* Main is the Config of the listener, ForClient one that the callback     *)
(* GetConfigForClient returns.  An automatic key is known by the time of   *)
(* its creation.  What a goroutine does between Lock and Unlock is one     *)
(* step.                                                                   *)
(***************************************************************************)
EXTENDS Integers, Sequences, FiniteSets

CONSTANTS
    Conns,           \* goroutines of server connections
    Setters,         \* goroutines that call SetSessionTicketKeys
    Main, ForClient, \* the two Configs
    Free,            \* nobody
    Rotation,        \* ticketKeyRotation, 24 hours
    Lifetime,        \* ticketKeyLifetime, 7 days
    MaxTime,         \* bound: the last value of the clock
    MaxLost          \* bound: read locks left behind before calls stop

Procs == Conns \cup Setters
Configs == {Main, ForClient}

ASSUME TicketAssumption ==
    /\ Conns \cap Setters = {} /\ Free \notin Procs /\ IsFiniteSet(Procs)
    /\ Main # ForClient
    /\ Rotation \in Nat /\ Lifetime \in Nat /\ MaxTime \in Nat
    /\ MaxLost \in Nat
    /\ 0 < Rotation /\ Rotation <= Lifetime

VARIABLES
    disabled, \* the Configs with SessionTicketsDisabled, fixed at the start
    readers,  \* read locks held on each Config's mutex
    writer,   \* who holds it for writing or waits for the readers to leave
    legacy,   \* SessionTicketKey: "empty", "user" or "deprecated"
    keys,     \* sessionTicketKeys: "none", "user" or "set"
    auto,     \* Main's autoSessionTicketKeys, newest first
    given,    \* history: the automatic keys connections got to seal with, and when
    now,      \* the clock
    pc,       \* where each goroutine is
    at,       \* the Config it is at, Main when it is idle
    lost      \* history: read locks left behind on each Config's mutex

vars == <<disabled, readers, writer, legacy, keys, auto, given, now, pc, at, lost>>
data == <<disabled, legacy, keys, auto, given, now>>

Init ==
    /\ disabled \in SUBSET Configs
    /\ readers = [c \in Configs |-> 0]
    /\ writer = [c \in Configs |-> Free]
    /\ legacy \in [Configs -> {"empty", "user"}]
    /\ keys = [c \in Configs |-> "none"]
    /\ auto = <<>> /\ given = {} /\ now = 0
    /\ pc = [g \in Procs |-> "idle"]
    /\ at = [g \in Procs |-> Main]
    /\ lost = [c \in Configs |-> 0]

-----------------------------------------------------------------------------
(* Config.mutex.  A waiting writer keeps new readers out.                  *)

RLocks(c) ==
    /\ writer[c] = Free
    /\ readers' = [readers EXCEPT ![c] = @ + 1]
    /\ UNCHANGED writer

RUnlocks(c) ==
    /\ readers' = [readers EXCEPT ![c] = @ - 1]
    /\ UNCHANGED writer

\* g has waited for the readers to leave; it writes and unlocks.
WritesAlone(g) ==
    /\ writer[at[g]] = g /\ readers[at[g]] = 0
    /\ writer' = [writer EXCEPT ![at[g]] = Free]
    /\ UNCHANGED readers

\* Where g is next: at the same Config, or out of the call.
GoTo(g, label) == pc' = [pc EXCEPT ![g] = label] /\ UNCHANGED at
Return(g) == pc' = [pc EXCEPT ![g] = "idle"] /\ at' = [at EXCEPT ![g] = Main]

\* Lock: writers queue up for each other first.
Lock(g) ==
    /\ pc[g] \in {"initLock", "rotateLock", "setLock"}
    /\ writer[at[g]] = Free
    /\ writer' = [writer EXCEPT ![at[g]] = g]
    /\ GoTo(g, CASE pc[g] = "initLock" -> "init"
                 [] pc[g] = "rotateLock" -> "rotate"
                 [] pc[g] = "setLock" -> "set")
    /\ UNCHANGED <<readers, lost>> /\ UNCHANGED data

\* A goroutine enters ticketKeys or SetSessionTicketKeys, at Config c.
Enter(g, c, label) ==
    /\ pc[g] = "idle"
    /\ g \in Conns => lost[c] < MaxLost
    /\ pc' = [pc EXCEPT ![g] = label]
    /\ at' = [at EXCEPT ![g] = c]
    /\ UNCHANGED <<readers, writer, lost>> /\ UNCHANGED data

-----------------------------------------------------------------------------
(* ticketKeys(configForClient) looks at ForClient first, if the callback   *)
(* returned one.                                                           *)

RLock(g) ==
    /\ pc[g] \in {"rlock", "relock"}
    /\ RLocks(at[g])
    /\ GoTo(g, IF pc[g] = "rlock" THEN "look" ELSE "choose")
    /\ UNCHANGED lost /\ UNCHANGED data

\* Tickets are disabled.  Of Main the deferred RUnlock gives the lock back; of
\* ForClient nothing does.
ReturnsDisabled(g) ==
    /\ pc[g] = "look" /\ at[g] \in disabled
    /\ \/ at[g] = Main /\ RUnlocks(Main) /\ UNCHANGED lost
       \/ /\ at[g] = ForClient
          /\ lost' = [lost EXCEPT ![ForClient] = @ + 1]
          /\ UNCHANGED <<readers, writer>>
    /\ Return(g)
    /\ UNCHANGED data

\* initLegacySessionTicketKeyRLocked has something to write.
NeedsInit(c) == legacy[c] = "empty" \/ (legacy[c] = "user" /\ keys[c] = "none")

\* Mutant of LegacyMissing: the read lock is kept on the way to Lock.
LegacyMissingKeepsLock(g) ==
    /\ pc[g] = "look" /\ at[g] \notin disabled /\ NeedsInit(at[g])
    /\ GoTo(g, "initLock")
    /\ UNCHANGED <<readers, writer, lost>> /\ UNCHANGED data

\* It gives up the read lock to write.
LegacyMissing(g) ==
    /\ pc[g] = "look" /\ at[g] \notin disabled /\ NeedsInit(at[g])
    /\ RUnlocks(at[g])
    /\ GoTo(g, "initLock")
    /\ UNCHANGED lost /\ UNCHANGED data

\* It returns with the read lock it was called with.
LegacyThere(g) ==
    /\ pc[g] = "look" /\ at[g] \notin disabled /\ ~NeedsInit(at[g])
    /\ GoTo(g, "choose")
    /\ UNCHANGED <<readers, writer, lost>> /\ UNCHANGED data

\* Mutant of InitLegacy: sessionTicketKeys is not looked at again.
InitLegacyBlind(g) ==
    /\ pc[g] = "init"
    /\ WritesAlone(g)
    /\ legacy' = [legacy EXCEPT ![at[g]] = IF @ = "empty" THEN "deprecated" ELSE @]
    /\ keys' = [keys EXCEPT ![at[g]] = IF legacy[at[g]] = "user" THEN "user" ELSE @]
    /\ GoTo(g, "relock")
    /\ UNCHANGED <<disabled, auto, given, now, lost>>

\* Its exclusive part, which looks again; the deferred RLock comes next.
InitLegacy(g) ==
    /\ pc[g] = "init"
    /\ WritesAlone(g)
    /\ legacy' = [legacy EXCEPT ![at[g]] = IF @ = "empty" THEN "deprecated" ELSE @]
    /\ keys' = [keys EXCEPT ![at[g]] =
                  IF legacy[at[g]] = "user" /\ @ = "none" THEN "user" ELSE @]
    /\ GoTo(g, "relock")
    /\ UNCHANGED <<disabled, auto, given, now, lost>>

\* sessionTicketKeys is returned if it is set.
UsesSetKeys(g) ==
    /\ pc[g] = "choose" /\ keys[at[g]] # "none"
    /\ RUnlocks(at[g])
    /\ Return(g)
    /\ UNCHANGED lost /\ UNCHANGED data

\* ForClient has no keys: go on with Main.
FallsBack(g) ==
    /\ pc[g] = "choose" /\ at[g] = ForClient /\ keys[ForClient] = "none"
    /\ RUnlocks(ForClient)
    /\ at' = [at EXCEPT ![g] = Main]
    /\ pc' = [pc EXCEPT ![g] = "rlock"]
    /\ UNCHANGED lost /\ UNCHANGED data

Fresh == auto # <<>> /\ now - auto[1] < Rotation

UsesAutoKeys(g) ==
    /\ pc[g] = "choose" /\ at[g] = Main /\ keys[Main] = "none" /\ Fresh
    /\ RUnlocks(Main)
    /\ given' = given \cup {[key |-> auto[1], at |-> now]}
    /\ Return(g)
    /\ UNCHANGED <<disabled, legacy, keys, auto, now, lost>>

WantsRotation(g) ==
    /\ pc[g] = "choose" /\ at[g] = Main /\ keys[Main] = "none" /\ ~Fresh
    /\ RUnlocks(Main)
    /\ GoTo(g, "rotateLock")
    /\ UNCHANGED lost /\ UNCHANGED data

\* Mutant of Rotated: keys are dropped once they are not fresh.
RotatedFreshOnly == <<now>> \o SelectSeq(auto, LAMBDA k : now - k < Rotation)

\* The keys after i rounds of the loop over autoSessionTicketKeys: a new one,
\* and those of the first i that have not expired.
valid[i \in 0..Len(auto)] ==
    IF i = 0 THEN <<now>>
    ELSE IF now - auto[i] < Lifetime THEN Append(valid[i - 1], auto[i])
    ELSE valid[i - 1]

\* The keys after a rotation.
Rotated == valid[Len(auto)]

\* Mutant of Rotate: freshness is not looked at again.
RotateBlind(g) ==
    /\ pc[g] = "rotate"
    /\ WritesAlone(g)
    /\ auto' = Rotated
    /\ given' = given \cup {[key |-> now, at |-> now]}
    /\ GoTo(g, "final")
    /\ UNCHANGED <<disabled, legacy, keys, now, lost>>

\* The exclusive part of the rotation, which looks at the time again but not
\* at sessionTicketKeys.
Rotate(g) ==
    /\ pc[g] = "rotate"
    /\ WritesAlone(g)
    /\ auto' = IF Fresh THEN auto ELSE Rotated
    /\ given' = given \cup {[key |-> auto'[1], at |-> now]}
    /\ GoTo(g, "final")
    /\ UNCHANGED <<disabled, legacy, keys, now, lost>>

\* The deferred calls: RLock, and RUnlock at once.
ReturnsRotated(g) ==
    /\ pc[g] = "final" /\ writer[Main] = Free
    /\ Return(g)
    /\ UNCHANGED <<readers, writer, lost>> /\ UNCHANGED data

-----------------------------------------------------------------------------
(* SetSessionTicketKeys, and the clock.                                    *)

\* Mutant of SetSessionTicketKeys: it returns without Unlock.
SetKeysNoUnlock(s) ==
    /\ pc[s] = "set"
    /\ writer[at[s]] = s /\ readers[at[s]] = 0
    /\ keys' = [keys EXCEPT ![at[s]] = "set"]
    /\ Return(s)
    /\ UNCHANGED <<disabled, readers, writer, legacy, auto, given, now, lost>>

SetSessionTicketKeys(s) ==
    /\ pc[s] = "set"
    /\ WritesAlone(s)
    /\ keys' = [keys EXCEPT ![at[s]] = "set"]
    /\ Return(s)
    /\ UNCHANGED <<disabled, legacy, auto, given, now, lost>>

Tick ==
    /\ now < MaxTime
    /\ now' = now + 1
    /\ UNCHANGED <<disabled, readers, writer, legacy, keys, auto, given, pc, at, lost>>

\* The next step of a goroutine inside a call.
Step(g) ==
    \/ Lock(g) \/ RLock(g)
    \/ ReturnsDisabled(g) \/ LegacyMissing(g) \/ LegacyThere(g) \/ InitLegacy(g)
    \/ UsesSetKeys(g) \/ FallsBack(g) \/ UsesAutoKeys(g) \/ WantsRotation(g)
    \/ Rotate(g) \/ ReturnsRotated(g)
    \/ SetSessionTicketKeys(g)

Next ==
    \/ \E g \in Procs : Step(g)
    \/ \E g \in Conns, c \in Configs : Enter(g, c, "rlock")
    \/ \E s \in Setters, c \in Configs : Enter(s, c, "setLock")
    \/ Tick

Spec == Init /\ [][Next]_vars

-----------------------------------------------------------------------------
(* Properties.                                                             *)

Reading(c) == {g \in Procs : at[g] = c /\ pc[g] \in {"look", "choose"}}

\* The mutex is in balance through all the ways of ticketKeys: whoever gives up
\* the read lock to write takes it again before a deferred RUnlock, and a read
\* lock is left behind only on a ForClient that has tickets disabled.
LocksBalanced ==
    \A c \in Configs :
        /\ readers[c] = Cardinality(Reading(c)) + lost[c]
        /\ lost[c] > 0 => c = ForClient /\ c \in disabled

\* Connections that find the key stale at the same time rotate it once: there
\* is a full rotation period between any two automatic keys.
RotatedOnce ==
    \A i, j \in DOMAIN auto : i < j => auto[i] - auto[j] >= Rotation

\* The key that a connection got to seal tickets with is among those that open
\* them for Lifetime - Rotation from when it got it, however often and by
\* whichever connections the keys are rotated since: it was not stale then, and
\* no key is dropped before its own lifetime has passed.  For longer, up to the
\* end of the ticket's life, the code does not keep it.  (Keys that the
\* application sets replace the automatic ones altogether.)
KeysKept ==
    \A g \in given :
        now - g.at <= Lifetime - Rotation =>
            \E i \in DOMAIN auto : auto[i] = g.key

\* The keys of SetSessionTicketKeys stay, even if a connection that found none
\* was about to fill in the legacy key when they were set.
SetKeysStay == [][\A c \in Configs : keys[c] = "set" => keys'[c] = "set"]_vars

\* Giving up the read lock to take the write lock never ends with everyone
\* waiting: among the goroutines at a Config some can move on, unless a read
\* lock was left behind on its mutex.
SomeoneMoves ==
    \A c \in Configs :
        LET here == {g \in Procs : at[g] = c /\ pc[g] # "idle"}
        IN  here # {} /\ lost[c] = 0 => ENABLED (\E g \in here : Step(g))
=============================================================================
