---------------------------- MODULE HandshakeGate ----------------------------
(***************************************************************************)
(* How the goroutines of an application get a Conn's handshake done.  The  *)
(* first Read or Write, Handshake and HandshakeContext all end up in       *)
(* handshakeContext: an unlocked look at handshakeStatus, an interrupter   *)
(* goroutine for a context that can be cancelled, handshakeMutex, the      *)
(* handshake itself, and the deferred calls on the way out.  What the      *)
(* handshake says to the peer is left to the transport: it can succeed     *)
(* only if its I/O ended while the transport was open.                     *)
(*                                                                         *)
(* c.in is locked inside handshakeMutex and nobody waits for anything else *)
(* with it, so it is left out.  Post-handshake messages are not read by    *)
(* this code, so handshakeStatus never goes back to 0.                     *)
(*                                                                         *)
(* The names of the specification begin with Gate, apart from those of     *)
(* Records, which is about the same Conn; ConnProofs extends both.         *)
(***************************************************************************)
EXTENDS Naturals

CONSTANTS
    Callers,      \* goroutines that call handshakeContext
    Cancellable,  \* those whose context can be cancelled
    Free          \* the owner of an unlocked mutex

ASSUME GateAssumption == Cancellable \subseteq Callers /\ Free \notin Callers

VARIABLES
    status,       \* handshakeStatus = 1
    handshakeErr, \* "nil" or "failed"
    mutex,        \* handshakeMutex: its owner
    runs,         \* history: calls of handshakeFn
    transport,    \* "open" or "closed"
    closed,       \* Conn.Close was called
    at,           \* where each caller is
    ret,          \* the result of each caller's call so far
    ctx,          \* each caller's context: "live" or "cancelled"
    done,         \* each call's done channel is closed
    interrupter   \* "none", "waiting", or what it sent on interruptRes

gateVars == <<status, handshakeErr, mutex, runs, transport, closed, at, ret,
              ctx, done, interrupter>>

GateInit ==
    /\ status = FALSE /\ handshakeErr = "nil" /\ mutex = Free /\ runs = 0
    /\ transport = "open" /\ closed = FALSE
    /\ at = [g \in Callers |-> "idle"]
    /\ ret = [g \in Callers |-> "none"]
    /\ ctx = [g \in Callers |-> "live"]
    /\ done = [g \in Callers |-> FALSE]
    /\ interrupter = [g \in Callers |-> "none"]

-----------------------------------------------------------------------------
(* The caller.                                                             *)

\* The unlocked exit: the last handshake succeeded.
FastExit(g) ==
    /\ at[g] = "idle" /\ status
    /\ ret' = [ret EXCEPT ![g] = "nil"]
    /\ interrupter' = [interrupter EXCEPT ![g] = "none"]
    /\ UNCHANGED <<status, handshakeErr, mutex, runs, transport, closed, at,
                   ctx, done>>

\* A call that finds no complete handshake, with a context of its own; the
\* interrupter is started if that context can be cancelled.
Call(g, c) ==
    /\ at[g] = "idle" /\ ~status
    /\ at' = [at EXCEPT ![g] = "lock"]
    /\ ret' = [ret EXCEPT ![g] = "none"]
    /\ ctx' = [ctx EXCEPT ![g] = c]
    /\ done' = [done EXCEPT ![g] = FALSE]
    /\ interrupter' = [interrupter EXCEPT
                         ![g] = IF g \in Cancellable THEN "waiting" ELSE "none"]
    /\ UNCHANGED <<status, handshakeErr, mutex, runs, transport, closed>>

\* Mutant of FindsOutcome: a waiter takes the other's handshake for a success.
FindsOutcomeNil(g) ==
    /\ at[g] = "lock" /\ mutex = Free
    /\ handshakeErr # "nil" \/ status
    /\ ret' = [ret EXCEPT ![g] = "nil"]
    /\ at' = [at EXCEPT ![g] = "unlocked"]
    /\ UNCHANGED <<status, handshakeErr, mutex, runs, transport, closed, ctx,
                   done, interrupter>>

\* handshakeMutex is free and the handshake was done or failed meanwhile: its
\* outcome is returned, through the deferred Unlock.
FindsOutcome(g) ==
    /\ at[g] = "lock" /\ mutex = Free
    /\ handshakeErr # "nil" \/ status
    /\ ret' = [ret EXCEPT ![g] = handshakeErr]
    /\ at' = [at EXCEPT ![g] = "unlocked"]
    /\ UNCHANGED <<status, handshakeErr, mutex, runs, transport, closed, ctx,
                   done, interrupter>>

\* handshakeMutex is free and there is no outcome yet: handshakeFn is called.
StartsHandshake(g) ==
    /\ at[g] = "lock" /\ mutex = Free
    /\ handshakeErr = "nil" /\ ~status
    /\ mutex' = g
    /\ runs' = runs + 1
    /\ at' = [at EXCEPT ![g] = "run"]
    /\ UNCHANGED <<status, handshakeErr, transport, closed, ret, ctx, done,
                   interrupter>>

\* The last message of the handshake went through.
FinishesIO(g) ==
    /\ at[g] = "run" /\ transport = "open"
    /\ at' = [at EXCEPT ![g] = "finish"]
    /\ UNCHANGED <<status, handshakeErr, mutex, runs, transport, closed, ret,
                   ctx, done, interrupter>>

\* handshakeFn stores handshakeStatus, still under handshakeMutex.
MarksComplete(g) ==
    /\ at[g] = "finish"
    /\ status' = TRUE
    /\ at' = [at EXCEPT ![g] = "complete"]
    /\ UNCHANGED <<handshakeErr, mutex, runs, transport, closed, ret, ctx, done,
                   interrupter>>

\* handshakeFn returns nil.
Succeeds(g) ==
    /\ at[g] = "complete"
    /\ ret' = [ret EXCEPT ![g] = "nil"]
    /\ mutex' = Free
    /\ at' = [at EXCEPT ![g] = "unlocked"]
    /\ UNCHANGED <<status, handshakeErr, runs, transport, closed, ctx, done,
                   interrupter>>

\* handshakeFn returns an error: of the peer, the configuration or the
\* transport.
Fails(g) ==
    /\ at[g] = "run"
    /\ handshakeErr' = "failed"
    /\ ret' = [ret EXCEPT ![g] = "failed"]
    /\ mutex' = Free
    /\ at' = [at EXCEPT ![g] = "unlocked"]
    /\ UNCHANGED <<status, runs, transport, closed, ctx, done, interrupter>>

\* Mutant of ClosesDone: interruptRes is not waited for.
ClosesDoneOnly(g) ==
    /\ at[g] = "unlocked"
    /\ done' = [done EXCEPT ![g] = TRUE]
    /\ at' = [at EXCEPT ![g] = "idle"]
    /\ UNCHANGED <<status, handshakeErr, mutex, runs, transport, closed, ret,
                   ctx, interrupter>>

\* The deferred function closes done, and waits if there is an interrupter.
ClosesDone(g) ==
    /\ at[g] = "unlocked"
    /\ done' = [done EXCEPT ![g] = TRUE]
    /\ at' = [at EXCEPT ![g] = IF interrupter[g] = "none" THEN "idle" ELSE "join"]
    /\ UNCHANGED <<status, handshakeErr, mutex, runs, transport, closed, ret,
                   ctx, interrupter>>

\* A context error received on interruptRes replaces the result.
Returns(g) ==
    /\ at[g] = "join" /\ interrupter[g] # "waiting"
    /\ ret' = [ret EXCEPT ![g] = IF interrupter[g] = "ctx" THEN "ctx" ELSE ret[g]]
    /\ at' = [at EXCEPT ![g] = "idle"]
    /\ UNCHANGED <<status, handshakeErr, mutex, runs, transport, closed, ctx,
                   done, interrupter>>

-----------------------------------------------------------------------------
(* The interrupter: select takes either case when both are ready.          *)

\* Mutant of Interrupts: the transport is left open.
InterruptsOnly(g) ==
    /\ interrupter[g] = "waiting" /\ ctx[g] = "cancelled"
    /\ interrupter' = [interrupter EXCEPT ![g] = "ctx"]
    /\ UNCHANGED <<status, handshakeErr, mutex, runs, transport, closed, at, ret,
                   ctx, done>>

Interrupts(g) ==
    /\ interrupter[g] = "waiting" /\ ctx[g] = "cancelled"
    /\ transport' = "closed"
    /\ interrupter' = [interrupter EXCEPT ![g] = "ctx"]
    /\ UNCHANGED <<status, handshakeErr, mutex, runs, closed, at, ret, ctx, done>>

StandsDown(g) ==
    /\ interrupter[g] = "waiting" /\ done[g]
    /\ interrupter' = [interrupter EXCEPT ![g] = "nil"]
    /\ UNCHANGED <<status, handshakeErr, mutex, runs, transport, closed, at, ret,
                   ctx, done>>

(* The application's other goroutines.                                     *)

Cancel(g) ==
    /\ g \in Cancellable /\ ctx[g] = "live"
    /\ ctx' = [ctx EXCEPT ![g] = "cancelled"]
    /\ UNCHANGED <<status, handshakeErr, mutex, runs, transport, closed, at, ret,
                   done, interrupter>>

\* Conn.Close ends by closing the transport; a second call returns at once.
CloseConn ==
    /\ ~closed
    /\ closed' = TRUE /\ transport' = "closed"
    /\ UNCHANGED <<status, handshakeErr, mutex, runs, at, ret, ctx, done,
                   interrupter>>

Contexts(g) == IF g \in Cancellable THEN {"live", "cancelled"} ELSE {"live"}

CallerStep(g) ==
    \/ FastExit(g)
    \/ \E c \in Contexts(g) : Call(g, c)
    \/ FindsOutcome(g) \/ StartsHandshake(g) \/ FinishesIO(g)
    \/ MarksComplete(g) \/ Succeeds(g) \/ Fails(g)
    \/ ClosesDone(g) \/ Returns(g)

GateNext ==
    \/ \E g \in Callers :
        CallerStep(g) \/ Interrupts(g) \/ StandsDown(g) \/ Cancel(g)
    \/ CloseConn

GateSpec == GateInit /\ [][GateNext]_gateVars

\* The peer may be silent for good, so the handshake's I/O need not end while
\* the transport is open; a closed transport fails it.  Everything else runs
\* on, and a waiter is not passed over by sync.Mutex for ever.
GateFairness ==
    \A g \in Callers :
        /\ SF_gateVars(FindsOutcome(g)) /\ SF_gateVars(StartsHandshake(g))
        /\ WF_gateVars(transport = "closed" /\ Fails(g))
        /\ WF_gateVars(MarksComplete(g)) /\ WF_gateVars(Succeeds(g))
        /\ WF_gateVars(ClosesDone(g)) /\ WF_gateVars(Returns(g))
        /\ WF_gateVars(Interrupts(g)) /\ WF_gateVars(StandsDown(g))

GateFairSpec == GateSpec /\ GateFairness

-----------------------------------------------------------------------------
(* Properties.                                                             *)

CallerLabels ==
    {"idle", "lock", "run", "finish", "complete", "unlocked", "join"}

\* The type invariant of the gate.
GateTypeOK ==
    /\ status \in BOOLEAN /\ handshakeErr \in {"nil", "failed"}
    /\ mutex \in Callers \cup {Free} /\ runs \in Nat
    /\ transport \in {"open", "closed"} /\ closed \in BOOLEAN
    /\ at \in [Callers -> CallerLabels]
    /\ ret \in [Callers -> {"none", "nil", "failed", "ctx"}]
    /\ ctx \in [Callers -> {"live", "cancelled"}]
    /\ done \in [Callers -> BOOLEAN]
    /\ interrupter \in [Callers -> {"none", "waiting", "nil", "ctx"}]

\* conn.go, of the field: "handshakeStatus == 1 implies handshakeErr == nil".
\* handshakeContext panics when it finds the contrary.
CompleteMeansNoError == status => handshakeErr = "nil"

\* However many goroutines make the first call, and whether it succeeds, fails
\* or is interrupted, handshakeFn is called at most once on a connection.
HandshakeRunsOnce == runs <= 1

\* No two callers are told different things: if one was told that the handshake
\* is done, then it is done and no other caller gets the handshake's error.
ResultsAgree ==
    \A g \in Callers : ret[g] = "nil" =>
        status /\ \A h \in Callers : ret[h] # "failed"

\* When handshakeContext returns, its interrupter has ended: a context that is
\* cancelled later cannot close the transport, and an interrupter that has
\* closed it made its caller return the context's error.
InterrupterJoined ==
    \A g \in Callers : at[g] = "idle" =>
        /\ interrupter[g] # "waiting"
        /\ interrupter[g] = "ctx" => ret[g] = "ctx"

\* HandshakeContext: "If the context is canceled before the handshake is
\* complete, the handshake is interrupted".  A call with a cancelled context
\* returns, even one that only waits for another caller's handshake.
CancelledCallReturns ==
    \A g \in Cancellable :
        (at[g] # "idle" /\ ctx[g] = "cancelled") ~> (at[g] = "idle")
=============================================================================
