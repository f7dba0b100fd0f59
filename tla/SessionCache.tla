----------------------------- MODULE SessionCache -----------------------------
(***************************************************************************)
(* The ClientSessionCache of NewLRUClientSessionCache.  The map m and the  *)
(* list q of lruSessionCache are one sequence of entries here, the one     *)
(* used last at the front; each method runs under the cache's mutex.       *)
(***************************************************************************)
EXTENDS Naturals, Sequences

CONSTANTS
    Capacity,   \* of the cache, at least 1
    NoSession   \* a nil *ClientSessionState

Entry(name, state) == [name |-> name, state |-> state]

Cached(q, name) == \E i \in DOMAIN q : q[i].name = name

\* Where the entry for name is; there is one at most.
Place(q, name) == CHOOSE i \in DOMAIN q : q[i].name = name

\* q with the entry for name removed.
Without(q, name) ==
    SubSeq(q, 1, Place(q, name) - 1) \o SubSeq(q, Place(q, name) + 1, Len(q))

\* What Get returns.
State(q, name) ==
    IF Cached(q, name) THEN q[Place(q, name)].state ELSE NoSession

\* Get moves the entry to the front.
Get(q, name) ==
    IF Cached(q, name)
    THEN <<Entry(name, State(q, name))>> \o Without(q, name) ELSE q

\* Mutant of Put: the entry that is reused for a new session keeps the name
\* it had.
PutOldName(q, name, cs) ==
    IF Cached(q, name)
    THEN IF cs = NoSession THEN Without(q, name)
         ELSE <<Entry(name, cs)>> \o Without(q, name)
    ELSE IF Len(q) < Capacity THEN <<Entry(name, cs)>> \o q
    ELSE <<Entry(q[Len(q)].name, cs)>> \o SubSeq(q, 1, Len(q) - 1)

\* Put: a nil session removes the entry there is; where there is none, the
\* session, nil or not, takes a free place or that of the entry used least
\* recently.
Put(q, name, cs) ==
    IF Cached(q, name)
    THEN IF cs = NoSession THEN Without(q, name)
         ELSE <<Entry(name, cs)>> \o Without(q, name)
    ELSE <<Entry(name, cs)>> \o
         (IF Len(q) < Capacity THEN q ELSE SubSeq(q, 1, Len(q) - 1))

=============================================================================
