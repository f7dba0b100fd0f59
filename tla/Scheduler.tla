------------------------------ MODULE Scheduler ------------------------------
(***************************************************************************)
(* The Scheduler of the disguise package: a binary heap of cells ordered   *)
(* by send time, driven through container/heap by ScheduleCell and         *)
(* GetNextCell.  Scheduler.mu makes each method one step.  A cell is known *)
(* by the number of cells scheduled before it.  Send times come from the   *)
(* wall clock, which need not advance between two readings and which an    *)
(* administrator or NTP can set back.                                      *)
(*                                                                         *)
(* The names of the specification begin with scheduler, apart from those   *)
(* of Framing, which makes the cells; CellProofs extends both.             *)
(***************************************************************************)
EXTENDS Integers, Sequences

CONSTANTS
    MaxItems,    \* bound: cells scheduled in a behaviour
    MaxTime,     \* bound: the last value of the clock
    Intervals,   \* the ProbingIntervals of the profiles
    WebInterval  \* the one of WebBrowsing, with which NewScheduler starts

ASSUME SchedulerAssumption ==
    /\ MaxItems \in Nat /\ MaxTime \in Nat
    /\ Intervals \subseteq Nat /\ WebInterval \in Intervals

VARIABLES
    queue,     \* Scheduler.queue: the heap, root first
    interval,  \* Scheduler.profile.ProbingInterval
    now,       \* the wall clock
    count,     \* cells scheduled so far
    popped     \* history: the cellItems taken out, in order

schedulerVars == <<queue, interval, now, count, popped>>

-----------------------------------------------------------------------------
(* cellPriorityQueue: heap.Interface.  Positions count from 1, the index   *)
(* field from 0.                                                           *)

Less(q, i, j) == q[i].prio < q[j].prio

Swap(q, i, j) ==
    [q EXCEPT ![i] = [q[j] EXCEPT !.index = i - 1],
              ![j] = [q[i] EXCEPT !.index = j - 1]]

Push(q, item) == Append(q, [item EXCEPT !.index = Len(q)])

Pop(q) == SubSeq(q, 1, Len(q) - 1)

(* container/heap: up, down, heap.Push and heap.Pop.  The loops of up and   *)
(* down are at position pos of heap q; a round that changes nothing stands *)
(* for their break.                                                        *)

Parent(j) == j \div 2

UpRound(h) ==
    LET i == Parent(h.pos)
    IN IF h.pos > 1 /\ Less(h.q, h.pos, i)
       THEN [q |-> Swap(h.q, i, h.pos), pos |-> i] ELSE h

\* The lesser child of position i in a heap of n items, the left one on a tie.
Child(q, i, n) ==
    IF 2 * i + 1 <= n /\ Less(q, 2 * i + 1, 2 * i) THEN 2 * i + 1 ELSE 2 * i

DownRound(h, n) ==
    LET j == Child(h.q, h.pos, n)
    IN IF 2 * h.pos <= n /\ Less(h.q, j, h.pos)
       THEN [q |-> Swap(h.q, h.pos, j), pos |-> j] ELSE h

\* As a round that goes on moves pos, there are no more than items in q.
up(q, j) ==
    LET rounds[k \in 0 .. Len(q)] ==
            IF k = 0 THEN [q |-> q, pos |-> j] ELSE UpRound(rounds[k - 1])
    IN rounds[Len(q)].q

down(q, i, n) ==
    LET rounds[k \in 0 .. Len(q)] ==
            IF k = 0 THEN [q |-> q, pos |-> i] ELSE DownRound(rounds[k - 1], n)
    IN rounds[Len(q)].q

\* Mutant of HeapPush: the new item stays where Push put it.
HeapPushNoUp(q, item) == Push(q, item)

HeapPush(q, item) == up(Push(q, item), Len(q) + 1)

HeapPop(q) == Pop(down(Swap(q, 1, Len(q)), 1, Len(q) - 1))

-----------------------------------------------------------------------------
(* The Scheduler's methods.                                                *)

\* NewScheduler.
SchedulerInit ==
    /\ queue = <<>> /\ interval = WebInterval /\ now = 0
    /\ count = 0 /\ popped = <<>>

SetProfile(i) ==
    /\ interval' = i
    /\ UNCHANGED <<queue, now, count, popped>>

\* A data cell gets the time of its scheduling as its send time, a cover cell
\* a time one ProbingInterval later.
ScheduleCell(dummy) ==
    /\ count < MaxItems
    /\ queue' = HeapPush(queue,
                  [cell |-> count, dummy |-> dummy, index |-> 0,
                   prio |-> IF dummy THEN now + interval ELSE now])
    /\ count' = count + 1
    /\ UNCHANGED <<interval, now, popped>>

\* Mutant of GetNextCell: the end of the slice is taken for the head.
GetNextCellLast ==
    /\ queue # <<>> /\ queue[1].prio <= now
    /\ popped' = Append(popped, queue[Len(queue)])
    /\ queue' = Pop(queue)
    /\ UNCHANGED <<interval, now, count>>

\* GetNextCell with a cell that is due: it returns the item at the root and
\* lets heap.Pop take an item out.
GetNextCell ==
    /\ queue # <<>> /\ queue[1].prio <= now
    /\ popped' = Append(popped, queue[1])
    /\ queue' = HeapPop(queue)
    /\ UNCHANGED <<interval, now, count>>

\* GetNextCell answers nil.
NothingDue == queue = <<>> \/ now < queue[1].prio

ClockTick ==
    /\ now < MaxTime
    /\ now' = now + 1
    /\ UNCHANGED <<queue, interval, count, popped>>

ClockSetBack ==
    /\ now > 0
    /\ now' = now - 1
    /\ UNCHANGED <<queue, interval, count, popped>>

SchedulerNext ==
    \/ \E i \in Intervals : SetProfile(i)
    \/ \E dummy \in BOOLEAN : ScheduleCell(dummy)
    \/ GetNextCell
    \/ ClockTick
    \/ ClockSetBack

SchedulerSpec == SchedulerInit /\ [][SchedulerNext]_schedulerVars

-----------------------------------------------------------------------------
(* Properties.                                                             *)

\* GetNextCell reads the root before it calls heap.Pop and drops what heap.Pop
\* returns: the scheduler is a collection from which a cell of least send time
\* is taken, and the one returned is the one removed.
Abstract == INSTANCE CellQueue WITH
    Items <- 0..(MaxItems - 1),
    Times <- {t + i : t \in 0..MaxTime, i \in Intervals \cup {0}},
    pending <- {[item |-> queue[i].cell, prio |-> queue[i].prio] : i \in DOMAIN queue},
    taken <- IF popped = <<>> THEN {}
             ELSE {[item |-> popped[Len(popped)].cell, prio |-> popped[Len(popped)].prio]}

\* Every behaviour of the heap is one of the abstract queue.  As the send time
\* of a data cell is the time of its scheduling, data is then reordered, which
\* the Reassembler does not forgive, only when the clock did not tell two cells
\* apart or was set back between them.
ImplementsCellQueue == Abstract!Spec

\* GetNextCell looks at the root only, and its callers stop at the first nil:
\* it never answers nil while a cell anywhere in the heap is due.
DueCellFound ==
    NothingDue => \A i \in DOMAIN queue : now < queue[i].prio
=============================================================================
