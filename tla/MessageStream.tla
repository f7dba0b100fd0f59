---------------------------- MODULE MessageStream ----------------------------
(***************************************************************************)
(* What one direction of a Disguise connection promises its user: a stream *)
(* of messages that may lose messages but never tears one, never repeats   *)
(* one and never hands one over after a later one.  DisguiseLink is shown  *)
(* to implement it.                                                        *)
(***************************************************************************)
EXTENDS Integers, Sequences

CONSTANT MaxUnits   \* bound on the units of data submitted

VARIABLES
    sent,   \* the messages submitted, each an interval of units
    out     \* the units handed over, in order

vars == <<sent, out>>

Init == sent = <<>> /\ out = <<>>

NextUnit == IF sent = <<>> THEN 0 ELSE sent[Len(sent)].last + 1

\* The writer submits a message of k units.
Submit(k) ==
    /\ NextUnit + k <= MaxUnits
    /\ sent' = Append(sent, [first |-> NextUnit, last |-> NextUnit + k - 1])
    /\ UNCHANGED out

Units(a, b) == [n \in 1..(b - a + 1) |-> a + n - 1]

\* The reader is given messages i to j, all later than what it has.
HandOver(i, j) ==
    /\ out # <<>> => out[Len(out)] < sent[i].first
    /\ out' = out \o Units(sent[i].first, sent[j].last)
    /\ UNCHANGED sent

Next ==
    \/ \E k \in 1..MaxUnits : Submit(k)
    \/ \E i, j \in DOMAIN sent : i <= j /\ HandOver(i, j)

Spec == Init /\ [][Next]_vars
=============================================================================
