------------------------------- MODULE Manager -------------------------------
(***************************************************************************)
(* The Manager's lock and what it guards: the profile in use, the copies   *)
(* of it in the Framer and the Scheduler, and the observation queue that   *)
(* the classifier learns from.  Goroutines of the application call its     *)
(* methods while its own two loops, started by NewManager, run beside      *)
(* them.  What the methods do to cells is the subject of DisguiseLink.tla; *)
(* Framer.mu, Scheduler.mu and HMMClassifier.mu are only ever taken inside *)
(* Manager.mu and cannot be contended.                                     *)
(***************************************************************************)
EXTENDS Integers, Sequences

CONSTANTS
    Callers,          \* goroutines of the application
    Cover, Profiler,  \* startCoverTrafficLoop, startDynamicProfilingLoop
    Free,             \* the owner of an unlocked mutex
    States,           \* the traffic types the classifier can predict
    WebBrowsing,      \* the one NewScheduler starts with
    Dynamic,          \* the type NewManager starts with, unknown to it
    Interval,         \* the ProbingInterval of each traffic type
    NoTicker,         \* the cover loop has not made its ticker yet
    Enough,           \* observations the profiling loop waits for, 10
    MaxCells,         \* bound: cells of one message
    MaxObs            \* bound: length of the observation queue

Types == States \cup {Dynamic}
Procs == Callers \cup {Cover, Profiler}

ASSUME ManagerAssumption ==
    /\ Cover \notin Callers /\ Profiler \notin Callers /\ Cover # Profiler
    /\ Free \notin Procs
    /\ WebBrowsing \in States /\ Dynamic \notin States
    /\ Interval \in [Types -> Nat]
    /\ NoTicker \notin Nat
    /\ Enough \in Nat /\ MaxCells \in Nat /\ MaxObs \in Nat

VARIABLES
    mu,        \* Manager.mu: its owner
    pc,        \* where each goroutine is
    arg,       \* the profile each goroutine's SetProfile is called with
    profile,   \* Manager.profile
    framer,    \* Framer.profile
    sched,     \* Scheduler.profile
    obs,       \* observationQueue, by the profile each entry was made under
    ticker,    \* the interval of the cover loop's ticker
    panicked   \* a panic ended the process

vars == <<mu, pc, arg, profile, framer, sched, obs, ticker, panicked>>
profiles == <<profile, framer, sched>>

Init ==
    /\ mu = Free
    /\ pc = [p \in Procs |-> IF p = Cover THEN "start" ELSE "idle"]
    /\ arg = [p \in Procs |-> Dynamic]
    /\ profile = Dynamic /\ framer = Dynamic /\ sched = WebBrowsing
    /\ obs = <<>> /\ ticker = NoTicker /\ panicked = FALSE

-----------------------------------------------------------------------------
(* A method is called, takes the lock, does its work and unlocks.          *)

\* Where a goroutine waits in m.mu.Lock, and where it goes once it has it.
InLock == [setLock |-> "set", queueLock |-> "queue", inboundLock |-> "inbound",
           otherLock |-> "other", coverLock |-> "cover", profLock |-> "prof"]

Call(c, op) ==
    /\ ~panicked /\ pc[c] = "idle"
    /\ pc' = [pc EXCEPT ![c] = op]
    /\ UNCHANGED <<mu, arg, obs, ticker, panicked>> /\ UNCHANGED profiles

CallSetProfile(c, t) ==
    /\ ~panicked /\ pc[c] = "idle"
    /\ pc' = [pc EXCEPT ![c] = "setLock"]
    /\ arg' = [arg EXCEPT ![c] = t]
    /\ UNCHANGED <<mu, obs, ticker, panicked>> /\ UNCHANGED profiles

Acquire(p) ==
    /\ ~panicked /\ pc[p] \in DOMAIN InLock /\ mu = Free
    /\ mu' = p
    /\ pc' = [pc EXCEPT ![p] = InLock[pc[p]]]
    /\ UNCHANGED <<arg, obs, ticker, panicked>> /\ UNCHANGED profiles

\* Train indexes TransitionCounts by the label: of Dynamic it has no map, and
\* with two observations or more the assignment into it panics.
TrainPanics == profile = Dynamic /\ Len(obs) > 1

\* Mutant of SetProfile: it clears the observations only after a training.
SetProfileKeepsObs(p) ==
    /\ ~panicked /\ pc[p] = "set" /\ ~TrainPanics
    /\ obs' = IF Len(obs) > 1 THEN <<>> ELSE obs
    /\ profile' = arg[p] /\ framer' = arg[p] /\ sched' = arg[p]
    /\ mu' = Free
    /\ pc' = [pc EXCEPT ![p] = IF p = Profiler THEN "clear" ELSE "idle"]
    /\ arg' = [arg EXCEPT ![p] = Dynamic]
    /\ ticker' = ticker
    /\ UNCHANGED panicked

\* The body of SetProfile, its deferred Unlock included: the observations are
\* used for training and cleared, then all three profiles change.
SetProfile(p) ==
    /\ ~panicked /\ pc[p] = "set" /\ ~TrainPanics
    /\ obs' = <<>>
    /\ profile' = arg[p] /\ framer' = arg[p] /\ sched' = arg[p]
    /\ mu' = Free
    /\ pc' = [pc EXCEPT ![p] = IF p = Profiler THEN "clear" ELSE "idle"]
    /\ arg' = [arg EXCEPT ![p] = Dynamic]
    /\ UNCHANGED <<ticker, panicked>>

SetProfilePanics(p) ==
    /\ ~panicked /\ pc[p] = "set" /\ TrainPanics
    /\ panicked' = TRUE
    /\ mu' = Free
    /\ UNCHANGED <<pc, arg, obs, ticker>> /\ UNCHANGED profiles

\* QueueApplicationData fragments data into k cells and observes each one.
QueueApplicationData(c, k) ==
    /\ ~panicked /\ pc[c] = "queue"
    /\ Len(obs) + k <= MaxObs
    /\ obs' = obs \o [i \in 1..k |-> profile]
    /\ mu' = Free
    /\ pc' = [pc EXCEPT ![c] = "idle"]
    /\ UNCHANGED <<arg, ticker, panicked>> /\ UNCHANGED profiles

\* ProcessInboundTraffic observes a data cell, before it asks the Reassembler;
\* it returns early for a record it cannot decode or a cell of another type.
ProcessInboundTraffic(c, data) ==
    /\ ~panicked /\ pc[c] = "inbound"
    /\ data => Len(obs) < MaxObs
    /\ obs' = IF data THEN Append(obs, profile) ELSE obs
    /\ mu' = Free
    /\ pc' = [pc EXCEPT ![c] = "idle"]
    /\ UNCHANGED <<arg, ticker, panicked>> /\ UNCHANGED profiles

\* GetOutboundTraffic and ReadApplicationData touch nothing of the above.
OtherMethod(c) ==
    /\ ~panicked /\ pc[c] = "other"
    /\ mu' = Free
    /\ pc' = [pc EXCEPT ![c] = "idle"]
    /\ UNCHANGED <<arg, obs, ticker, panicked>> /\ UNCHANGED profiles

-----------------------------------------------------------------------------
(* The Manager's own loops.                                                *)

\* startCoverTrafficLoop makes its ticker from m.profile, without the lock.
CoverStarts ==
    /\ ~panicked /\ pc[Cover] = "start"
    /\ ticker' = Interval[profile]
    /\ pc' = [pc EXCEPT ![Cover] = "idle"]
    /\ UNCHANGED <<mu, arg, obs, panicked>> /\ UNCHANGED profiles

Tick(p, op) ==
    /\ ~panicked /\ pc[p] = "idle"
    /\ pc' = [pc EXCEPT ![p] = op]
    /\ UNCHANGED <<mu, arg, obs, ticker, panicked>> /\ UNCHANGED profiles

\* The cover loop schedules a cover cell and unlocks.
CoverBody ==
    /\ ~panicked /\ pc[Cover] = "cover"
    /\ mu' = Free
    /\ pc' = [pc EXCEPT ![Cover] = "idle"]
    /\ UNCHANGED <<arg, obs, ticker, panicked>> /\ UNCHANGED profiles

\* Mutant of ProfilerSkips: it continues without unlocking.
ProfilerSkipsNoUnlock ==
    /\ ~panicked /\ pc[Profiler] = "prof" /\ Len(obs) < Enough
    /\ pc' = [pc EXCEPT ![Profiler] = "idle"]
    /\ UNCHANGED <<mu, arg, obs, ticker, panicked>> /\ UNCHANGED profiles

\* The profiling loop has too little to go by and unlocks.
ProfilerSkips ==
    /\ ~panicked /\ pc[Profiler] = "prof" /\ Len(obs) < Enough
    /\ mu' = Free
    /\ pc' = [pc EXCEPT ![Profiler] = "idle"]
    /\ UNCHANGED <<arg, obs, ticker, panicked>> /\ UNCHANGED profiles

\* The profiling loop predicts t.  If that is another profile than the one in
\* use it calls SetProfile, which locks m.mu, which the loop holds.
ProfilerPredicts(t) ==
    /\ ~panicked /\ pc[Profiler] = "prof" /\ Len(obs) >= Enough
    /\ pc' = [pc EXCEPT ![Profiler] = IF t = profile THEN "clear" ELSE "setLock"]
    /\ arg' = IF t = profile THEN arg ELSE [arg EXCEPT ![Profiler] = t]
    /\ UNCHANGED <<mu, obs, ticker, panicked>> /\ UNCHANGED profiles

ProfilerClears ==
    /\ ~panicked /\ pc[Profiler] = "clear"
    /\ obs' = <<>>
    /\ mu' = Free
    /\ pc' = [pc EXCEPT ![Profiler] = "idle"]
    /\ UNCHANGED <<arg, ticker, panicked>> /\ UNCHANGED profiles

-----------------------------------------------------------------------------
CallerStep(c) ==
    \/ \E op \in {"queueLock", "inboundLock", "otherLock"} : Call(c, op)
    \/ \E t \in Types : CallSetProfile(c, t)
    \/ \E k \in 0..MaxCells : QueueApplicationData(c, k)
    \/ \E data \in BOOLEAN : ProcessInboundTraffic(c, data)
    \/ OtherMethod(c)

Next ==
    \/ \E c \in Callers : CallerStep(c)
    \/ \E p \in Procs : Acquire(p) \/ SetProfile(p) \/ SetProfilePanics(p)
    \/ CoverStarts \/ Tick(Cover, "coverLock") \/ CoverBody
    \/ Tick(Profiler, "profLock") \/ ProfilerSkips \/ ProfilerClears
    \/ \E t \in States : ProfilerPredicts(t)

Spec == Init /\ [][Next]_vars

\* A goroutine that holds the lock keeps running, and sync.Mutex hands the lock
\* to a goroutine that has waited too long.  The bound on obs stands for no
\* obstacle in the code, so a full queue is no reason to wait either.
Fairness ==
    /\ \A p \in Procs :
        /\ SF_vars(Acquire(p)) /\ WF_vars(SetProfile(p))
        /\ WF_vars(SetProfilePanics(p))
    /\ \A c \in Callers :
        /\ WF_vars(\E k \in 0..MaxCells : QueueApplicationData(c, k))
        /\ WF_vars(\E data \in BOOLEAN : ProcessInboundTraffic(c, data))
        /\ WF_vars(OtherMethod(c))
    /\ WF_vars(CoverStarts) /\ WF_vars(CoverBody)
    /\ WF_vars(Tick(Cover, "coverLock")) /\ WF_vars(Tick(Profiler, "profLock"))
    /\ WF_vars(ProfilerSkips) /\ WF_vars(ProfilerClears)
    /\ WF_vars(\E t \in States : ProfilerPredicts(t))

FairSpec == Spec /\ Fairness

-----------------------------------------------------------------------------
(* Properties.                                                             *)

Labels == {"start", "idle", "set", "queue", "inbound", "other", "cover", "prof",
           "clear", "setLock", "queueLock", "inboundLock", "otherLock",
           "coverLock", "profLock"}

\* The type invariant of the manager.
TypeOK ==
    /\ mu \in Procs \cup {Free}
    /\ pc \in [Procs -> Labels]
    /\ arg \in [Procs -> Types]
    /\ profile \in Types /\ framer \in Types /\ sched \in Types
    /\ obs \in Seq(Types)
    /\ ticker \in Nat \cup {NoTicker}
    /\ panicked \in BOOLEAN

\* Every queued observation was made under the profile now in use, whichever
\* goroutine made it: SetProfile trains the classifier with no other's.
ObservationsOfProfile == \A i \in DOMAIN obs : obs[i] = profile

\* The profiling loop holds m.mu and waits for it.
SelfLocked == mu = Profiler /\ pc[Profiler] = "setLock"

\* No goroutine of the application and not the cover loop ever waits for a
\* lock it holds: every lock left behind is the profiling loop's.
OnlyProfilerLocksTwice ==
    \A p \in Procs : mu = p /\ pc[p] \in DOMAIN InLock => p = Profiler

\* A profiling loop that has decided to switch never gets any further, and no
\* other goroutine takes the lock from then on.
SwitchNeverReturns == [][SelfLocked => SelfLocked']_vars

\* A method of the Manager returns, unless the profiling loop has locked itself
\* out or the process has panicked.
MethodsReturn ==
    \A c \in Callers : (pc[c] # "idle") ~> (pc[c] = "idle" \/ SelfLocked \/ panicked)

\* manager.go: startDynamicProfilingLoop "analyzes traffic load and switches
\* profiles accordingly".
SwitchHappens ==
    \A t \in States :
        (SelfLocked /\ arg[Profiler] = t) ~> (profile = t \/ panicked)
=============================================================================
