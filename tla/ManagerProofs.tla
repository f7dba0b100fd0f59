---------------------------- MODULE ManagerProofs ----------------------------
(***************************************************************************)
(* What the Manager's lock protects, for any number of goroutines and any  *)
(* set of profiles, and what it does to the profiling loop.                *)
(***************************************************************************)
EXTENDS Manager, SequenceTheorems, TLAPS

\* The places at which a goroutine holds m.mu.
Holding == {"set", "queue", "inbound", "other", "cover", "prof", "clear"}

\* m.mu excludes: its owner is at a place that holds it, and nobody else is.
\* The one owner that also waits for it is a profiling loop inside SetProfile,
\* which therefore never gets to SetProfile's body.
MutexInv ==
    /\ \A p \in Procs : ~panicked /\ pc[p] \in Holding => mu = p
    /\ \A p \in Procs : mu = p => \/ pc[p] \in Holding
                                  \/ p = Profiler /\ pc[p] = "setLock"
    /\ ~panicked /\ pc[Profiler] = "setLock" => mu = Profiler
    /\ pc[Profiler] # "set"


\* Where the goroutines named by role are.
LEMMA Roles ==
  /\ Cover \in Procs /\ Profiler \in Procs /\ Callers \subseteq Procs
  /\ Cover # Profiler /\ \A c \in Callers : c # Cover /\ c # Profiler
  /\ Free \notin Procs
  BY ManagerAssumption DEF Procs

\* Every step keeps the types.
LEMMA TypeStep == TypeOK /\ [Next]_vars => TypeOK'
  <1> SUFFICES ASSUME TypeOK, [Next]_vars PROVE TypeOK'
    OBVIOUS
  <1> USE Roles
  <1>t. States \subseteq Types /\ Dynamic \in Types
    BY DEF Types
  <1>1. ASSUME NEW c \in Callers, CallerStep(c) PROVE TypeOK'
    <2>1. ASSUME NEW op \in {"queueLock", "inboundLock", "otherLock"}, Call(c, op)
          PROVE TypeOK'
      BY <2>1 DEF Call, TypeOK, Labels, profiles
    <2>2. ASSUME NEW t \in Types, CallSetProfile(c, t) PROVE TypeOK'
      BY <2>2 DEF CallSetProfile, TypeOK, Labels, profiles
    <2>3. ASSUME NEW k \in 0..MaxCells, QueueApplicationData(c, k) PROVE TypeOK'
      <3>1. [i \in 1..k |-> profile] \in Seq(Types)
        BY ManagerAssumption DEF TypeOK
      <3>2. obs' \in Seq(Types)
        BY <2>3, <3>1, ConcatProperties DEF QueueApplicationData, TypeOK
      <3> QED
        BY <2>3, <3>2 DEF QueueApplicationData, TypeOK, Labels, profiles
    <2>4. ASSUME NEW data \in BOOLEAN, ProcessInboundTraffic(c, data) PROVE TypeOK'
      <3>1. obs' \in Seq(Types)
        BY <2>4, AppendProperties DEF ProcessInboundTraffic, TypeOK
      <3> QED
        BY <2>4, <3>1 DEF ProcessInboundTraffic, TypeOK, Labels, profiles
    <2>5. CASE OtherMethod(c)
      BY <2>5 DEF OtherMethod, TypeOK, Labels, profiles
    <2> QED
      BY <1>1, <2>1, <2>2, <2>3, <2>4, <2>5 DEF CallerStep
  <1>2. ASSUME NEW p \in Procs, Acquire(p) PROVE TypeOK'
    <2>1. InLock[pc[p]] \in Labels
      BY <1>2 DEF Acquire, InLock, Labels
    <2> QED
      BY <1>2, <2>1 DEF Acquire, TypeOK, profiles
  <1>3. ASSUME NEW p \in Procs, SetProfile(p) PROVE TypeOK'
    <2>1. obs' \in Seq(Types)
      BY <1>3, EmptySeq DEF SetProfile
    <2>2. arg[p] \in Types
      BY DEF TypeOK
    <2> QED
      BY <1>3, <1>t, <2>1, <2>2 DEF SetProfile, TypeOK, Labels
  <1>4. ASSUME NEW p \in Procs, SetProfilePanics(p) PROVE TypeOK'
    BY <1>4 DEF SetProfilePanics, TypeOK, profiles
  <1>5. CASE CoverStarts
    <2>1. ticker' \in Nat
      BY <1>5, ManagerAssumption DEF CoverStarts, TypeOK
    <2> QED
      BY <1>5, <2>1 DEF CoverStarts, TypeOK, Labels, profiles
  <1>6. CASE Tick(Cover, "coverLock")
    BY <1>6 DEF Tick, TypeOK, Labels, profiles
  <1>7. CASE CoverBody
    BY <1>7 DEF CoverBody, TypeOK, Labels, profiles
  <1>8. CASE Tick(Profiler, "profLock")
    BY <1>8 DEF Tick, TypeOK, Labels, profiles
  <1>9. CASE ProfilerSkips
    BY <1>9 DEF ProfilerSkips, TypeOK, Labels, profiles
  <1>10. CASE ProfilerClears
    <2>1. obs' \in Seq(Types)
      BY <1>10, EmptySeq DEF ProfilerClears
    <2> QED
      BY <1>10, <2>1 DEF ProfilerClears, TypeOK, Labels, profiles
  <1>11. ASSUME NEW t \in States, ProfilerPredicts(t) PROVE TypeOK'
    BY <1>11, <1>t DEF ProfilerPredicts, TypeOK, Labels, profiles
  <1>12. CASE UNCHANGED vars
    BY <1>12 DEF vars, TypeOK
  <1> QED
    BY <1>1, <1>2, <1>3, <1>4, <1>5, <1>6, <1>7, <1>8, <1>9, <1>10, <1>11, <1>12
       DEF Next

\* A goroutine that does not hold the lock moves to a place that does not hold
\* it either.
LEMMA Moves ==
  ASSUME TypeOK, MutexInv, NEW p \in Procs, NEW op \in Labels,
         ~panicked, mu # p, op \notin Holding, p = Profiler => op # "setLock",
         pc' = [pc EXCEPT ![p] = op], UNCHANGED <<mu, panicked>>
  PROVE  MutexInv'
  <1>1. pc \in [Procs -> Labels] /\ Profiler \in Procs
    BY Roles DEF TypeOK
  <1>2. pc'[p] = op /\ \A q \in Procs : q # p => pc'[q] = pc[q]
    BY <1>1
  <1>3. \A q \in Procs : ~panicked' /\ pc'[q] \in Holding => mu' = q
    BY <1>2 DEF MutexInv
  <1>4. \A q \in Procs : mu' = q => \/ pc'[q] \in Holding
                                    \/ q = Profiler /\ pc'[q] = "setLock"
    BY <1>2 DEF MutexInv
  <1>5. ~panicked' /\ pc'[Profiler] = "setLock" => mu' = Profiler
    BY <1>1, <1>2 DEF MutexInv
  <1>6. pc'[Profiler] # "set"
    BY <1>1, <1>2 DEF MutexInv, Holding
  <1> QED
    BY <1>3, <1>4, <1>5, <1>6 DEF MutexInv

\* The owner of the lock unlocks it and moves to a place that does not hold it.
LEMMA Unlocks ==
  ASSUME TypeOK, MutexInv, NEW p \in Procs, NEW op \in Labels,
         ~panicked, mu = p, op \notin Holding, op # "setLock",
         pc' = [pc EXCEPT ![p] = op], mu' = Free, UNCHANGED panicked
  PROVE  MutexInv'
  <1>1. pc \in [Procs -> Labels] /\ Profiler \in Procs /\ Free \notin Procs
    BY Roles DEF TypeOK
  <1>2. pc'[p] = op /\ \A q \in Procs : q # p => pc'[q] = pc[q]
    BY <1>1
  <1>3. \A q \in Procs : q # p => pc[q] \notin Holding
    BY DEF MutexInv
  <1>4. \A q \in Procs : pc'[q] \notin Holding
    BY <1>2, <1>3
  <1>5. pc'[Profiler] # "setLock"
    BY <1>1, <1>2 DEF MutexInv
  <1>6. pc'[Profiler] # "set"
    BY <1>1, <1>4 DEF Holding
  <1> QED
    BY <1>1, <1>4, <1>5, <1>6 DEF MutexInv

\* m.mu excludes, whoever calls what.
LEMMA MutexStep ==
  ASSUME TypeOK, MutexInv, [Next]_vars
  PROVE  MutexInv'
  <1> USE Roles
  <1>i. pc \in [Procs -> Labels] /\ "idle" \in Labels /\ "idle" \notin Holding
    BY DEF TypeOK, Labels, Holding
  <1>h. \A q \in Procs : ~panicked /\ pc[q] \in Holding => mu = q
    BY DEF MutexInv
  <1>n. \A q \in Procs : ~panicked /\ pc[q] \in {"idle", "start"} => mu # q
    BY DEF MutexInv, Holding
  <1>1. ASSUME NEW c \in Callers, CallerStep(c) PROVE MutexInv'
    <2>1. ASSUME NEW op \in {"queueLock", "inboundLock", "otherLock"}, Call(c, op)
          PROVE MutexInv'
      <3>1. op \in Labels /\ op \notin Holding
        BY DEF Labels, Holding
      <3>2. /\ ~panicked /\ mu # c /\ pc' = [pc EXCEPT ![c] = op]
            /\ UNCHANGED <<mu, panicked>>
        BY <2>1, <1>n DEF Call
      <3> QED
        BY <3>1, <3>2, Moves
    <2>2. ASSUME NEW t \in Types, CallSetProfile(c, t) PROVE MutexInv'
      <3>1. "setLock" \in Labels /\ "setLock" \notin Holding /\ c # Profiler
        BY DEF Labels, Holding
      <3>2. /\ ~panicked /\ mu # c /\ pc' = [pc EXCEPT ![c] = "setLock"]
            /\ UNCHANGED <<mu, panicked>>
        BY <2>2, <1>n DEF CallSetProfile
      <3> QED
        BY <3>1, <3>2, Moves
    <2>3. CASE \/ \E k \in 0..MaxCells : QueueApplicationData(c, k)
               \/ \E data \in BOOLEAN : ProcessInboundTraffic(c, data)
               \/ OtherMethod(c)
      <3>1. /\ ~panicked /\ pc[c] \in {"queue", "inbound", "other"}
            /\ pc' = [pc EXCEPT ![c] = "idle"] /\ mu' = Free /\ UNCHANGED panicked
        BY <2>3 DEF QueueApplicationData, ProcessInboundTraffic, OtherMethod
      <3>2. mu = c
        BY <1>h, <3>1 DEF Holding
      <3> QED
        BY <1>i, <3>1, <3>2, Unlocks
    <2> QED
      BY <1>1, <2>1, <2>2, <2>3 DEF CallerStep
  <1>2. ASSUME NEW p \in Procs, Acquire(p) PROVE MutexInv'
    <2>1. /\ ~panicked /\ pc[p] \in DOMAIN InLock /\ mu = Free /\ mu' = p
          /\ pc' = [pc EXCEPT ![p] = InLock[pc[p]]] /\ UNCHANGED panicked
      BY <1>2 DEF Acquire
    <2>2. pc'[p] = InLock[pc[p]] /\ \A q \in Procs : q # p => pc'[q] = pc[q]
      BY <1>i, <2>1
    <2>3. pc'[p] \in Holding
      BY <2>1, <2>2 DEF InLock, Holding
    <2>4. \A q \in Procs : pc[q] \notin Holding
      BY <1>h, <2>1
    <2>5. pc[Profiler] # "setLock"
      BY <2>1 DEF MutexInv
    <2>6. pc'[Profiler] # "setLock"
      BY <2>2, <2>3, <2>5 DEF Holding
    <2>7. pc'[Profiler] # "set"
      <3>1. CASE p = Profiler
        <4>1. pc[p] \in {"queueLock", "inboundLock", "otherLock", "coverLock", "profLock"}
          BY <2>1, <2>5, <3>1 DEF InLock
        <4> QED
          BY <2>2, <3>1, <4>1 DEF InLock
      <3>2. CASE p # Profiler
        BY <2>2, <3>2 DEF MutexInv
      <3> QED
        BY <3>1, <3>2
    <2> QED
      BY <2>1, <2>2, <2>3, <2>4, <2>6, <2>7 DEF MutexInv
  <1>3. ASSUME NEW p \in Procs, SetProfile(p) PROVE MutexInv'
    <2>1. p # Profiler
      BY <1>3 DEF SetProfile, MutexInv
    <2>2. /\ ~panicked /\ pc[p] = "set" /\ pc' = [pc EXCEPT ![p] = "idle"]
          /\ mu' = Free /\ UNCHANGED panicked
      BY <1>3, <2>1 DEF SetProfile
    <2>3. mu = p
      BY <1>h, <2>2 DEF Holding
    <2> QED
      BY <1>i, <2>2, <2>3, Unlocks
  <1>4. ASSUME NEW p \in Procs, SetProfilePanics(p) PROVE MutexInv'
    BY <1>4 DEF SetProfilePanics, MutexInv
  <1>5. CASE CoverStarts
    <2>1. /\ ~panicked /\ mu # Cover /\ pc' = [pc EXCEPT ![Cover] = "idle"]
          /\ UNCHANGED <<mu, panicked>>
      BY <1>5, <1>n DEF CoverStarts
    <2> QED
      BY <1>i, <2>1, Moves
  <1>6. CASE Tick(Cover, "coverLock")
    <2>1. /\ ~panicked /\ mu # Cover /\ pc' = [pc EXCEPT ![Cover] = "coverLock"]
          /\ UNCHANGED <<mu, panicked>>
      BY <1>6, <1>n DEF Tick
    <2>2. "coverLock" \in Labels /\ "coverLock" \notin Holding
      BY DEF Labels, Holding
    <2> QED
      BY <2>1, <2>2, Moves
  <1>7. CASE CoverBody
    <2>1. /\ ~panicked /\ pc[Cover] = "cover" /\ pc' = [pc EXCEPT ![Cover] = "idle"]
          /\ mu' = Free /\ UNCHANGED panicked
      BY <1>7 DEF CoverBody
    <2>2. mu = Cover
      BY <1>h, <2>1 DEF Holding
    <2> QED
      BY <1>i, <2>1, <2>2, Unlocks
  <1>8. CASE Tick(Profiler, "profLock")
    <2>1. /\ ~panicked /\ mu # Profiler /\ pc' = [pc EXCEPT ![Profiler] = "profLock"]
          /\ UNCHANGED <<mu, panicked>>
      BY <1>8, <1>n DEF Tick
    <2>2. "profLock" \in Labels /\ "profLock" \notin Holding
      BY DEF Labels, Holding
    <2> QED
      BY <2>1, <2>2, Moves
  <1>9. CASE ProfilerSkips \/ ProfilerClears
    <2>1. /\ ~panicked /\ pc[Profiler] \in {"prof", "clear"}
          /\ pc' = [pc EXCEPT ![Profiler] = "idle"]
          /\ mu' = Free /\ UNCHANGED panicked
      BY <1>9 DEF ProfilerSkips, ProfilerClears
    <2>2. mu = Profiler
      BY <1>h, <2>1 DEF Holding
    <2> QED
      BY <1>i, <2>1, <2>2, Unlocks
  <1>10. ASSUME NEW t \in States, ProfilerPredicts(t) PROVE MutexInv'
    <2>1. /\ ~panicked /\ pc[Profiler] = "prof" /\ UNCHANGED <<mu, panicked>>
          /\ pc' = [pc EXCEPT ![Profiler] = IF t = profile THEN "clear" ELSE "setLock"]
      BY <1>10 DEF ProfilerPredicts
    <2>2. mu = Profiler
      BY <1>h, <2>1 DEF Holding
    <2>3. /\ pc'[Profiler] \in {"clear", "setLock"}
          /\ \A q \in Procs : q # Profiler => pc'[q] = pc[q]
      BY <1>i, <2>1
    <2> QED
      BY <2>1, <2>2, <2>3 DEF MutexInv, Holding
  <1>11. CASE UNCHANGED vars
    BY <1>11 DEF vars, MutexInv
  <1> QED
    BY <1>1, <1>2, <1>3, <1>4, <1>5, <1>6, <1>7, <1>8, <1>9, <1>10, <1>11 DEF Next

\* Only SetProfile changes a profile, and it leaves no observation behind; what is observed is observed under the profile in use.
LEMMA ObservationStep ==
  ASSUME TypeOK, ObservationsOfProfile, [Next]_vars
  PROVE  ObservationsOfProfile'
  <1>1. CASE UNCHANGED profiles /\ obs' = obs
    BY <1>1 DEF ObservationsOfProfile, profiles
  <1>2. CASE UNCHANGED profiles /\ obs' = <<>>
    BY <1>2 DEF ObservationsOfProfile, profiles
  <1>3. ASSUME NEW c \in Callers, NEW k \in 0..MaxCells, QueueApplicationData(c, k)
        PROVE  ObservationsOfProfile'
    <2> DEFINE new == [i \in 1..k |-> profile]
    <2>1. new \in Seq(Types) /\ Len(new) = k /\ \A i \in 1..k : new[i] = profile
      BY ManagerAssumption DEF TypeOK
    <2> HIDE DEF new
    <2>2. obs \in Seq(Types) /\ Len(obs) \in Nat /\ k \in Nat
      BY ManagerAssumption DEF TypeOK
    <2>3. obs' = obs \o new /\ UNCHANGED profiles
      BY <1>3 DEF QueueApplicationData, new
    <2>4. /\ Len(obs') = Len(obs) + k /\ obs' \in Seq(Types)
          /\ \A i \in 1..(Len(obs) + k) :
               obs'[i] = IF i <= Len(obs) THEN obs[i] ELSE new[i - Len(obs)]
      BY <2>1, <2>2, <2>3, ConcatProperties
    <2>5. \A i \in 1..Len(obs) : obs[i] = profile
      BY <2>2 DEF ObservationsOfProfile
    <2>6. ASSUME NEW i \in DOMAIN obs' PROVE obs'[i] = profile
      <3>1. i \in 1..(Len(obs) + k)
        BY <2>4
      <3>2. CASE i <= Len(obs)
        BY <2>2, <2>4, <2>5, <3>1, <3>2
      <3>3. CASE ~(i <= Len(obs))
        <4>1. i - Len(obs) \in 1..k
          BY <2>2, <3>1, <3>3
        <4> QED
          BY <2>1, <2>4, <3>1, <3>3, <4>1
      <3> QED
        BY <3>2, <3>3
    <2> QED
      BY <2>3, <2>6 DEF ObservationsOfProfile, profiles
  <1>4. ASSUME NEW c \in Callers, NEW data \in BOOLEAN, ProcessInboundTraffic(c, data)
        PROVE  ObservationsOfProfile'
    <2>1. CASE data
      <3>1. obs' = Append(obs, profile) /\ UNCHANGED profiles
        BY <1>4, <2>1 DEF ProcessInboundTraffic
      <3>2. obs \in Seq(Types) /\ profile \in Types
        BY DEF TypeOK
      <3> QED
        BY <3>1, <3>2, AppendProperties DEF ObservationsOfProfile, profiles
    <2>2. CASE ~data
      BY <1>1, <1>4, <2>2 DEF ProcessInboundTraffic
    <2> QED
      BY <2>1, <2>2
  <1>5. ASSUME NEW p \in Procs, SetProfile(p) PROVE ObservationsOfProfile'
    BY <1>5 DEF SetProfile, ObservationsOfProfile
  <1>6. CASE ProfilerClears
    BY <1>2, <1>6 DEF ProfilerClears
  <1>7. CASE \/ \E c \in Callers :
                  \/ \E op \in {"queueLock", "inboundLock", "otherLock"} : Call(c, op)
                  \/ \E t \in Types : CallSetProfile(c, t)
                  \/ OtherMethod(c)
             \/ \E p \in Procs : Acquire(p) \/ SetProfilePanics(p)
             \/ CoverStarts \/ Tick(Cover, "coverLock") \/ CoverBody
             \/ Tick(Profiler, "profLock") \/ ProfilerSkips
             \/ \E t \in States : ProfilerPredicts(t)
             \/ UNCHANGED vars
    <2>1. UNCHANGED profiles /\ obs' = obs
      BY <1>7 DEF Call, CallSetProfile, OtherMethod, Acquire, SetProfilePanics,
         CoverStarts, Tick, CoverBody, ProfilerSkips, ProfilerPredicts, profiles, vars
    <2> QED
      BY <1>1, <2>1
  <1> QED
    BY <1>3, <1>4, <1>5, <1>6, <1>7 DEF Next, CallerStep

\* All of it holds in every state.
LEMMA ManagerInvariance == Spec => [](TypeOK /\ MutexInv /\ ObservationsOfProfile)
  <1>1. Init => TypeOK /\ MutexInv /\ ObservationsOfProfile
    <2> SUFFICES ASSUME Init PROVE TypeOK /\ MutexInv /\ ObservationsOfProfile
      OBVIOUS
    <2>1. obs \in Seq(Types) /\ DOMAIN obs = {}
      BY EmptySeq DEF Init
    <2>2. pc \in [Procs -> {"start", "idle"}]
      BY DEF Init
    <2>3. TypeOK
      <3>1. pc \in [Procs -> Labels]
        BY <2>2 DEF Labels
      <3>2. arg \in [Procs -> Types] /\ WebBrowsing \in Types /\ Dynamic \in Types
        BY ManagerAssumption DEF Init, Types
      <3> QED
        BY <2>1, <3>1, <3>2 DEF Init, TypeOK
    <2>4. MutexInv
      BY <2>2, Roles DEF Init, MutexInv, Holding
    <2>5. ObservationsOfProfile
      BY <2>1 DEF Init, ObservationsOfProfile
    <2> QED
      BY <2>3, <2>4, <2>5
  <1>2. TypeOK /\ MutexInv /\ ObservationsOfProfile /\ [Next]_vars
          => (TypeOK /\ MutexInv /\ ObservationsOfProfile)'
    BY TypeStep, MutexStep, ObservationStep
  <1> QED
    BY <1>1, <1>2, PTL DEF Spec

\* Every state of the manager is well typed.
THEOREM ManagerTypes == Spec => []TypeOK
  BY ManagerInvariance, PTL

\* The classifier is only ever trained with observations of the profile it is
\* told they belong to.
THEOREM TrainingLabelsTrue == Spec => []ObservationsOfProfile
  BY ManagerInvariance, PTL

\* Whoever waits for a lock it holds is the profiling loop.
THEOREM OnlyProfiler == Spec => []OnlyProfilerLocksTwice
  <1>1. TypeOK /\ MutexInv => OnlyProfilerLocksTwice
    <2> SUFFICES ASSUME MutexInv, NEW p \in Procs, mu = p, pc[p] \in DOMAIN InLock
                 PROVE  p = Profiler
      BY DEF OnlyProfilerLocksTwice
    <2>1. pc[p] \notin Holding
      BY DEF InLock, Holding
    <2> QED
      BY <2>1 DEF MutexInv
  <1> QED
    BY <1>1, ManagerInvariance, PTL

\* Once the profiling loop calls SetProfile it waits for its own lock for good,
\* and nobody takes the lock again.
THEOREM SwitchIsFinal == Spec => SwitchNeverReturns
  <1>1. ASSUME TypeOK, MutexInv, [Next]_vars, SelfLocked
        PROVE  SelfLocked' \/ UNCHANGED vars
    <2> USE Roles
    <2>1. mu = Profiler /\ pc[Profiler] = "setLock" /\ pc \in [Procs -> Labels]
      BY <1>1 DEF SelfLocked, TypeOK
    <2>2. mu # Free
      BY <2>1
    <2>3. \A q \in Procs : ~panicked => pc[q] \notin Holding
      BY <1>1, <2>1 DEF MutexInv, Holding
    <2>4. ASSUME NEW c \in Callers, NEW op, pc' = [pc EXCEPT ![c] = op], mu' = mu
          PROVE  SelfLocked'
      BY <2>1, <2>4 DEF SelfLocked
    <2>5. ASSUME NEW c \in Callers, CallerStep(c) PROVE SelfLocked'
      <3>1. \/ \E op \in {"queueLock", "inboundLock", "otherLock"} : Call(c, op)
            \/ \E t \in Types : CallSetProfile(c, t)
        BY <2>3, <2>5 DEF CallerStep, QueueApplicationData, ProcessInboundTraffic,
           OtherMethod, Holding
      <3> QED
        BY <2>4, <3>1 DEF Call, CallSetProfile
    <2>6. ASSUME NEW p \in Procs
          PROVE  ~Acquire(p) /\ ~SetProfile(p) /\ ~SetProfilePanics(p)
      BY <2>2, <2>3 DEF Acquire, SetProfile, SetProfilePanics, Holding
    <2>7. CASE CoverStarts \/ Tick(Cover, "coverLock")
      BY <2>1, <2>7 DEF CoverStarts, Tick, SelfLocked
    <2>8. ~CoverBody /\ ~ProfilerSkips /\ ~ProfilerClears /\ ~Tick(Profiler, "profLock")
      BY <2>1, <2>3 DEF CoverBody, ProfilerSkips, ProfilerClears, Tick, Holding
    <2>9. ASSUME NEW t \in States PROVE ~ProfilerPredicts(t)
      BY <2>1 DEF ProfilerPredicts
    <2> QED
      BY <1>1, <2>5, <2>6, <2>7, <2>8, <2>9 DEF Next
  <1>2. TypeOK /\ MutexInv /\ [Next]_vars => [SelfLocked => SelfLocked']_vars
    BY <1>1
  <1> QED
    BY <1>2, ManagerInvariance, PTL DEF Spec, SwitchNeverReturns
=============================================================================
