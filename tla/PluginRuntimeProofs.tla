------------------------ MODULE PluginRuntimeProofs ------------------------
(***************************************************************************)
(* Proofs about PluginRuntime for any number of sessions, permits, queue   *)
(* places and messages: the counters of the queue are exact, the flags     *)
(* that coalesce a session's work tell the truth, and a view is of the     *)
(* epoch its session is in.                                                *)
(***************************************************************************)
EXTENDS PluginRuntime, FiniteSetTheorems, SequenceTheorems, TLAPS

RtType == [sessions : Seq(Objects), state : [Objects -> SessionState],
           queue : Seq(Job), run : [Slots -> Job], bytes : Nat]

\* How many jobs of a queue, and of the running ones, are in a set of jobs.
Queued(q, T) == Cardinality({k \in 1..Len(q) : q[k] \in T})
Ran(f, T) == Cardinality({i \in Slots : f[i] \in T})
Total(r, T) == Queued(r.queue, T) + Ran(r.run, T)

NonIdle == Job \ {Idle}
WithRaw == {j \in Job : j.raw # None}
PlansOf(o) == {j \in Job : j.o = o /\ j.at \in PlanStages}
HydratesOf(o) == {j \in Job : j.o = o /\ j.at \in HydrateStages}

\* What a job holds at each stage.
Planned == {"compress", "scan", "persist"}
JobForm(j) ==
    /\ j.o = 0 => j \in {Idle, Leaked, ClearJob}
    /\ j.o # 0 => j.at \in HydrateStages \cup PlanStages
    /\ j.raw # None <=> j.at \in PlanStages
    /\ j.at \in Planned \cup {"hydrateScan"} => j.plan # None
\* A job that has not begun.
Fresh(j) == JobForm(j) /\ j.at \in {"clear", "hydrate", "resolve"}

\* The queue and the permits; the counters are exact, and nobody waits beside a free permit.
Loose(r) ==
    /\ r \in RtType /\ Len(r.sessions) <= MaxSessions
    /\ \A k \in 1..Len(r.queue) : Fresh(r.queue[k])
    /\ \A i \in Slots : JobForm(r.run[i])
    /\ r.queue # << >> => disposed = "no"
    /\ r.bytes = Queued(r.queue, WithRaw) /\ r.bytes <= ByteLimit
    /\ Total(r, NonIdle) <= QueueLimit
Core(r) == Loose(r) /\ (r.queue # << >> => FreeSlots(r) = {})

\* What a session's state says about a job made for it: the job is not from the future, and
\* while nothing has overtaken it its plan is of the session's epoch.
JobsOf(r) == {r.queue[k] : k \in 1..Len(r.queue)} \cup {r.run[i] : i \in Slots}
Dated(j, st) ==
    /\ st.epoch # None /\ j.gen <= st.generation
    /\ (j.at \in Planned /\ j.gen = st.generation) => j.plan.epoch = st.epoch
Views(r) ==
    /\ \A o \in Objects :
         LET st == r.state[o]
         IN  /\ st.view # None => st.view.epoch = st.epoch
             /\ st.snapshot # None => st.epoch # None
             /\ st.hydrating => st.hydrated
    /\ \A j \in JobsOf(r) : j.o \in Objects => Dated(j, r.state[j.o])

\* The flags count the jobs; but for the hydration of the state x, which is ending.
Count(flag) == IF flag THEN 1 ELSE 0
Flags(r, x) ==
    disposed = "no" =>
      \A o \in Objects :
        /\ Total(r, PlansOf(o)) = Count(r.state[o].busy)
        /\ o # x => Total(r, HydratesOf(o)) = Count(r.state[o].hydrating)

\* Hooks count while a state is below the bound, dispose once.
GenBound == MaxGeneration + (IF disposed = "no" THEN 1 ELSE 2)
Gens(r) == \A o \in Objects : r.state[o].generation <= GenBound

RtInv(r, x) == Core(r) /\ Views(r) /\ Flags(r, x) /\ Gens(r)

\* The variables around the closure's.
Around ==
    /\ polls \subseteq Poll /\ connected \in BOOLEAN
    /\ disposed \in {"no", "waiting", "closed"}
    /\ scanning \in [Ids -> History \cup {None}] /\ resuming \subseteq Objects
    /\ host \in [Ids -> History]
    /\ disposed = "closed" => JobsSettled

\* The inductive invariant.
RuntimeInv == RtInv(rt, 0) /\ Around

-----------------------------------------------------------------------------
(* Counting *)

\* A set of numbers that is not empty has a least one.
LEMMA LowestIn ==
  ASSUME NEW S, S \subseteq Nat, S # {}
  PROVE  Lowest(S) \in S
<1> DEFINE R == {p \in Nat \X Nat : p[1] < p[2]}
<1>1. IsWellFoundedOn(R, Nat)  BY NatLessThanWellFounded DEF OpToRel
<1>2. \A y, z \in Nat : y < z => <<y, z>> \in R  OBVIOUS
<1> HIDE DEF R
<1>3. PICK x \in S : \A y \in S : ~(<<y, x>> \in R)  BY <1>1, WFMin
<1>4. ASSUME NEW y \in S  PROVE x <= y
  <2>1. y \in Nat /\ x \in Nat  OBVIOUS
  <2>2. ~(y < x)  BY <2>1, <1>2, <1>3
  <2>3. QED  BY <2>1, <2>2
<1>5. QED  BY <1>4 DEF Lowest

\* A set of numbers up to n is finite.
LEMMA FiniteUpTo ==
  ASSUME NEW n \in Nat, NEW S \in SUBSET (1..n)
  PROVE  IsFiniteSet(S) /\ Cardinality(S) \in Nat
<1>1. IsFiniteSet(1..n)  BY FS_Interval
<1>2. IsFiniteSet(S)  BY <1>1, FS_Subset
<1>3. QED  BY <1>2, FS_CardinalityType

\* An empty queue holds no jobs.
LEMMA QueuedEmpty == \A T : Queued(<< >>, T) = 0
<1>1. TAKE T
<1>2. {k \in 1..Len(<< >>) : << >>[k] \in T} = {}  OBVIOUS
<1>3. QED  BY <1>2, FS_EmptySet DEF Queued

\* The number of queued jobs is natural.
LEMMA QueuedType ==
  ASSUME NEW q \in Seq(Job), NEW T
  PROVE  Queued(q, T) \in Nat
<1>1. Len(q) \in Nat /\ {k \in 1..Len(q) : q[k] \in T} \in SUBSET (1..Len(q))  OBVIOUS
<1>2. QED  BY <1>1, FiniteUpTo DEF Queued

\* A job at the end of a queue.
LEMMA QueuedAppend ==
  ASSUME NEW q \in Seq(Job), NEW j \in Job, NEW T
  PROVE  Queued(Append(q, j), T) = Queued(q, T) + Count(j \in T)
<1> DEFINE p == Append(q, j)
           S == {k \in 1..Len(q) : q[k] \in T}
           U == {k \in 1..Len(p) : p[k] \in T}
           n == Len(q) + 1
<1>1. /\ Len(q) \in Nat /\ Len(p) = n /\ p[n] = j
      /\ \A k \in 1..Len(q) : p[k] = q[k]
  OBVIOUS
<1> HIDE DEF p
<1>2. S \in SUBSET (1..Len(q))  OBVIOUS
<1>3. IsFiniteSet(S) /\ Cardinality(S) \in Nat /\ n \notin S
  <2>1. n \notin S  BY <1>1
  <2> HIDE DEF S
  <2>2. QED  BY <2>1, <1>1, <1>2, FiniteUpTo
<1>4. CASE j \in T
  <2>1. U = S \cup {n}  BY <1>1, <1>4
  <2>2. Cardinality(U) = Cardinality(S) + 1  BY <2>1, <1>3, FS_AddElement
  <2>3. QED  BY <2>2, <1>4 DEF Queued, Count, p
<1>5. CASE j \notin T
  <2>1. U = S  BY <1>1, <1>5
  <2>2. Cardinality(U) = Cardinality(S) + 0
    <3> HIDE DEF S, U
    <3>1. QED  BY <2>1, <1>3
  <2>3. QED  BY <2>2, <1>5 DEF Queued, Count, p
<1>6. QED  BY <1>4, <1>5

\* The first job leaves a queue.
LEMMA QueuedTail ==
  ASSUME NEW q \in Seq(Job), q # << >>, NEW T
  PROVE  Queued(Tail(q), T) = Queued(q, T) - Count(Head(q) \in T)
<1> DEFINE p == Tail(q)
           S == {k \in 1..Len(q) : q[k] \in T}
           U == {k \in 1..Len(p) : p[k] \in T}
           V == S \ {1}
           f == [k \in U |-> k + 1]
<1>1. /\ Len(q) \in Nat \ {0} /\ Len(p) = Len(q) - 1 /\ Head(q) = q[1]
      /\ \A k \in 1..Len(p) : p[k] = q[k + 1]
  OBVIOUS
<1> HIDE DEF p
<1>2. S \in SUBSET (1..Len(q)) /\ U \in SUBSET (1..Len(p)) /\ Len(p) \in Nat  BY <1>1
<1>3. /\ IsFiniteSet(S) /\ Cardinality(S) \in Nat /\ IsFiniteSet(U) /\ Cardinality(U) \in Nat
  BY <1>1, <1>2, FiniteUpTo
<1>4. \A k \in U : k + 1 \in V
  BY <1>1
<1>5. \A l \in V : l - 1 \in U
  <2>1. TAKE l \in V
  <2>2. l \in 1..Len(q) /\ l # 1 /\ q[l] \in T  OBVIOUS
  <2>3. l - 1 \in 1..Len(p) /\ (l - 1) + 1 = l  BY <2>2, <1>1
  <2>4. p[l - 1] = q[l]  BY <2>3, <1>1
  <2>5. QED  BY <2>2, <2>3, <2>4
<1>6. f \in Bijection(U, V)
  <2>1. f \in [U -> V]  BY <1>4
  <2>2. \A a, b \in U : f[a] = f[b] => a = b  BY <1>2
  <2>3. \A l \in V : \E k \in U : f[k] = l
    <3>1. TAKE l \in V
    <3>2. l - 1 \in U /\ f[l - 1] = l  BY <1>5, <1>1
    <3>3. QED  BY <3>2
  <2> HIDE DEF f, U, V
  <2>4. QED  BY <2>1, <2>2, <2>3 DEF Bijection, Injection, Surjection, IsInjective
<1>7. ExistsBijection(U, V)  BY <1>6 DEF ExistsBijection
<1>8. Cardinality(V) = Cardinality(U)  BY <1>3, <1>7, FS_Bijection
<1>9. CASE Head(q) \in T
  <2>1. 1 \in S  BY <1>1, <1>9
  <2>2. Cardinality(V) = Cardinality(S) - 1  BY <2>1, <1>3, FS_RemoveElement
  <2>3. QED  BY <2>2, <1>8, <1>9 DEF Queued, Count, p
<1>10. CASE Head(q) \notin T
  <2>1. V = S  BY <1>1, <1>10
  <2>2. Cardinality(U) = Cardinality(S) - 0
    <3> HIDE DEF S, U, V
    <3>1. QED  BY <2>1, <1>3, <1>8
  <2>3. QED  BY <2>2, <1>10 DEF Queued, Count, p
<1>11. QED  BY <1>9, <1>10

\* The number of running jobs is natural.
LEMMA RanType ==
  ASSUME NEW f, NEW T
  PROVE  Ran(f, T) \in Nat
<1>1. Permits \in Nat  BY PermitsAssumption
<1>2. {i \in Slots : f[i] \in T} \in SUBSET (1..Permits)  BY DEF Slots
<1>3. QED  BY <1>1, <1>2, FiniteUpTo DEF Ran

\* The job of one slot changes.
LEMMA RanSet ==
  ASSUME NEW f \in [Slots -> Job], NEW i \in Slots, NEW j \in Job, NEW T
  PROVE  Ran([f EXCEPT ![i] = j], T) = Ran(f, T) - Count(f[i] \in T) + Count(j \in T)
<1> DEFINE g == [f EXCEPT ![i] = j]
           S == {k \in Slots : f[k] \in T}
           U == {k \in Slots : g[k] \in T}
           V == S \ {i}
<1>1. g[i] = j /\ \A k \in Slots \ {i} : g[k] = f[k]  OBVIOUS
<1> HIDE DEF g
<1>2. Permits \in Nat /\ Slots = 1..Permits  BY PermitsAssumption DEF Slots
<1>3. /\ IsFiniteSet(S) /\ Cardinality(S) \in Nat /\ IsFiniteSet(U) /\ Cardinality(U) \in Nat
  BY <1>2, FiniteUpTo
<1>4. V = U \ {i}  BY <1>1
<1>5. Cardinality(V) = Cardinality(S) - Count(f[i] \in T)
  <2>1. CASE f[i] \in T
    <3>1. Cardinality(V) = Cardinality(S) - 1  BY <2>1, <1>3, FS_RemoveElement
    <3>2. QED  BY <3>1, <2>1 DEF Count
  <2>2. CASE f[i] \notin T
    <3>1. V = S  BY <2>2
    <3>2. Cardinality(V) = Cardinality(S)  BY <3>1
    <3> HIDE DEF S, U, V
    <3>4. Cardinality(V) = Cardinality(S) - 0  BY <3>2, <1>3
    <3>3. QED  BY <3>4, <2>2 DEF Count
  <2>3. QED  BY <2>1, <2>2
<1>6. Cardinality(U) = Cardinality(V) + Count(j \in T)
  <2>1. CASE j \in T
    <3>1. i \in U  BY <2>1, <1>1
    <3>2. Cardinality(U \ {i}) = Cardinality(U) - 1  BY <3>1, <1>3, FS_RemoveElement
    <3>3. Cardinality(U) = Cardinality(V) + 1  BY <3>2, <1>3, <1>4
    <3>4. QED  BY <3>3, <2>1 DEF Count
  <2>2. CASE j \notin T
    <3>1. V = U  BY <2>2, <1>1, <1>4
    <3>2. Cardinality(U) = Cardinality(V) + 0  BY <3>1, <1>3
    <3>3. QED  BY <3>2, <2>2 DEF Count
  <2>3. QED  BY <2>1, <2>2
<1>7. QED  BY <1>5, <1>6 DEF Ran, g

-----------------------------------------------------------------------------
(* The queue and its permits *)

\* Sets of jobs that a pump does not lead out of: a closure that throws stays in them.
Sane(T) == Idle \notin T /\ (ClearJob \in T <=> Leaked \in T)

\* What the assumptions say of the constants.
LEMMA Constants ==
  /\ Permits \in Nat \ {0} /\ QueueLimit \in Nat /\ ByteLimit \in Nat /\ MaxSessions \in Nat \ {0}
  /\ MaxGeneration \in Nat /\ MaxStates \in Nat \ {0}
  /\ Slots = 1..Permits /\ Objects = 1..MaxStates /\ 0 \notin Objects
  /\ None \notin History /\ None \notin Plan /\ None \notin 0..MaxEpoch
BY PermitsAssumption, LimitsAssumption, BoundsAssumption, NoneAssumption DEF Slots, Objects

\* The jobs that belong to no session.
LEMMA FixedJobs ==
  /\ Idle \in Job /\ Leaked \in Job /\ ClearJob \in Job
  /\ Idle # Leaked /\ Idle # ClearJob /\ Leaked # ClearJob
  /\ JobForm(Idle) /\ JobForm(Leaked) /\ Fresh(ClearJob)
  /\ Idle.o = 0 /\ Leaked.o = 0 /\ ClearJob.o = 0
  /\ Idle.at = "idle" /\ Leaked.at = "leaked" /\ ClearJob.at = "clear"
  /\ ClearJob.raw = None
<1>1. 0 \in 0..MaxGeneration + 2  BY Constants
<1>2. QED
  BY <1>1 DEF Idle, Leaked, ClearJob, NewJob, Job, JobForm, Fresh, HydrateStages, PlanStages, Planned

\* Which of the counted sets are sane.
LEMMA SaneSets ==
  /\ Sane(NonIdle)
  /\ \A o \in Objects : Sane(PlansOf(o)) /\ Sane(HydratesOf(o))
BY FixedJobs, Constants DEF Sane, NonIdle, PlansOf, HydratesOf

\* What waits and runs, as the code counts it.
LEMMA TotalIs ==
  ASSUME NEW r, Loose(r)
  PROVE  Total(r, NonIdle) = Len(r.queue) + Cardinality(Active(r))
<1>1. r.queue \in Seq(Job) /\ r.run \in [Slots -> Job] /\ Len(r.queue) \in Nat
  BY DEF Loose, RtType
<1>2. {k \in 1..Len(r.queue) : r.queue[k] \in NonIdle} = 1..Len(r.queue)
  <2>1. \A k \in 1..Len(r.queue) : r.queue[k] \in Job /\ r.queue[k] # Idle
    BY <1>1, FixedJobs DEF Loose, Fresh
  <2>2. QED  BY <2>1 DEF NonIdle
<1>3. Cardinality(1..Len(r.queue)) = Len(r.queue)  BY <1>1, FS_Interval
<1>4. {i \in Slots : r.run[i] \in NonIdle} = Active(r)  BY <1>1 DEF Active, NonIdle
<1>5. QED  BY <1>2, <1>3, <1>4 DEF Total, Queued, Ran

\* The fields of a record that pump changes.
LEMMA PumpFields ==
  ASSUME NEW r \in RtType, disposed = "no", FreeSlots(r) # {}, r.queue # << >>
  PROVE  LET h == Head(r.queue)
             l == Lowest(FreeSlots(r))
         IN  /\ l \in FreeSlots(r) /\ l \in Slots /\ r.run[l] = Idle
             /\ h \in Job /\ h = r.queue[1] /\ Started(h) \in Job
             /\ Pump(r).run = [r.run EXCEPT ![l] = Started(h)]
             /\ Pump(r).queue = Tail(r.queue) /\ Pump(r).bytes = r.bytes - Cost(h)
             /\ Pump(r).state = r.state /\ Pump(r).sessions = r.sessions
             /\ Pump(r) = [sessions |-> r.sessions, state |-> r.state, queue |-> Tail(r.queue),
                           run |-> [r.run EXCEPT ![l] = Started(h)], bytes |-> r.bytes - Cost(h)]
<1> DEFINE h == Head(r.queue)
           l == Lowest(FreeSlots(r))
           sh == Started(h)
<1>1. r.queue \in Seq(Job) /\ r.run \in [Slots -> Job]  BY DEF RtType
<1>2. h \in Job /\ h = r.queue[1]  BY <1>1
<1>3. FreeSlots(r) \subseteq Nat /\ FreeSlots(r) \subseteq Slots
  BY Constants DEF FreeSlots
<1>4. l \in FreeSlots(r)  BY <1>3, LowestIn
<1>5. l \in Slots /\ r.run[l] = Idle  BY <1>4 DEF FreeSlots, Active
<1>6. sh \in Job  BY <1>2, FixedJobs DEF Started
<1>7. Pump(r) = [r EXCEPT !.run[l] = sh, !.queue = Tail(@), !.bytes = @ - Cost(h)]
  BY DEF Pump
<1> HIDE DEF h, l, sh
<1>8. Pump(r) = [sessions |-> r.sessions, state |-> r.state, queue |-> Tail(r.queue),
                 run |-> [r.run EXCEPT ![l] = sh], bytes |-> r.bytes - Cost(h)]
  BY <1>7 DEF RtType
<1>9. QED  BY <1>2, <1>4, <1>5, <1>6, <1>8 DEF h, l, sh

\* A pump leaves the counts of sane sets alone.
LEMMA PumpTotal ==
  ASSUME NEW r \in RtType, NEW T, Sane(T), \A k \in 1..Len(r.queue) : Fresh(r.queue[k])
  PROVE  Total(Pump(r), T) = Total(r, T)
<1>1. CASE disposed # "no" \/ FreeSlots(r) = {} \/ r.queue = << >>
  BY <1>1 DEF Pump
<1>2. CASE disposed = "no" /\ FreeSlots(r) # {} /\ r.queue # << >>
  <2> DEFINE h == Head(r.queue)
             l == Lowest(FreeSlots(r))
             p == Pump(r)
  <2>1. /\ l \in Slots /\ r.run[l] = Idle /\ h \in Job /\ Started(h) \in Job
        /\ p.run = [r.run EXCEPT ![l] = Started(h)] /\ p.queue = Tail(r.queue)
    BY <1>2, PumpFields
  <2> HIDE DEF h, l, p
  <2>2. r.queue \in Seq(Job) /\ r.run \in [Slots -> Job]  BY DEF RtType
  <2>3. Queued(p.queue, T) = Queued(r.queue, T) - Count(h \in T)
    BY <2>1, <2>2, <1>2, QueuedTail DEF h
  <2>4. Ran(p.run, T) = Ran(r.run, T) - Count(Idle \in T) + Count(Started(h) \in T)
    <3>1. Ran([r.run EXCEPT ![l] = Started(h)], T)
            = Ran(r.run, T) - Count(r.run[l] \in T) + Count(Started(h) \in T)
      BY <2>1, <2>2, RanSet
    <3>2. QED  BY <3>1, <2>1
  <2>5. Count(Idle \in T) = 0  BY DEF Sane, Count
  <2>6. Started(h) \in T <=> h \in T  BY DEF Started, Sane
  <2>7. Count(Started(h) \in T) = Count(h \in T) /\ Count(h \in T) \in Nat
    BY <2>6 DEF Count
  <2>8. Queued(r.queue, T) \in Nat /\ Ran(r.run, T) \in Nat  BY <2>2, QueuedType, RanType
  <2>9. QED
    <3>1. Queued(p.queue, T) + Ran(p.run, T) = Queued(r.queue, T) + Ran(r.run, T)
      BY <2>3, <2>4, <2>5, <2>7, <2>8
    <3>2. QED  BY <3>1 DEF Total, p
<1>3. QED  BY <1>1, <1>2

\* One turn of pump is enough when one job waits or one permit is free.
LEMMA PumpCore ==
  ASSUME NEW r, Loose(r),
         \/ r.queue = << >> \/ FreeSlots(r) = {}
         \/ Len(r.queue) = 1
         \/ \E i \in Slots : FreeSlots(r) = {i}
  PROVE  /\ Core(Pump(r)) /\ Pump(r).state = r.state /\ Pump(r).sessions = r.sessions
         /\ JobsOf(Pump(r)) \subseteq JobsOf(r) \cup {Leaked}
<1> DEFINE p == Pump(r)
<1>1. r \in RtType /\ r.queue \in Seq(Job) /\ r.run \in [Slots -> Job] /\ r.bytes \in Nat
  BY DEF Loose, RtType
<1>2. CASE disposed # "no" \/ FreeSlots(r) = {} \/ r.queue = << >>
  <2>1. p = r  BY <1>2 DEF Pump
  <2>2. Core(r)  BY <1>2 DEF Core, Loose
  <2>3. QED  BY <2>1, <2>2
<1>3. CASE disposed = "no" /\ FreeSlots(r) # {} /\ r.queue # << >>
  <2> DEFINE h == Head(r.queue)
             l == Lowest(FreeSlots(r))
             sh == Started(h)
  <2>1. /\ l \in FreeSlots(r) /\ l \in Slots /\ r.run[l] = Idle
        /\ h \in Job /\ h = r.queue[1] /\ sh \in Job
        /\ p.run = [r.run EXCEPT ![l] = sh] /\ p.queue = Tail(r.queue)
        /\ p.bytes = r.bytes - Cost(h)
        /\ p.state = r.state /\ p.sessions = r.sessions
        /\ p = [sessions |-> r.sessions, state |-> r.state, queue |-> Tail(r.queue),
                run |-> [r.run EXCEPT ![l] = sh], bytes |-> r.bytes - Cost(h)]
    BY <1>1, <1>3, PumpFields
  <2>2. sh = h \/ sh = Leaked  BY DEF Started
  <2> HIDE DEF l, p
  <2>3. /\ Len(r.queue) \in Nat \ {0} /\ Len(p.queue) = Len(r.queue) - 1 /\ p.queue \in Seq(Job)
        /\ \A k \in 1..Len(p.queue) : p.queue[k] = r.queue[k + 1] /\ k + 1 \in 1..Len(r.queue)
    BY <1>1, <1>3, <2>1
  <2>4. Fresh(h) /\ h # Idle
    <3>1. 1 \in 1..Len(r.queue)  BY <2>3
    <3>2. QED  BY <3>1, <2>1, FixedJobs DEF Loose, Fresh
  <2> HIDE DEF h, sh
  <2>5. /\ p.run \in [Slots -> Job] /\ p.run[l] = sh
        /\ \A i \in Slots \ {l} : p.run[i] = r.run[i]
    BY <1>1, <2>1
  <2>6. JobForm(sh) /\ sh # Idle  BY <2>2, <2>4, FixedJobs DEF Fresh
  <2>7. p.bytes = Queued(p.queue, WithRaw) /\ p.bytes \in Nat /\ p.bytes <= ByteLimit
    <3>1. Queued(p.queue, WithRaw) = Queued(r.queue, WithRaw) - Count(h \in WithRaw)
      BY <1>1, <1>3, <2>1, QueuedTail DEF h
    <3>2. Cost(h) = Count(h \in WithRaw)  BY <2>1 DEF Cost, Count, WithRaw
    <3>3. Queued(p.queue, WithRaw) \in Nat /\ Queued(r.queue, WithRaw) \in Nat
      BY <1>1, <2>3, QueuedType
    <3>4. Cost(h) \in Nat /\ ByteLimit \in Nat  BY Constants DEF Cost
    <3>5. QED  BY <3>1, <3>2, <3>3, <3>4, <2>1 DEF Loose
  <2>8. p \in RtType  BY <2>1, <2>3, <2>5, <2>7, <1>1 DEF RtType
  <2>9. Total(p, NonIdle) <= QueueLimit
    <3>1. Total(p, NonIdle) = Total(r, NonIdle)
      BY <1>1, SaneSets, PumpTotal DEF Loose, p
    <3>2. QED  BY <3>1 DEF Loose
  <2>10. Loose(p)
    <3>1. \A k \in 1..Len(p.queue) : Fresh(p.queue[k])  BY <2>3 DEF Loose
    <3>2. \A i \in Slots : JobForm(p.run[i])  BY <2>5, <2>6 DEF Loose
    <3>3. QED  BY <3>1, <3>2, <2>1, <2>7, <2>8, <2>9, <1>3 DEF Loose
  <2>11. p.queue # << >> => FreeSlots(p) = {}
    <3>1. FreeSlots(p) = FreeSlots(r) \ {l}  BY <2>1, <2>5, <2>6 DEF FreeSlots, Active
    <3>2. CASE Len(r.queue) = 1
      <4>1. Len(p.queue) = 0  BY <3>2, <2>3
      <4>2. p.queue = << >>  BY <4>1, <2>3
      <4>3. QED  BY <4>2
    <3>3. CASE \E i \in Slots : FreeSlots(r) = {i}  BY <3>1, <3>3, <2>1
    <3>4. QED  BY <3>2, <3>3, <1>3
  <2>12. JobsOf(p) \subseteq JobsOf(r) \cup {Leaked}
    <3>1. \A k \in 1..Len(p.queue) : p.queue[k] \in JobsOf(r)  BY <2>3 DEF JobsOf
    <3>2. h \in JobsOf(r)
      <4>1. 1 \in 1..Len(r.queue)  BY <2>3
      <4>2. QED  BY <4>1, <2>1 DEF JobsOf
    <3>3. \A i \in Slots : p.run[i] \in JobsOf(r) \cup {Leaked}
      BY <3>2, <2>2, <2>5 DEF JobsOf
    <3>4. QED  BY <3>1, <3>3 DEF JobsOf
  <2>13. QED  BY <2>1, <2>10, <2>11, <2>12 DEF Core, p
<1>4. QED  BY <1>2, <1>3

\* A job put at the end of the queue.
LEMMA AppendedIs ==
  ASSUME NEW r \in RtType, NEW job
  PROVE  [r EXCEPT !.queue = Append(@, job), !.bytes = @ + Cost(job)]
           = [sessions |-> r.sessions, state |-> r.state, queue |-> Append(r.queue, job),
              run |-> r.run, bytes |-> r.bytes + Cost(job)]
<1> DEFINE q == Append(r.queue, job)
           b == r.bytes + Cost(job)
           s == [r EXCEPT !.queue = q]
           t == [s EXCEPT !.bytes = b]
<1> HIDE DEF q, b
<1>1. s = [sessions |-> r.sessions, state |-> r.state, queue |-> q, run |-> r.run,
           bytes |-> r.bytes]
  BY DEF RtType
<1>2. [r EXCEPT !.queue = q, !.bytes = b] = t  OBVIOUS
<1> HIDE DEF s
<1>3. t = [sessions |-> r.sessions, state |-> r.state, queue |-> q, run |-> r.run, bytes |-> b]
  BY <1>1
<1>4. QED  BY <1>2, <1>3 DEF q, b

\* A refused job changes nothing; one that is accepted waits or runs.
LEMMA EnqueueEffect ==
  ASSUME NEW r, Core(r), NEW job \in Job, Fresh(job)
  PROVE  /\ Core(Enqueue(r, job))
         /\ Enqueue(r, job).state = r.state /\ Enqueue(r, job).sessions = r.sessions
         /\ JobsOf(Enqueue(r, job)) \subseteq JobsOf(r) \cup {job, Leaked}
         /\ ~Accepts(r, job) => Enqueue(r, job) = r
<1>1. CASE ~Accepts(r, job)  BY <1>1 DEF Enqueue
<1>2. CASE Accepts(r, job)
  <2> DEFINE a == [r EXCEPT !.queue = Append(@, job), !.bytes = @ + Cost(job)]
  <2>1. Enqueue(r, job) = Pump(a)  BY <1>2 DEF Enqueue
  <2>2. Loose(r) /\ r \in RtType /\ r.queue \in Seq(Job) /\ r.bytes \in Nat  BY DEF Core, Loose, RtType
  <2>3. /\ a = [sessions |-> r.sessions, state |-> r.state, queue |-> Append(r.queue, job),
                run |-> r.run, bytes |-> r.bytes + Cost(job)]
    BY <2>2, AppendedIs
  <2>4. /\ a.sessions = r.sessions /\ a.state = r.state /\ a.queue = Append(r.queue, job)
        /\ a.run = r.run /\ a.bytes = r.bytes + Cost(job)
    BY <2>3
  <2>5. /\ a.queue \in Seq(Job) /\ Len(a.queue) = Len(r.queue) + 1 /\ Len(r.queue) \in Nat
        /\ a.queue[Len(r.queue) + 1] = job
        /\ \A k \in 1..Len(r.queue) : a.queue[k] = r.queue[k]
    BY <2>2, <2>4
  <2> HIDE DEF a
  <2>6. Cost(job) = Count(job \in WithRaw) /\ Cost(job) \in Nat
    BY DEF Cost, Count, WithRaw
  <2>7. Queued(a.queue, WithRaw) = Queued(r.queue, WithRaw) + Count(job \in WithRaw)
    BY <2>2, <2>4, QueuedAppend
  <2>8. a.bytes = Queued(a.queue, WithRaw) /\ a.bytes \in Nat /\ a.bytes <= ByteLimit
    BY <2>2, <2>4, <2>6, <2>7, <1>2 DEF Loose, Accepts
  <2>9. a \in RtType  BY <2>2, <2>3, <2>5, <2>4, <2>8 DEF RtType
  <2>10. Total(a, NonIdle) <= QueueLimit
    <3>1. Queued(a.queue, NonIdle) = Queued(r.queue, NonIdle) + Count(job \in NonIdle)
      BY <2>2, <2>4, QueuedAppend
    <3>2. Count(job \in NonIdle) \in 0..1  BY DEF Count
    <3>3. Queued(r.queue, NonIdle) \in Nat /\ Ran(r.run, NonIdle) \in Nat
      BY <2>2, QueuedType, RanType
    <3>4. Total(r, NonIdle) < QueueLimit
      BY <2>2, <1>2, TotalIs DEF Accepts
    <3>5. QueueLimit \in Nat  BY Constants
    <3>6. QED  BY <3>1, <3>2, <3>3, <3>4, <3>5, <2>4 DEF Total
  <2>11. Loose(a)
    <3>1. \A k \in 1..Len(a.queue) : Fresh(a.queue[k])
      <4>1. TAKE k \in 1..Len(a.queue)
      <4>2. k \in 1..Len(r.queue) \/ k = Len(r.queue) + 1  BY <2>5
      <4>3. QED  BY <4>2, <2>2, <2>5 DEF Loose
    <3>2. disposed = "no"  BY <1>2 DEF Accepts
    <3>3. QED  BY <3>1, <3>2, <2>2, <2>4, <2>8, <2>9, <2>10 DEF Loose
  <2>12. FreeSlots(a) = FreeSlots(r)  BY <2>4 DEF FreeSlots, Active
  <2>13. FreeSlots(a) = {} \/ Len(a.queue) = 1
    <3>1. CASE r.queue = << >>
      <4>1. Len(r.queue) = 0  BY <3>1
      <4>2. QED  BY <4>1, <2>5
    <3>2. CASE r.queue # << >>  BY <3>2, <2>12 DEF Core
    <3>3. QED  BY <3>1, <3>2
  <2>14. /\ Core(Pump(a)) /\ Pump(a).state = a.state /\ Pump(a).sessions = a.sessions
         /\ JobsOf(Pump(a)) \subseteq JobsOf(a) \cup {Leaked}
    BY <2>11, <2>13, PumpCore
  <2>15. JobsOf(a) \subseteq JobsOf(r) \cup {job}
    <3>1. \A k \in 1..Len(a.queue) : a.queue[k] \in JobsOf(r) \cup {job}
      <4>1. TAKE k \in 1..Len(a.queue)
      <4>2. k \in 1..Len(r.queue) \/ k = Len(r.queue) + 1  BY <2>5
      <4>3. QED  BY <4>2, <2>5 DEF JobsOf
    <3>2. \A i \in Slots : a.run[i] \in JobsOf(r)  BY <2>4 DEF JobsOf
    <3>3. QED  BY <3>1, <3>2 DEF JobsOf
  <2>16. QED  BY <2>1, <2>4, <2>14, <2>15, <1>2
<1>3. QED  BY <1>1, <1>2

\* An accepted job is counted.
LEMMA EnqueueTotal ==
  ASSUME NEW r, Core(r), NEW job \in Job, Fresh(job), Accepts(r, job), NEW T, Sane(T)
  PROVE  Total(Enqueue(r, job), T) = Total(r, T) + Count(job \in T)
<1> DEFINE a == [r EXCEPT !.queue = Append(@, job), !.bytes = @ + Cost(job)]
<1>1. Enqueue(r, job) = Pump(a)  BY DEF Enqueue
<1>2. r \in RtType /\ r.queue \in Seq(Job) /\ r.bytes \in Nat /\ Loose(r)  BY DEF Core, Loose, RtType
<1>3. a = [sessions |-> r.sessions, state |-> r.state, queue |-> Append(r.queue, job),
           run |-> r.run, bytes |-> r.bytes + Cost(job)]
  BY <1>2, AppendedIs
<1> HIDE DEF a
<1>4. /\ a.queue = Append(r.queue, job) /\ a.run = r.run /\ a.queue \in Seq(Job)
      /\ a.bytes = r.bytes + Cost(job) /\ a.bytes \in Nat
  BY <1>2, <1>3 DEF Cost
<1>5. a \in RtType  BY <1>2, <1>3, <1>4 DEF RtType
<1>6. \A k \in 1..Len(a.queue) : Fresh(a.queue[k])
  <2>1. TAKE k \in 1..Len(a.queue)
  <2>2. a.queue[k] = IF k = Len(r.queue) + 1 THEN job ELSE r.queue[k]  BY <1>2, <1>4
  <2>3. k \in 1..Len(r.queue) \/ k = Len(r.queue) + 1  BY <1>2, <1>4
  <2>4. QED  BY <2>2, <2>3, <1>2 DEF Loose
<1>7. Total(Pump(a), T) = Total(a, T)  BY <1>5, <1>6, PumpTotal
<1>8. Queued(a.queue, T) = Queued(r.queue, T) + Count(job \in T)  BY <1>2, <1>4, QueuedAppend
<1>9. Queued(r.queue, T) \in Nat /\ Ran(r.run, T) \in Nat /\ Count(job \in T) \in Nat
  BY <1>2, QueuedType, RanType DEF Count
<1>10. QED  BY <1>1, <1>4, <1>7, <1>8, <1>9 DEF Total

\* A job that ends gives its permit to the first that waits.
LEMMA ReleaseEffect ==
  ASSUME NEW r, Core(r), NEW i \in Slots
  PROVE  /\ Core(Release(r, i))
         /\ Release(r, i).state = r.state /\ Release(r, i).sessions = r.sessions
         /\ JobsOf(Release(r, i)) \subseteq JobsOf(r) \cup {Idle, Leaked}
         /\ \A T : Sane(T) => Total(Release(r, i), T) = Total(r, T) - Count(r.run[i] \in T)
<1> DEFINE a == [r EXCEPT !.run[i] = Idle]
<1>1. Release(r, i) = Pump(a)  BY DEF Release
<1>2. /\ r \in RtType /\ r.queue \in Seq(Job) /\ r.run \in [Slots -> Job] /\ Loose(r)
  BY DEF Core, Loose, RtType
<1>3. a = [sessions |-> r.sessions, state |-> r.state, queue |-> r.queue,
           run |-> [r.run EXCEPT ![i] = Idle], bytes |-> r.bytes]
  BY <1>2 DEF RtType
<1> HIDE DEF a
<1>4. /\ a.sessions = r.sessions /\ a.state = r.state /\ a.queue = r.queue
      /\ a.run = [r.run EXCEPT ![i] = Idle] /\ a.bytes = r.bytes
      /\ a.run[i] = Idle /\ \A k \in Slots \ {i} : a.run[k] = r.run[k]
      /\ a.run \in [Slots -> Job]
  BY <1>2, <1>3, FixedJobs
<1>5. a \in RtType  BY <1>2, <1>3, <1>4 DEF RtType
<1>6. ASSUME NEW T, Idle \notin T
      PROVE  /\ Total(a, T) = Total(r, T) - Count(r.run[i] \in T)
             /\ Total(a, T) \in Nat /\ Total(r, T) \in Nat /\ Count(r.run[i] \in T) \in Nat
  <2>1. Ran(a.run, T) = Ran(r.run, T) - Count(r.run[i] \in T) + Count(Idle \in T)
    BY <1>2, <1>4, RanSet, FixedJobs
  <2>2. Count(Idle \in T) = 0 /\ Count(r.run[i] \in T) \in Nat  BY <1>6 DEF Count
  <2>3. Queued(r.queue, T) \in Nat /\ Ran(r.run, T) \in Nat /\ Ran(a.run, T) \in Nat
    BY <1>2, QueuedType, RanType
  <2>4. QED  BY <2>1, <2>2, <2>3, <1>4 DEF Total
<1>7. Loose(a)
  <2>1. Total(a, NonIdle) <= QueueLimit
    <3>1. Idle \notin NonIdle  BY DEF NonIdle
    <3>2. Total(r, NonIdle) <= QueueLimit /\ QueueLimit \in Nat  BY <1>2, Constants DEF Loose
    <3>3. QED  BY <3>1, <3>2, <1>6
  <2>2. \A k \in Slots : JobForm(a.run[k])  BY <1>2, <1>4, FixedJobs DEF Loose
  <2>3. QED  BY <2>1, <2>2, <1>2, <1>4, <1>5 DEF Loose
<1>8. r.queue = << >> \/ FreeSlots(a) = {i}
  <2>1. CASE r.queue # << >>
    <3>1. FreeSlots(r) = {}  BY <2>1 DEF Core
    <3>2. QED  BY <3>1, <1>4 DEF FreeSlots, Active
  <2>2. QED  BY <2>1
<1>9. /\ Core(Pump(a)) /\ Pump(a).state = a.state /\ Pump(a).sessions = a.sessions
      /\ JobsOf(Pump(a)) \subseteq JobsOf(a) \cup {Leaked}
  BY <1>4, <1>7, <1>8, PumpCore
<1>10. JobsOf(a) \subseteq JobsOf(r) \cup {Idle}
  <2>1. \A k \in Slots : a.run[k] \in JobsOf(r) \cup {Idle}  BY <1>4 DEF JobsOf
  <2>2. QED  BY <2>1, <1>4 DEF JobsOf
<1>11. ASSUME NEW T, Sane(T)  PROVE Total(Pump(a), T) = Total(r, T) - Count(r.run[i] \in T)
  <2>1. Total(Pump(a), T) = Total(a, T)  BY <1>5, <1>7, <1>11, PumpTotal DEF Loose
  <2>2. QED  BY <2>1, <1>6, <1>11 DEF Sane
<1>12. QED  BY <1>1, <1>4, <1>9, <1>10, <1>11


-----------------------------------------------------------------------------
(* Changes of one session's state *)

\* All that does not concern the flags.
Base(r) == Core(r) /\ Views(r) /\ Gens(r)

\* s is r but for the state of o, which is st.
Edit(r, s, o, st) ==
    /\ s \in RtType
    /\ s.sessions = r.sessions /\ s.queue = r.queue /\ s.run = r.run /\ s.bytes = r.bytes
    /\ s.state[o] = st /\ \A p \in Objects \ {o} : s.state[p] = r.state[p]

\* What a session's state says by itself.
Sound(st) ==
    /\ st.view # None => st.view.epoch = st.epoch
    /\ st.snapshot # None => st.epoch # None
    /\ st.hydrating => st.hydrated
    /\ st.generation <= GenBound

\* Changing a session's state leaves the jobs alone.
LEMMA EditTotal ==
  ASSUME NEW r, NEW s, NEW o, NEW st, Edit(r, s, o, st)
  PROVE  /\ JobsOf(s) = JobsOf(r) /\ FreeSlots(s) = FreeSlots(r) /\ Active(s) = Active(r)
         /\ \A T : Total(s, T) = Total(r, T)
         /\ \A j : Accepts(s, j) <=> Accepts(r, j)
BY DEF Edit, JobsOf, FreeSlots, Active, Total, Accepts

\* Two changes of a session's state are one.
LEMMA EditTwice ==
  ASSUME NEW r, NEW s, NEW t, NEW o, NEW a, NEW b, Edit(r, s, o, a), Edit(s, t, o, b)
  PROVE  Edit(r, t, o, b)
BY DEF Edit

\* An assignment to a state.
LEMMA EditIs ==
  ASSUME NEW r \in RtType, NEW o \in Objects, NEW st \in SessionState
  PROVE  Edit(r, [r EXCEPT !.state[o] = st], o, st)
<1> DEFINE s == [r EXCEPT !.state[o] = st]
<1>1. s = [sessions |-> r.sessions, state |-> [r.state EXCEPT ![o] = st], queue |-> r.queue,
           run |-> r.run, bytes |-> r.bytes]
  BY DEF RtType
<1> HIDE DEF s
<1>2. r.state \in [Objects -> SessionState]  BY DEF RtType
<1>3. [r.state EXCEPT ![o] = st] \in [Objects -> SessionState]  BY <1>2
<1>4. s \in RtType  BY <1>1, <1>3 DEF RtType
<1>5. s.state[o] = st /\ \A p \in Objects \ {o} : s.state[p] = r.state[p]
  BY <1>1, <1>2
<1>6. Edit(r, s, o, st)  BY <1>1, <1>4, <1>5 DEF Edit
<1>7. QED  BY <1>6 DEF s

\* The jobs and the sessions' states still fit after the change.
LEMMA EditBase ==
  ASSUME NEW r, NEW s, NEW o \in Objects, NEW st, Base(r), Edit(r, s, o, st), Sound(st),
         \A j \in JobsOf(r) : j.o = o => Dated(j, st)
  PROVE  Base(s)
<1>1. /\ JobsOf(s) = JobsOf(r) /\ FreeSlots(s) = FreeSlots(r)
      /\ Total(s, NonIdle) = Total(r, NonIdle)
  BY EditTotal
<1>2. Core(s)  BY <1>1 DEF Base, Core, Loose, Edit
<1>3. \A p \in Objects : p = o \/ s.state[p] = r.state[p]  BY DEF Edit
<1>4. s.state[o] = st  BY DEF Edit
<1>5. Views(s)
  <2>1. ASSUME NEW p \in Objects
        PROVE  /\ s.state[p].view # None => s.state[p].view.epoch = s.state[p].epoch
               /\ s.state[p].snapshot # None => s.state[p].epoch # None
               /\ s.state[p].hydrating => s.state[p].hydrated
    <3>1. CASE p = o  BY <3>1, <1>4 DEF Sound
    <3>2. CASE p # o  BY <3>2, <1>3 DEF Base, Views
    <3>3. QED  BY <3>1, <3>2
  <2>2. ASSUME NEW j \in JobsOf(s), j.o \in Objects  PROVE Dated(j, s.state[j.o])
    <3>1. CASE j.o = o  BY <3>1, <1>1, <1>4
    <3>2. CASE j.o # o
      <4>1. Dated(j, r.state[j.o])  BY <2>2, <1>1 DEF Base, Views
      <4>2. QED  BY <4>1, <3>2, <2>2, <1>3
    <3>3. QED  BY <3>1, <3>2
  <2>3. QED  BY <2>1, <2>2 DEF Views
<1>6. Gens(s)
  <2>1. SUFFICES ASSUME NEW p \in Objects  PROVE s.state[p].generation <= GenBound
    BY DEF Gens
  <2>2. CASE p = o  BY <2>2, <1>4 DEF Sound
  <2>3. CASE p # o  BY <2>3, <1>3 DEF Base, Gens
  <2>4. QED  BY <2>2, <2>3
<1>7. QED  BY <1>2, <1>5, <1>6 DEF Base

\* What a base says of one state.
LEMMA BaseState ==
  ASSUME NEW r, Base(r), NEW o \in Objects
  PROVE  /\ r \in RtType /\ r.state[o] \in SessionState /\ Sound(r.state[o])
         /\ \A j \in JobsOf(r) : j \in Job /\ JobForm(j) /\ (j.o = o => Dated(j, r.state[o]))
<1>1. r \in RtType /\ r.queue \in Seq(Job) /\ r.run \in [Slots -> Job]
      /\ r.state \in [Objects -> SessionState]
  BY DEF Base, Core, Loose, RtType
<1>2. r.state[o] \in SessionState  BY <1>1
<1>3. Sound(r.state[o])  BY DEF Base, Views, Gens, Sound
<1>4. \A k \in 1..Len(r.queue) : r.queue[k] \in Job /\ JobForm(r.queue[k])
  BY <1>1 DEF Base, Core, Loose, Fresh
<1>5. \A i \in Slots : r.run[i] \in Job /\ JobForm(r.run[i])
  BY <1>1 DEF Base, Core, Loose
<1>6. \A j \in JobsOf(r) : j \in Job /\ JobForm(j)  BY <1>4, <1>5 DEF JobsOf
<1>7. \A j \in JobsOf(r) : j.o = o => Dated(j, r.state[o])  BY DEF Base, Views
<1>8. QED  BY <1>1, <1>2, <1>3, <1>6, <1>7

\* A change that keeps the flags, and the epoch unless the generation rises.
LEMMA EditRt ==
  ASSUME NEW r, NEW s, NEW x, NEW o \in Objects, NEW st \in SessionState,
         RtInv(r, x), Edit(r, s, o, st), Sound(st),
         st.busy = r.state[o].busy, st.hydrating = r.state[o].hydrating,
         r.state[o].generation <= st.generation,
         r.state[o].epoch # None => st.epoch # None,
         (r.state[o].epoch # None /\ st.generation = r.state[o].generation)
           => st.epoch = r.state[o].epoch
  PROVE  RtInv(s, x)
<1>1. Base(r)  BY DEF RtInv, Base
<1>2. /\ r.state[o] \in SessionState
      /\ \A j \in JobsOf(r) : j \in Job /\ (j.o = o => Dated(j, r.state[o]))
  BY <1>1, BaseState
<1>3. ASSUME NEW j \in JobsOf(r), j.o = o  PROVE Dated(j, st)
  <2>1. Dated(j, r.state[o]) /\ j \in Job  BY <1>2, <1>3
  <2>2. j.gen \in Nat /\ st.generation \in Nat /\ r.state[o].generation \in Nat
    BY <2>1, <1>2, Constants DEF Job, SessionState
  <2>3. st.epoch # None /\ j.gen <= st.generation  BY <2>1, <2>2 DEF Dated
  <2>4. ASSUME j.gen = st.generation, j.at \in Planned  PROVE j.plan.epoch = st.epoch
    <3>1. j.gen = r.state[o].generation /\ st.generation = r.state[o].generation
      BY <2>1, <2>2, <2>4 DEF Dated
    <3>2. QED  BY <3>1, <2>1, <2>4 DEF Dated
  <2>5. QED  BY <2>3, <2>4 DEF Dated
<1>4. Base(s)  BY <1>1, <1>3, EditBase
<1>5. Flags(s, x)
  <2>1. SUFFICES ASSUME disposed = "no", NEW p \in Objects
                 PROVE  /\ Total(s, PlansOf(p)) = Count(s.state[p].busy)
                        /\ p # x => Total(s, HydratesOf(p)) = Count(s.state[p].hydrating)
    BY DEF Flags
  <2>2. \A T : Total(s, T) = Total(r, T)  BY EditTotal
  <2>3. /\ Total(r, PlansOf(p)) = Count(r.state[p].busy)
        /\ p # x => Total(r, HydratesOf(p)) = Count(r.state[p].hydrating)
    BY <2>1 DEF RtInv, Flags
  <2>4. s.state[p].busy = r.state[p].busy /\ s.state[p].hydrating = r.state[p].hydrating
    BY DEF Edit
  <2>5. QED  BY <2>2, <2>3, <2>4
<1>6. QED  BY <1>4, <1>5 DEF Base, RtInv


\* Jobs that begin or end leave the sessions' states alone.
LEMMA SameStates ==
  ASSUME NEW r, NEW s, Base(r), Core(s), s.state = r.state, NEW J,
         JobsOf(s) \subseteq JobsOf(r) \cup J,
         \A j \in J : j.o \in Objects => Dated(j, r.state[j.o])
  PROVE  Base(s)
<1>1. \A j \in JobsOf(s) : j.o \in Objects => Dated(j, s.state[j.o])
  BY DEF Base, Views
<1>2. QED  BY <1>1 DEF Base, Views, Gens

\* Offering a job to the queue keeps the parts of the invariant that are not about flags.
LEMMA EnqueueBase ==
  ASSUME NEW r, Base(r), NEW job \in Job, Fresh(job),
         job.o \in Objects => Dated(job, r.state[job.o])
  PROVE  /\ Base(Enqueue(r, job))
         /\ Enqueue(r, job).state = r.state /\ Enqueue(r, job).sessions = r.sessions
         /\ disposed # "no" => Enqueue(r, job) = r
<1>1. Core(r)  BY DEF Base
<1>2. /\ Core(Enqueue(r, job))
      /\ Enqueue(r, job).state = r.state /\ Enqueue(r, job).sessions = r.sessions
      /\ JobsOf(Enqueue(r, job)) \subseteq JobsOf(r) \cup {job, Leaked}
  BY <1>1, EnqueueEffect
<1>3. \A j \in {job, Leaked} : j.o \in Objects => Dated(j, r.state[j.o])
  BY FixedJobs, Constants
<1>4. Base(Enqueue(r, job))
  <2> DEFINE e == Enqueue(r, job)
             J == {job, Leaked}
  <2>1. Core(e) /\ e.state = r.state /\ JobsOf(e) \subseteq JobsOf(r) \cup J  BY <1>2
  <2>2. \A j \in J : j.o \in Objects => Dated(j, r.state[j.o])  BY <1>3
  <2> HIDE DEF e, J
  <2>3. Base(e)  BY <2>1, <2>2, SameStates
  <2>4. QED  BY <2>3 DEF e
<1>5. disposed # "no" => Enqueue(r, job) = r  BY DEF Enqueue, Accepts
<1>6. QED  BY <1>2, <1>4, <1>5

\* A job that is under way keeps its slot when another comes.
LEMMA EnqueueKeeps ==
  ASSUME NEW r, Core(r), NEW job \in Job, NEW i \in Slots, r.run[i] # Idle
  PROVE  Enqueue(r, job).run[i] = r.run[i]
<1>1. CASE ~Accepts(r, job)  BY <1>1 DEF Enqueue
<1>2. CASE Accepts(r, job)
  <2> DEFINE a == [r EXCEPT !.queue = Append(@, job), !.bytes = @ + Cost(job)]
  <2>1. Enqueue(r, job) = Pump(a)  BY <1>2 DEF Enqueue
  <2>2. r \in RtType /\ r.queue \in Seq(Job) /\ r.bytes \in Nat  BY DEF Core, Loose, RtType
  <2>3. a = [sessions |-> r.sessions, state |-> r.state, queue |-> Append(r.queue, job),
             run |-> r.run, bytes |-> r.bytes + Cost(job)]
    BY <2>2, AppendedIs
  <2> HIDE DEF a
  <2>4. a.run = r.run /\ a.queue \in Seq(Job) /\ a.bytes \in Nat  BY <2>2, <2>3 DEF Cost
  <2>5. a \in RtType  BY <2>2, <2>3, <2>4 DEF RtType
  <2>6. CASE disposed # "no" \/ FreeSlots(a) = {} \/ a.queue = << >>
    BY <2>1, <2>4, <2>6 DEF Pump
  <2>7. CASE disposed = "no" /\ FreeSlots(a) # {} /\ a.queue # << >>
    <3> DEFINE l == Lowest(FreeSlots(a))
               sh == Started(Head(a.queue))
    <3>1. l \in Slots /\ a.run[l] = Idle /\ Pump(a).run = [a.run EXCEPT ![l] = sh]
      BY <2>5, <2>7, PumpFields
    <3> HIDE DEF l, sh
    <3>2. l # i  BY <3>1, <2>4
    <3>3. a.run \in [Slots -> Job]  BY <2>5 DEF RtType
    <3>4. QED  BY <3>1, <3>2, <3>3, <2>1, <2>4
  <2>8. QED  BY <2>6, <2>7
<1>3. QED  BY <1>1, <1>2

\* The generation rises by one.
LEMMA CancelRt ==
  ASSUME NEW r, NEW x, NEW o \in Objects, RtInv(r, x), r.state[o].generation <= MaxGeneration
  PROVE  \A s : s = Cancel(r, o) =>
           /\ RtInv(s, x) /\ s.run = r.run /\ s.sessions = r.sessions
           /\ Edit(r, s, o, [r.state[o] EXCEPT !.generation = @ + 1])
           /\ s.state[o].generation = r.state[o].generation + 1
           /\ s.state[o].view = r.state[o].view
<1> DEFINE st == [r.state[o] EXCEPT !.generation = @ + 1]
<1>1. Base(r)  BY DEF RtInv, Base
<1>2. r \in RtType /\ r.state[o] \in SessionState /\ Sound(r.state[o])  BY <1>1, BaseState
<1>3. r.state[o].generation \in Nat /\ MaxGeneration \in Nat
  BY <1>2, Constants DEF SessionState
<1>4. r.state[o].generation + 1 \in 0..MaxGeneration + 2  BY <1>3
<1>5. /\ st \in SessionState /\ st.generation = r.state[o].generation + 1
      /\ st.busy = r.state[o].busy /\ st.hydrating = r.state[o].hydrating
      /\ st.epoch = r.state[o].epoch /\ st.view = r.state[o].view
      /\ st.snapshot = r.state[o].snapshot /\ st.hydrated = r.state[o].hydrated
  BY <1>2, <1>4 DEF SessionState
<1>6. Cancel(r, o) = [r EXCEPT !.state[o] = st]
  BY <1>2 DEF Cancel, RtType
<1> HIDE DEF st
<1>7. Edit(r, Cancel(r, o), o, st)  BY <1>2, <1>5, <1>6, EditIs
<1>8. st.generation <= GenBound /\ r.state[o].generation <= st.generation
      /\ st.generation # r.state[o].generation
  BY <1>3, <1>5 DEF GenBound
<1>9. Sound(st)  BY <1>2, <1>5, <1>8 DEF Sound
<1>10. RtInv(Cancel(r, o), x)  BY <1>5, <1>7, <1>8, <1>9, EditRt
<1>11. QED  BY <1>5, <1>7, <1>10 DEF Edit, st


\* The request to forget the view is no session's job.
LEMMA EnqueueClear ==
  ASSUME NEW r, NEW x, RtInv(r, x)
  PROVE  \A s : s = Enqueue(r, ClearJob) =>
           /\ RtInv(s, x) /\ s.state = r.state /\ s.sessions = r.sessions
           /\ disposed # "no" => s.run = r.run
           /\ JobsOf(s) \subseteq JobsOf(r) \cup {ClearJob, Leaked}
<1> DEFINE s == Enqueue(r, ClearJob)
<1>1. Base(r) /\ Core(r)  BY DEF RtInv, Base
<1>2. ClearJob \in Job /\ Fresh(ClearJob) /\ ClearJob.o \notin Objects  BY FixedJobs, Constants
<1>3. /\ Base(s) /\ s.state = r.state /\ s.sessions = r.sessions
      /\ disposed # "no" => s = r
  BY <1>1, <1>2, EnqueueBase
<1>4. JobsOf(s) \subseteq JobsOf(r) \cup {ClearJob, Leaked} /\ (~Accepts(r, ClearJob) => s = r)
  BY <1>1, <1>2, EnqueueEffect
<1>5. ASSUME NEW T, Sane(T), ClearJob \notin T  PROVE Total(s, T) = Total(r, T)
  <2>1. CASE Accepts(r, ClearJob)
    <3>1. Total(s, T) = Total(r, T) + Count(ClearJob \in T)
      BY <1>1, <1>2, <1>5, <2>1, EnqueueTotal
    <3>2. Count(ClearJob \in T) = 0  BY <1>5 DEF Count
    <3>3. r.queue \in Seq(Job)  BY <1>1 DEF Core, Loose, RtType
    <3>4. Total(r, T) \in Nat  BY <3>3, QueuedType, RanType DEF Total
    <3> HIDE DEF s
    <3>5. QED  BY <3>1, <3>2, <3>4
  <2>2. CASE ~Accepts(r, ClearJob)  BY <2>2, <1>4
  <2>3. QED  BY <2>1, <2>2
<1>6. ASSUME NEW p \in Objects
      PROVE  /\ Total(s, PlansOf(p)) = Total(r, PlansOf(p))
             /\ Total(s, HydratesOf(p)) = Total(r, HydratesOf(p))
  <2>1. Sane(PlansOf(p)) /\ Sane(HydratesOf(p))  BY SaneSets
  <2>2. ClearJob \notin PlansOf(p) /\ ClearJob \notin HydratesOf(p)
    BY <1>2 DEF PlansOf, HydratesOf
  <2>3. QED  BY <2>1, <2>2, <1>5
<1> HIDE DEF s
<1>7. Flags(s, x)  BY <1>3, <1>6 DEF RtInv, Flags
<1>8. RtInv(s, x)  BY <1>3, <1>7 DEF Base, RtInv
<1>9. QED  BY <1>3, <1>4, <1>8 DEF s

\* The view goes, and with it every plan that is under way.
LEMMA ClearViewRt ==
  ASSUME NEW r, NEW x, NEW o \in Objects, RtInv(r, x), r.state[o].generation <= MaxGeneration
  PROVE  \A s : s = ClearView(r, o) =>
           /\ RtInv(s, x) /\ s.sessions = r.sessions
           /\ disposed # "no" => s.run = r.run
           /\ s.state[o].view = None /\ s.state[o].epoch = r.state[o].epoch
           /\ \A j \in JobsOf(s) : j.o = o => j.gen < s.state[o].generation
<1> DEFINE st == [r.state[o] EXCEPT !.view = None]
           a == [r EXCEPT !.state[o].view = None]
           b == Cancel(a, o)
           s == Enqueue(b, ClearJob)
<1>1. Base(r)  BY DEF RtInv, Base
<1>2. r \in RtType /\ r.state[o] \in SessionState /\ Sound(r.state[o])  BY <1>1, BaseState
<1>3. /\ st \in SessionState /\ st.generation = r.state[o].generation
      /\ st.busy = r.state[o].busy /\ st.hydrating = r.state[o].hydrating
      /\ st.epoch = r.state[o].epoch /\ st.view = None
      /\ st.snapshot = r.state[o].snapshot /\ st.hydrated = r.state[o].hydrated
  BY <1>2 DEF SessionState
<1>4. a = [r EXCEPT !.state[o] = st]  BY <1>2 DEF RtType
<1>5. s = ClearView(r, o)  BY DEF ClearView
<1> HIDE DEF st
<1>6. Edit(r, a, o, st)  BY <1>2, <1>3, <1>4, EditIs
<1> HIDE DEF a
<1>7. r.state[o].generation \in Nat  BY <1>2 DEF SessionState
<1>8. Sound(st)  BY <1>2, <1>3 DEF Sound
<1>9. RtInv(a, x)
  <2>1. r.state[o].generation <= st.generation  BY <1>3, <1>7
  <2>2. QED  BY <2>1, <1>3, <1>6, <1>8, EditRt
<1>10. a.state[o] = st /\ a.run = r.run /\ a.sessions = r.sessions /\ JobsOf(a) = JobsOf(r)
  BY <1>6, EditTotal DEF Edit
<1>11. a.state[o].generation <= MaxGeneration  BY <1>3, <1>10
<1>12. /\ RtInv(b, x) /\ b.run = a.run /\ b.sessions = a.sessions
       /\ Edit(a, b, o, [a.state[o] EXCEPT !.generation = @ + 1])
       /\ b.state[o].generation = a.state[o].generation + 1
       /\ b.state[o].view = a.state[o].view
  BY <1>9, <1>11, CancelRt
<1>13. b.state[o].epoch = r.state[o].epoch /\ b.state[o].view = None
  <2>1. b.state[o] = [st EXCEPT !.generation = @ + 1]  BY <1>10, <1>12 DEF Edit
  <2>2. QED  BY <2>1, <1>3, <1>10, <1>12 DEF SessionState
<1>14. JobsOf(b) = JobsOf(r)  BY <1>10, <1>12, EditTotal
<1> HIDE DEF b
<1>15. /\ RtInv(s, x) /\ s.state = b.state /\ s.sessions = b.sessions
       /\ disposed # "no" => s.run = b.run
       /\ JobsOf(s) \subseteq JobsOf(b) \cup {ClearJob, Leaked}
  BY <1>12, EnqueueClear
<1> HIDE DEF s
<1>16. ASSUME NEW j \in JobsOf(s), j.o = o  PROVE j.gen < s.state[o].generation
  <2>1. j \in JobsOf(r)  BY <1>14, <1>15, <1>16, FixedJobs, Constants
  <2>2. j \in Job /\ Dated(j, r.state[o])  BY <2>1, <1>1, <1>16, BaseState
  <2>3. j.gen \in Nat /\ j.gen <= r.state[o].generation  BY <2>2 DEF Job, Dated
  <2>4. s.state[o].generation = r.state[o].generation + 1  BY <1>3, <1>10, <1>12, <1>15
  <2>5. QED  BY <2>3, <2>4, <1>7
<1>17. QED  BY <1>5, <1>10, <1>12, <1>13, <1>15, <1>16


\* Totals are numbers.
LEMMA TotalType ==
  ASSUME NEW r, Core(r), NEW T
  PROVE  Total(r, T) \in Nat
<1>1. r.queue \in Seq(Job)  BY DEF Core, Loose, RtType
<1>2. QED  BY <1>1, QueuedType, RanType DEF Total

\* A change of the flags alone leaves the dates of the jobs right.
LEMMA SameDates ==
  ASSUME NEW r, Base(r), NEW o \in Objects, NEW st,
         st.generation = r.state[o].generation, st.epoch = r.state[o].epoch
  PROVE  \A j \in JobsOf(r) : j.o = o => Dated(j, st)
BY BaseState DEF Dated

\* A plan is scheduled: the session is busy, and has one plan.
LEMMA ScheduleRt ==
  ASSUME NEW r, NEW x, NEW o \in Objects, RtInv(r, x)
  PROVE  \A s : s = Schedule(r, o) =>
           /\ RtInv(s, x) /\ s.sessions = r.sessions
           /\ disposed # "no" => s.run = r.run
           /\ s.state[o].hydrating = r.state[o].hydrating
           /\ \A i \in Slots : r.run[i] # Idle => s.run[i] = r.run[i]
           /\ \A p \in Objects : Total(s, HydratesOf(p)) = Total(r, HydratesOf(p))
<1> DEFINE job == PlanJob(r.state[o], o)
           st == [r.state[o] EXCEPT !.busy = TRUE]
           a == [r EXCEPT !.state[o].busy = TRUE]
           s == Enqueue(a, job)
<1>1. CASE Blocked(r.state[o]) \/ ~Accepts(r, job)
  <2>1. Schedule(r, o) = r  BY <1>1 DEF Schedule
  <2>2. QED  BY <2>1
<1>2. CASE ~Blocked(r.state[o]) /\ Accepts(r, job)
  <2>1. Schedule(r, o) = s  BY <1>2 DEF Schedule
  <2>2. Base(r) /\ disposed = "no"  BY <1>2 DEF RtInv, Base, Accepts
  <2>3. r \in RtType /\ r.state[o] \in SessionState /\ Sound(r.state[o])  BY <2>2, BaseState
  <2>4. ~r.state[o].busy /\ r.state[o].snapshot # None  BY <1>2 DEF Blocked
  <2>5. r.state[o].epoch # None  BY <2>3, <2>4 DEF Sound
  <2>6. /\ st \in SessionState /\ st.generation = r.state[o].generation /\ st.busy
        /\ st.hydrating = r.state[o].hydrating
        /\ st.epoch = r.state[o].epoch /\ st.view = r.state[o].view
        /\ st.snapshot = r.state[o].snapshot /\ st.hydrated = r.state[o].hydrated
    BY <2>3 DEF SessionState
  <2>7. a = [r EXCEPT !.state[o] = st]  BY <2>3 DEF RtType
  <2>8. /\ job \in Job /\ job.o = o /\ job.at = "resolve" /\ job.gen = r.state[o].generation
        /\ job.raw = r.state[o].snapshot
    BY <2>3 DEF PlanJob, NewJob, Job, SessionState, PlanStages
  <2> HIDE DEF st, job
  <2>9. Edit(r, a, o, st)  BY <2>3, <2>6, <2>7, EditIs
  <2> HIDE DEF a
  <2>10. Fresh(job)  BY <2>8, <2>4, Constants DEF Fresh, JobForm, PlanStages, HydrateStages, Planned
  <2>11. Base(a)
    <3>1. Sound(st)  BY <2>3, <2>6 DEF Sound
    <3>2. \A j \in JobsOf(r) : j.o = o => Dated(j, st)  BY <2>2, <2>6, SameDates
    <3>3. QED  BY <3>1, <3>2, <2>2, <2>9, EditBase
  <2>12. /\ a.state[o] = st /\ a.run = r.run /\ a.sessions = r.sessions
         /\ \A p \in Objects \ {o} : a.state[p] = r.state[p]
    BY <2>9 DEF Edit
  <2>13. Accepts(a, job) /\ \A T : Total(a, T) = Total(r, T)  BY <1>2, <2>9, EditTotal
  <2>14. Dated(job, a.state[job.o])
    <3>1. job.gen \in Nat  BY <2>8 DEF Job
    <3>2. QED  BY <3>1, <2>5, <2>6, <2>8, <2>12 DEF Dated, Planned
  <2>15. Base(s) /\ s.state = a.state /\ s.sessions = a.sessions
    BY <2>8, <2>10, <2>11, <2>14, EnqueueBase
  <2>16. Core(a)  BY <2>11 DEF Base
  <2>17. \A T : Sane(T) => Total(s, T) = Total(r, T) + Count(job \in T)
    BY <2>8, <2>10, <2>13, <2>16, EnqueueTotal
  <2>18. \A i \in Slots : r.run[i] # Idle => s.run[i] = r.run[i]
    BY <2>8, <2>12, <2>16, EnqueueKeeps
  <2> HIDE DEF s
  <2>19. ASSUME NEW p \in Objects  PROVE Total(s, HydratesOf(p)) = Total(r, HydratesOf(p))
    <3>1. job \notin HydratesOf(p)  BY <2>8 DEF HydratesOf, HydrateStages
    <3>2. Count(job \in HydratesOf(p)) = 0  BY <3>1 DEF Count
    <3>3. Total(s, HydratesOf(p)) = Total(r, HydratesOf(p)) + 0  BY <3>2, <2>17, SaneSets
    <3>4. Core(r)  BY <2>2 DEF Base
    <3>5. Total(r, HydratesOf(p)) \in Nat  BY <3>4, TotalType
    <3>6. QED  BY <3>3, <3>5
  <2>20. ASSUME NEW p \in Objects  PROVE Total(s, PlansOf(p)) = Count(s.state[p].busy)
    <3>1. Total(r, PlansOf(p)) = Count(r.state[p].busy)  BY <2>2 DEF RtInv, Flags
    <3>2. Total(s, PlansOf(p)) = Total(r, PlansOf(p)) + Count(job \in PlansOf(p))
      BY <2>17, SaneSets
    <3>3. CASE p = o
      <4>1. Count(job \in PlansOf(p)) = 1  BY <3>3, <2>8 DEF PlansOf, Count, PlanStages
      <4>2. Count(r.state[p].busy) = 0  BY <3>3, <2>4 DEF Count
      <4>3. Count(s.state[p].busy) = 1  BY <3>3, <2>6, <2>12, <2>15 DEF Count
      <4>4. QED  BY <3>1, <3>2, <4>1, <4>2, <4>3
    <3>4. CASE p # o
      <4>1. Count(job \in PlansOf(p)) = 0  BY <3>4, <2>8 DEF PlansOf, Count
      <4>2. s.state[p].busy = r.state[p].busy  BY <3>4, <2>12, <2>15
      <4>3. Count(r.state[p].busy) \in Nat  BY DEF Count
      <4>4. QED  BY <3>1, <3>2, <4>1, <4>2, <4>3
    <3>5. QED  BY <3>3, <3>4
  <2>21. \A p \in Objects : s.state[p].hydrating = r.state[p].hydrating
    BY <2>6, <2>12, <2>15
  <2>22. Flags(s, x)  BY <2>2, <2>19, <2>20, <2>21 DEF RtInv, Flags
  <2>23. RtInv(s, x)  BY <2>15, <2>22 DEF Base, RtInv
  <2>24. QED  BY <2>1, <2>2, <2>12, <2>15, <2>18, <2>19, <2>21, <2>23
<1>3. QED  BY <1>1, <1>2

\* The view is asked for: the session is hydrating, and has one request.
LEMMA HydrateRt ==
  ASSUME NEW r, NEW o \in Objects, RtInv(r, 0), r.state[o].epoch # None
  PROVE  \A s : s = Hydrate(r, o) =>
           /\ RtInv(s, 0) /\ s.sessions = r.sessions
           /\ disposed # "no" => s.run = r.run
           /\ s.state[o].view = r.state[o].view
           /\ s.state[o].generation = r.state[o].generation

<1> DEFINE job == NewJob("hydrate", o, r.state[o].generation, None)
           st1 == [r.state[o] EXCEPT !.hydrated = TRUE]
           st == [st1 EXCEPT !.hydrating = TRUE]
           a1 == [r EXCEPT !.state[o].hydrated = TRUE]
           a == [a1 EXCEPT !.state[o].hydrating = TRUE]
           s == Enqueue(a, job)
<1>1. CASE r.state[o].hydrated \/ ~Accepts(r, job)
  <2>1. Hydrate(r, o) = r  BY <1>1 DEF Hydrate
  <2>2. QED  BY <2>1
<1>2. CASE ~r.state[o].hydrated /\ Accepts(r, job)
  <2>1. Hydrate(r, o) = s  BY <1>2 DEF Hydrate
  <2>2. Base(r) /\ disposed = "no" /\ Core(r)  BY <1>2 DEF RtInv, Base, Accepts
  <2>3. r \in RtType /\ r.state[o] \in SessionState /\ Sound(r.state[o])  BY <2>2, BaseState
  <2>4. ~r.state[o].hydrating  BY <1>2, <2>3 DEF Sound
  <2>5. st1 \in SessionState /\ a1 = [r EXCEPT !.state[o] = st1]  BY <2>3 DEF SessionState, RtType
  <2>6. /\ st \in SessionState /\ st.generation = r.state[o].generation /\ st.hydrating
        /\ st.busy = r.state[o].busy /\ st.hydrated
        /\ st.epoch = r.state[o].epoch /\ st.view = r.state[o].view
        /\ st.snapshot = r.state[o].snapshot
    BY <2>3 DEF SessionState
  <2>7. /\ job \in Job /\ job.o = o /\ job.at = "hydrate" /\ job.gen = r.state[o].generation
        /\ job.raw = None
    BY <2>3 DEF NewJob, Job, SessionState, HydrateStages
  <2> HIDE DEF st1, job
  <2>8. Edit(r, a1, o, st1)  BY <2>3, <2>5, EditIs
  <2> HIDE DEF a1
  <2>9. a1 \in RtType /\ a1.state[o] = st1  BY <2>8 DEF Edit
  <2>10. a = [a1 EXCEPT !.state[o] = st]  BY <2>9 DEF RtType
  <2> HIDE DEF st
  <2>11. Edit(a1, a, o, st)  BY <2>6, <2>9, <2>10, EditIs
  <2>12. Edit(r, a, o, st)  BY <2>8, <2>11, EditTwice
  <2> HIDE DEF a
  <2>13. Fresh(job)  BY <2>7, Constants DEF Fresh, JobForm, PlanStages, HydrateStages, Planned
  <2>14. Base(a)
    <3>1. Sound(st)  BY <2>3, <2>6 DEF Sound
    <3>2. \A j \in JobsOf(r) : j.o = o => Dated(j, st)  BY <2>2, <2>6, SameDates
    <3>3. QED  BY <3>1, <3>2, <2>2, <2>12, EditBase
  <2>15. /\ a.state[o] = st /\ a.sessions = r.sessions
         /\ \A p \in Objects \ {o} : a.state[p] = r.state[p]
    BY <2>12 DEF Edit
  <2>16. Accepts(a, job) /\ \A T : Total(a, T) = Total(r, T)  BY <1>2, <2>12, EditTotal
  <2>17. Dated(job, a.state[job.o])
    <3>1. job.gen \in Nat  BY <2>7 DEF Job
    <3>2. QED  BY <3>1, <2>6, <2>7, <2>15 DEF Dated, Planned
  <2>18. Base(s) /\ s.state = a.state /\ s.sessions = a.sessions
    BY <2>7, <2>13, <2>14, <2>17, EnqueueBase
  <2>19. \A T : Sane(T) => Total(s, T) = Total(r, T) + Count(job \in T)
    <3>1. Core(a)  BY <2>14 DEF Base
    <3>2. QED  BY <3>1, <2>7, <2>13, <2>16, EnqueueTotal
  <2> HIDE DEF s
  <2>20. ASSUME NEW p \in Objects  PROVE Total(s, PlansOf(p)) = Count(s.state[p].busy)
    <3>1. job \notin PlansOf(p)  BY <2>7 DEF PlansOf, PlanStages
    <3>2. Count(job \in PlansOf(p)) = 0  BY <3>1 DEF Count
    <3>3. Total(s, PlansOf(p)) = Total(r, PlansOf(p)) + 0  BY <3>2, <2>19, SaneSets
    <3>4. Total(r, PlansOf(p)) \in Nat  BY <2>2, TotalType
    <3>5. Total(r, PlansOf(p)) = Count(r.state[p].busy)  BY <2>2 DEF RtInv, Flags
    <3>6. s.state[p].busy = r.state[p].busy  BY <2>6, <2>15, <2>18
    <3>7. Total(s, PlansOf(p)) = Total(r, PlansOf(p))  BY <3>3, <3>4
    <3>8. QED  BY <3>5, <3>6, <3>7
  <2>21. ASSUME NEW p \in Objects  PROVE Total(s, HydratesOf(p)) = Count(s.state[p].hydrating)
    <3>1. Total(r, HydratesOf(p)) = Count(r.state[p].hydrating)
      BY <2>2, Constants DEF RtInv, Flags
    <3>2. Total(s, HydratesOf(p)) = Total(r, HydratesOf(p)) + Count(job \in HydratesOf(p))
      BY <2>19, SaneSets
    <3>3. CASE p = o
      <4>1. Count(job \in HydratesOf(p)) = 1  BY <3>3, <2>7 DEF HydratesOf, Count, HydrateStages
      <4>2. Count(r.state[p].hydrating) = 0  BY <3>3, <2>4 DEF Count
      <4>3. Count(s.state[p].hydrating) = 1  BY <3>3, <2>6, <2>15, <2>18 DEF Count
      <4>4. QED  BY <3>1, <3>2, <4>1, <4>2, <4>3
    <3>4. CASE p # o
      <4>1. Count(job \in HydratesOf(p)) = 0  BY <3>4, <2>7 DEF HydratesOf, Count
      <4>2. s.state[p].hydrating = r.state[p].hydrating  BY <3>4, <2>15, <2>18
      <4>3. Count(r.state[p].hydrating) \in Nat  BY DEF Count
      <4>4. QED  BY <3>1, <3>2, <4>1, <4>2, <4>3
    <3>5. QED  BY <3>3, <3>4
  <2>22. Flags(s, 0)  BY <2>20, <2>21 DEF Flags
  <2>23. RtInv(s, 0)  BY <2>18, <2>22 DEF Base, RtInv
  <2>24. QED  BY <2>1, <2>2, <2>6, <2>15, <2>18, <2>23
<1>3. QED  BY <1>1, <1>2

\* A view is dropped only while the generation may still rise.
LEMMA CheckViewRt ==
  ASSUME NEW r, NEW o \in Objects, NEW history, NEW keeps \in BOOLEAN, RtInv(r, 0),
         r.state[o].view # None => r.state[o].generation <= MaxGeneration
  PROVE  \A s : s = CheckView(r, o, history, keeps) =>
           RtInv(s, 0) /\ (disposed # "no" => s.run = r.run)
<1>1. CASE r.state[o].view # None /\ ~(keeps /\ Applies(history, r.state[o].view))
  BY <1>1, ClearViewRt DEF CheckView
<1>2. CASE ~(r.state[o].view # None /\ ~(keeps /\ Applies(history, r.state[o].view)))
  BY <1>2 DEF CheckView
<1>3. QED  BY <1>1, <1>2

\* The session enters an epoch: no view and no plan of another is left.
LEMMA EnterEpochRt ==
  ASSUME NEW r, NEW o \in Objects, NEW history \in History, RtInv(r, 0),
         r.state[o].generation <= MaxGeneration
  PROVE  \A s : s = EnterEpoch(r, o, history) =>
           /\ RtInv(s, 0) /\ (disposed # "no" => s.run = r.run)
           /\ s.state[o].epoch # None
           /\ s.state[o].view # None => s.state[o].generation <= MaxGeneration
<1> DEFINE old == r.state[o].epoch
           now == IF old # None /\ old # history.epoch THEN ClearView(r, o) ELSE r
           st1 == [now.state[o] EXCEPT !.epoch = history.epoch]
           st == [st1 EXCEPT !.snapshot = history]
           s1 == [now EXCEPT !.state[o].epoch = history.epoch]
           s == [s1 EXCEPT !.state[o].snapshot = history]
<1>1. s = EnterEpoch(r, o, history)  BY DEF EnterEpoch
<1>2. Base(r)  BY DEF RtInv, Base
<1>3. r.state[o] \in SessionState  BY <1>2, BaseState
<1>4. /\ RtInv(now, 0) /\ (disposed # "no" => now.run = r.run)
      /\ now.state[o].view # None => /\ now.state[o].generation <= MaxGeneration
                                     /\ old = None \/ old = history.epoch
      /\ now.state[o].epoch = old
      /\ old = None \/ old = history.epoch
           \/ \A j \in JobsOf(now) : j.o = o => j.gen < now.state[o].generation
  <2>1. CASE old # None /\ old # history.epoch
    <3>1. now = ClearView(r, o)  BY <2>1
    <3>2. /\ RtInv(now, 0) /\ now.state[o].view = None /\ now.state[o].epoch = r.state[o].epoch
          /\ (disposed # "no" => now.run = r.run)
          /\ \A j \in JobsOf(now) : j.o = o => j.gen < now.state[o].generation
      BY <3>1, ClearViewRt
    <3>3. QED  BY <3>2
  <2>2. CASE ~(old # None /\ old # history.epoch)
    <3>1. now = r  BY <2>2
    <3>2. QED  BY <3>1, <2>2
  <2>3. QED  BY <2>1, <2>2
<1> HIDE DEF now
<1>5. Base(now)  BY <1>4 DEF RtInv, Base
<1>6. /\ now \in RtType /\ now.state[o] \in SessionState /\ Sound(now.state[o])
      /\ \A j \in JobsOf(now) : j \in Job /\ (j.o = o => Dated(j, now.state[o]))
  BY <1>5, BaseState
<1>7. history.epoch \in 0..MaxEpoch /\ history.epoch # None  BY Constants DEF History
<1>8. st1 \in SessionState /\ s1 = [now EXCEPT !.state[o] = st1]
  BY <1>6, <1>7 DEF SessionState, RtType
<1>9. /\ st \in SessionState /\ st.generation = now.state[o].generation
      /\ st.hydrating = now.state[o].hydrating /\ st.hydrated = now.state[o].hydrated
      /\ st.busy = now.state[o].busy
      /\ st.epoch = history.epoch /\ st.view = now.state[o].view
      /\ st.snapshot = history
  BY <1>6, <1>7 DEF SessionState
<1> HIDE DEF st1
<1>10. Edit(now, s1, o, st1)  BY <1>6, <1>8, EditIs
<1> HIDE DEF s1
<1>11. s1 \in RtType /\ s1.state[o] = st1  BY <1>10 DEF Edit
<1>12. s = [s1 EXCEPT !.state[o] = st]  BY <1>11 DEF RtType
<1> HIDE DEF st
<1>13. Edit(s1, s, o, st)  BY <1>9, <1>11, <1>12, EditIs
<1>14. Edit(now, s, o, st)  BY <1>10, <1>13, EditTwice
<1> HIDE DEF s
<1>15. Sound(st)
  <2>1. st.view # None => st.view.epoch = st.epoch
    <3>1. SUFFICES ASSUME st.view # None  PROVE st.view.epoch = history.epoch  BY <1>9
    <3>2. now.state[o].view.epoch = old  BY <3>1, <1>4, <1>6, <1>9 DEF Sound
    <3>3. CASE old = history.epoch  BY <3>2, <3>3, <1>9
    <3>4. CASE old = None
      <4>1. now.state[o].view \in Plan  BY <3>1, <1>6, <1>9 DEF SessionState
      <4>2. now.state[o].view.epoch \in 0..MaxEpoch  BY <4>1 DEF Plan
      <4>3. QED  BY <4>2, <3>2, <3>4, Constants
    <3>5. QED  BY <3>1, <3>3, <3>4, <1>4, <1>9
  <2>2. QED  BY <2>1, <1>6, <1>7, <1>9 DEF Sound
<1>16. ASSUME NEW j \in JobsOf(now), j.o = o  PROVE Dated(j, st)
  <2>1. j \in Job /\ Dated(j, now.state[o])  BY <1>6, <1>16
  <2>2. j.gen <= st.generation /\ old # None /\ st.epoch # None  BY <2>1, <1>4, <1>7, <1>9 DEF Dated
  <2>3. ASSUME j.at \in Planned, j.gen = st.generation  PROVE j.plan.epoch = st.epoch
    <3>1. j.gen \in Nat  BY <2>1 DEF Job
    <3>2. ~(j.gen < now.state[o].generation)  BY <3>1, <2>3, <1>9
    <3>3. old = history.epoch  BY <3>2, <2>2, <1>4, <1>16
    <3>4. QED  BY <3>3, <2>1, <2>3, <1>4, <1>9 DEF Dated
  <2>4. QED  BY <2>2, <2>3 DEF Dated
<1>17. Base(s)  BY <1>5, <1>14, <1>15, <1>16, EditBase
<1>18. s.state[o] = st /\ s.run = now.run /\ \A p \in Objects \ {o} : s.state[p] = now.state[p]
  BY <1>14 DEF Edit
<1>19. Flags(s, 0)
  <2>1. \A T : Total(s, T) = Total(now, T)  BY <1>14, EditTotal
  <2>2. \A p \in Objects : /\ s.state[p].busy = now.state[p].busy
                           /\ s.state[p].hydrating = now.state[p].hydrating
    BY <1>9, <1>18
  <2>3. QED  BY <2>1, <2>2, <1>4 DEF RtInv, Flags
<1>20. RtInv(s, 0)  BY <1>17, <1>19 DEF RtInv, Base
<1>21. QED  BY <1>1, <1>4, <1>7, <1>9, <1>18, <1>20


\* The snapshot goes.
LEMMA DropSnapshot ==
  ASSUME NEW r, NEW o \in Objects, RtInv(r, 0)
  PROVE  \A s : s = [r EXCEPT !.state[o].snapshot = None] =>
           /\ RtInv(s, 0) /\ s.run = r.run /\ s.sessions = r.sessions
           /\ s.state[o].generation = r.state[o].generation
<1> DEFINE st == [r.state[o] EXCEPT !.snapshot = None]
           s == [r EXCEPT !.state[o].snapshot = None]
<1>1. Base(r)  BY DEF RtInv, Base
<1>2. r \in RtType /\ r.state[o] \in SessionState /\ Sound(r.state[o])  BY <1>1, BaseState
<1>3. /\ st \in SessionState /\ st.generation = r.state[o].generation
      /\ st.busy = r.state[o].busy /\ st.hydrating = r.state[o].hydrating
      /\ st.epoch = r.state[o].epoch /\ st.view = r.state[o].view
      /\ st.snapshot = None /\ st.hydrated = r.state[o].hydrated
  BY <1>2 DEF SessionState
<1>4. s = [r EXCEPT !.state[o] = st]  BY <1>2 DEF RtType
<1> HIDE DEF st
<1>5. Edit(r, s, o, st)  BY <1>2, <1>3, <1>4, EditIs
<1> HIDE DEF s
<1>6. Sound(st)  BY <1>2, <1>3 DEF Sound
<1>7. r.state[o].generation <= st.generation  BY <1>2, <1>3 DEF SessionState
<1>8. RtInv(s, 0)  BY <1>3, <1>5, <1>6, <1>7, EditRt
<1>9. QED  BY <1>3, <1>5, <1>8 DEF Edit, s

\* The session is paused or goes on.
LEMMA SetPaused ==
  ASSUME NEW r, NEW o \in Objects, NEW b \in BOOLEAN, RtInv(r, 0)
  PROVE  \A s : s = [r EXCEPT !.state[o].paused = b] =>
           /\ RtInv(s, 0) /\ s.run = r.run /\ s.sessions = r.sessions
           /\ s.state[o].generation = r.state[o].generation
<1> DEFINE st == [r.state[o] EXCEPT !.paused = b]
           s == [r EXCEPT !.state[o].paused = b]
<1>1. Base(r)  BY DEF RtInv, Base
<1>2. r \in RtType /\ r.state[o] \in SessionState /\ Sound(r.state[o])  BY <1>1, BaseState
<1>3. /\ st \in SessionState /\ st.generation = r.state[o].generation
      /\ st.busy = r.state[o].busy /\ st.hydrating = r.state[o].hydrating
      /\ st.epoch = r.state[o].epoch /\ st.view = r.state[o].view
      /\ st.snapshot = r.state[o].snapshot /\ st.hydrated = r.state[o].hydrated
  BY <1>2 DEF SessionState
<1>4. s = [r EXCEPT !.state[o] = st]  BY <1>2 DEF RtType
<1> HIDE DEF st
<1>5. Edit(r, s, o, st)  BY <1>2, <1>3, <1>4, EditIs
<1> HIDE DEF s
<1>6. Sound(st)  BY <1>2, <1>3 DEF Sound
<1>7. r.state[o].generation <= st.generation  BY <1>2, <1>3 DEF SessionState
<1>8. RtInv(s, 0)  BY <1>3, <1>5, <1>6, <1>7, EditRt
<1>9. QED  BY <1>3, <1>5, <1>8 DEF Edit, s

\* What the hooks need of a cancel: the closure's invariant, and the jobs that run.
LEMMA CancelKeeps ==
  ASSUME NEW r, NEW o \in Objects, RtInv(r, 0), r.state[o].generation <= MaxGeneration
  PROVE  RtInv(Cancel(r, o), 0) /\ Cancel(r, o).run = r.run
<1>1. RtInv(Cancel(r, o), 0)  BY CancelRt, ZenonT(60)
<1>2. Cancel(r, o).run = r.run  BY CancelRt, ZenonT(60)
<1>3. QED  BY <1>1, <1>2

\* What an event does to a session's state.
LEMMA OnEditRt ==
  ASSUME NEW r, NEW o \in Objects, NEW k, RtInv(r, 0), r.state[o].generation <= MaxGeneration
  PROVE  \A s : s = OnEdit(r, o, k) => RtInv(s, 0) /\ (disposed # "no" => s.run = r.run)
<1> DEFINE a == [r EXCEPT !.state[o].snapshot = None]
           st == r.state[o]
<1>1. /\ RtInv(a, 0) /\ a.run = r.run /\ a.state[o].generation = r.state[o].generation
  BY DropSnapshot
<1>2. OnEdit(r, o, k) \in {ClearView(a, o), Cancel(a, o), r}  BY DEF OnEdit
<1> HIDE DEF a
<1>3. \A s : s = ClearView(a, o) => RtInv(s, 0) /\ (disposed # "no" => s.run = r.run)
  BY <1>1, ClearViewRt
<1>4. \A s : s = Cancel(a, o) => RtInv(s, 0) /\ s.run = r.run
  <2>1. a.state[o].generation <= MaxGeneration  BY <1>1
  <2>2. RtInv(a, 0)  BY <1>1
  <2>3. RtInv(Cancel(a, o), 0) /\ Cancel(a, o).run = a.run  BY <2>1, <2>2, CancelKeeps
  <2>4. QED  BY <2>3, <1>1
<1>5. QED  BY <1>2, <1>3, <1>4

\* Entries of the map.
LEMMA WithoutType ==
  ASSUME NEW q \in Seq(Objects), NEW k \in 1..Len(q)
  PROVE  Without(q, k) \in Seq(Objects) /\ Len(Without(q, k)) = Len(q) - 1
<1> DEFINE a == SubSeq(q, 1, k - 1)
           b == SubSeq(q, k + 1, Len(q))
<1>1. Len(q) \in Nat /\ k \in Nat /\ 1 <= k /\ k <= Len(q)  OBVIOUS
<1>2. a \in Seq(Objects) /\ Len(a) = k - 1
  <2>1. \A l \in 1..(k - 1) : q[l] \in Objects  BY <1>1
  <2>2. QED  BY <2>1, <1>1
<1>3. b \in Seq(Objects) /\ Len(b) = Len(q) - k
  <2>1. \A l \in (k + 1)..Len(q) : q[l] \in Objects  BY <1>1
  <2>2. QED  BY <2>1, <1>1
<1> HIDE DEF a, b
<1>4. a \o b \in Seq(Objects) /\ Len(a \o b) = Len(a) + Len(b)  BY <1>2, <1>3, ConcatProperties
<1>5. Len(a \o b) = Len(q) - 1  BY <1>1, <1>2, <1>3, <1>4
<1>6. QED  BY <1>4, <1>5 DEF Without, a, b

\* A session leaves the map; nothing else is about the map.
LEMMA DropEntry ==
  ASSUME NEW r, NEW e \in Seq(Objects), Len(e) <= MaxSessions, NEW x, RtInv(r, x)
  PROVE  \A s : s = [r EXCEPT !.sessions = e] =>
           /\ RtInv(s, x) /\ s.run = r.run /\ s.sessions = e /\ s.state = r.state
           /\ JobsOf(s) = JobsOf(r)
<1> DEFINE s == [r EXCEPT !.sessions = e]
<1>1. r \in RtType  BY DEF RtInv, Core, Loose
<1>2. s \in RtType  BY <1>1 DEF RtType
<1>3. /\ s.sessions = e /\ s.state = r.state /\ s.queue = r.queue /\ s.run = r.run
      /\ s.bytes = r.bytes
  BY <1>1 DEF RtType
<1> HIDE DEF s
<1>5. /\ JobsOf(s) = JobsOf(r) /\ FreeSlots(s) = FreeSlots(r) /\ \A T : Total(s, T) = Total(r, T)
  BY <1>3 DEF JobsOf, FreeSlots, Active, Total
<1>6. Core(s)  BY <1>2, <1>3, <1>5 DEF RtInv, Core, Loose
<1>7. Views(s) /\ Gens(s)  BY <1>3, <1>5 DEF RtInv, Views, Gens
<1>8. Flags(s, x)  BY <1>3, <1>5 DEF RtInv, Flags
<1>9. RtInv(s, x)  BY <1>6, <1>7, <1>8 DEF RtInv
<1>10. QED  BY <1>3, <1>5, <1>9 DEF s


-----------------------------------------------------------------------------
(* The state a hook works on *)

\* No job of a set is there, or a number of them.
LEMMA NoneCounted ==
  ASSUME NEW r, Core(r), NEW T, \A j \in JobsOf(r) : j \notin T
  PROVE  Total(r, T) = 0
<1>1. {k \in 1..Len(r.queue) : r.queue[k] \in T} = {}  BY DEF JobsOf
<1>2. {i \in Slots : r.run[i] \in T} = {}  BY DEF JobsOf
<1>3. Queued(r.queue, T) = 0  BY <1>1, FS_EmptySet DEF Queued
<1>4. Ran(r.run, T) = 0  BY <1>2, FS_EmptySet DEF Ran
<1>5. QED  BY <1>3, <1>4 DEF Total

\* A state nobody holds can become a new session's.
LEMMA NewStateRt ==
  ASSUME NEW r, RtInv(r, 0), NEW o \in Objects, \A j \in JobsOf(r) : j.o # o,
         NEW id \in Ids
  PROVE  \A s : s = [r EXCEPT !.state[o] = NewState(id)] =>
           /\ RtInv(s, 0) /\ Edit(r, s, o, NewState(id))
<1> DEFINE s == [r EXCEPT !.state[o] = NewState(id)]
           st == NewState(id)
<1>1. Base(r) /\ Core(r)  BY DEF RtInv, Base
<1>2. r \in RtType  BY <1>1, BaseState
<1>3. /\ st \in SessionState /\ ~st.busy /\ ~st.hydrating /\ st.view = None
      /\ st.snapshot = None /\ st.generation = 0
  BY Constants DEF NewState, SessionState
<1> HIDE DEF st
<1>4. Edit(r, s, o, st)  BY <1>2, <1>3, EditIs DEF st
<1> HIDE DEF s
<1>5. st.generation <= GenBound  BY <1>3, Constants DEF GenBound
<1>6. Sound(st)  BY <1>3, <1>5 DEF Sound
<1>7. Base(s)  BY <1>1, <1>4, <1>6, EditBase
<1>8. Total(r, PlansOf(o)) = 0 /\ Total(r, HydratesOf(o)) = 0
  <2>1. \A j \in JobsOf(r) : j \notin PlansOf(o) /\ j \notin HydratesOf(o)
    BY DEF PlansOf, HydratesOf
  <2>2. QED  BY <2>1, <1>1, NoneCounted
<1>9. \A T : Total(s, T) = Total(r, T)  BY <1>4, EditTotal
<1>10. Flags(s, 0)
  <2>1. SUFFICES ASSUME disposed = "no", NEW p \in Objects
                 PROVE  /\ Total(s, PlansOf(p)) = Count(s.state[p].busy)
                        /\ Total(s, HydratesOf(p)) = Count(s.state[p].hydrating)
    BY DEF Flags
  <2>2. CASE p = o
    <3>1. Count(s.state[p].busy) = 0 /\ Count(s.state[p].hydrating) = 0
      BY <2>2, <1>3, <1>4 DEF Edit, Count
    <3>2. QED  BY <3>1, <2>2, <1>8, <1>9
  <2>3. CASE p # o
    <3>1. s.state[p] = r.state[p]  BY <2>3, <1>4 DEF Edit
    <3>2. p # 0  BY Constants
    <3>3. QED  BY <3>1, <3>2, <2>1, <1>9 DEF RtInv, Flags
  <2>4. QED  BY <2>2, <2>3
<1>11. RtInv(s, 0)  BY <1>7, <1>10 DEF Base, RtInv
<1>12. QED  BY <1>4, <1>11 DEF s, st

\* The map with a new entry, when there is room or somebody could go.
LEMMA EvictedType ==
  ASSUME NEW r \in RtType, Len(r.sessions) <= MaxSessions,
         Len(r.sessions) >= MaxSessions => Evictable(r) # {}
  PROVE  /\ Evicted(r) \in Seq(Objects) /\ Len(Evicted(r)) < MaxSessions
         /\ \A k \in 1..Len(Evicted(r)) : Evicted(r)[k] \in Entries(r)
<1> DEFINE q == r.sessions
<1>1. q \in Seq(Objects) /\ Len(q) \in Nat /\ MaxSessions \in Nat \ {0}
  BY Constants DEF RtType
<1>2. CASE Len(q) < MaxSessions
  <2>1. Evicted(r) = q  BY <1>2 DEF Evicted
  <2>2. QED  BY <2>1, <1>1, <1>2 DEF Entries
<1>3. CASE Len(q) >= MaxSessions
  <2> DEFINE k == Lowest(Evictable(r))
  <2>1. Evicted(r) = Without(q, k)  BY <1>1, <1>3 DEF Evicted
  <2>2. Evictable(r) \subseteq 1..Len(q)  BY DEF Evictable
  <2>3. Evictable(r) \subseteq Nat  BY <2>2, <1>1
  <2>4. k \in Evictable(r)  BY <2>3, <1>3, LowestIn
  <2>5. k \in 1..Len(q)  BY <2>2, <2>4
  <2> HIDE DEF k
  <2>6. Without(q, k) \in Seq(Objects) /\ Len(Without(q, k)) = Len(q) - 1
    BY <1>1, <2>5, WithoutType
  <2>7. \A m \in 1..Len(Without(q, k)) : \E l \in 1..Len(q) : Without(q, k)[m] = q[l]
    <3>1. TAKE m \in 1..Len(Without(q, k))
    <3>2. m \in 1..(Len(q) - 1) /\ k \in Nat  BY <2>5, <2>6, <1>1
    <3>3. CASE m < k
      <4>1. Without(q, k)[m] = q[m]  BY <3>2, <3>3, <2>5, <1>1 DEF Without
      <4>2. m \in 1..Len(q)  BY <3>2, <1>1
      <4>3. QED  BY <4>1, <4>2
    <3>4. CASE m >= k
      <4>1. Without(q, k)[m] = q[m + 1]  BY <3>2, <3>4, <2>5, <1>1 DEF Without
      <4>2. m + 1 \in 1..Len(q)  BY <3>2, <1>1
      <4>3. QED  BY <4>1, <4>2
    <3>5. QED  BY <3>2, <3>3, <3>4
  <2>8. QED  BY <2>1, <2>6, <2>7, <1>1 DEF Entries
<1>4. QED  BY <1>1, <1>2, <1>3


\* A hook that gets a state gets one in the map, whose generation may rise.
LEMMA HookState ==
  ASSUME RuntimeInv, NEW id \in Ids, Handles(id)
  PROVE  \A r, o : (r = StateFor(rt, id) /\ o = StateOf(r, id)) =>
           /\ RtInv(r, 0) /\ r.run = rt.run
           /\ o \in Objects /\ o \in Entries(r)
           /\ r.state[o].generation <= MaxGeneration
<1> DEFINE r == StateFor(rt, id)
           o == StateOf(r, id)
<1>1. RtInv(rt, 0)  BY DEF RuntimeInv
<1>2. rt \in RtType /\ Len(rt.sessions) <= MaxSessions  BY <1>1 DEF RtInv, Core, Loose
<1>3. /\ rt.sessions \in Seq(Objects) /\ rt.state \in [Objects -> SessionState]
      /\ rt.run \in [Slots -> Job]
  BY <1>2 DEF RtType
<1>4. CASE Known(rt, id)
  <2>1. r = rt  BY <1>4 DEF StateFor
  <2>2. o \in Entries(rt)  BY <2>1, <1>4 DEF Known, StateOf
  <2>3. o \in Objects  BY <2>2, <1>3 DEF Entries
  <2>4. rt.state[o].generation < MaxGeneration  BY <2>1, <1>4 DEF Handles
  <2> HIDE DEF o, r
  <2>5. rt.state[o].generation \in Nat /\ MaxGeneration \in Nat
    BY <2>3, <1>3, Constants DEF SessionState
  <2>6. rt.state[o].generation <= MaxGeneration  BY <2>4, <2>5
  <2>7. QED  BY <2>1, <2>2, <2>3, <2>6, <1>1 DEF o, r
<1>5. CASE ~Known(rt, id)
  <2> DEFINE n == Lowest(Garbage(rt))
             e == Append(Evicted(rt), n)
             a == [rt EXCEPT !.sessions = e]
             b == [a EXCEPT !.state[n] = NewState(id)]
  <2>1. r = b  BY <1>5 DEF StateFor
  <2>2. n \in Garbage(rt)
    <3>1. Garbage(rt) \subseteq Nat  BY Constants DEF Garbage
    <3>2. Garbage(rt) # {}  BY <1>5 DEF Handles
    <3>3. QED  BY <3>1, <3>2, LowestIn
  <2> HIDE DEF n
  <2>3. n \in Objects /\ n \notin Entries(rt) /\ \A j \in JobsOf(rt) : j.o # n
    BY <2>2 DEF Garbage, InUse, JobsOf
  <2>4. Len(rt.sessions) >= MaxSessions => Evictable(rt) # {}
    BY <1>5 DEF Handles, Refuses
  <2>5. /\ Evicted(rt) \in Seq(Objects) /\ Len(Evicted(rt)) < MaxSessions
        /\ \A k \in 1..Len(Evicted(rt)) : Evicted(rt)[k] \in Entries(rt)
    BY <2>4, <1>2, EvictedType
  <2>6. /\ e \in Seq(Objects) /\ Len(e) \in Nat /\ Len(e) <= MaxSessions
        /\ Len(e) \in 1..Len(e) /\ e[Len(e)] = n
        /\ \A k \in 1..Len(e) : e[k] \in Entries(rt) \cup {n}
    <3>1. MaxSessions \in Nat /\ Len(Evicted(rt)) \in Nat  BY <2>5, Constants
    <3>2. Len(e) = Len(Evicted(rt)) + 1 /\ e \in Seq(Objects) /\ e[Len(Evicted(rt)) + 1] = n
      BY <2>3, <2>5
    <3>3. \A k \in 1..Len(e) : e[k] = n \/ (k \in 1..Len(Evicted(rt)) /\ e[k] = Evicted(rt)[k])
      BY <2>3, <2>5, <3>1, <3>2
    <3>4. QED  BY <3>1, <3>2, <3>3, <2>5
  <2> HIDE DEF e
  <2>7. RtInv(a, 0) /\ a.run = rt.run /\ a.sessions = e /\ a.state = rt.state
        /\ JobsOf(a) = JobsOf(rt)
    BY <1>1, <2>6, DropEntry
  <2> HIDE DEF a
  <2>8. RtInv(b, 0) /\ Edit(a, b, n, NewState(id))
    BY <2>3, <2>7, NewStateRt
  <2> HIDE DEF b
  <2>9. /\ b.run = rt.run /\ b.sessions = e /\ b.state[n] = NewState(id)
        /\ \A p \in Objects \ {n} : b.state[p] = rt.state[p]
    BY <2>7, <2>8 DEF Edit
  <2>10. n \in Entries(b) /\ Entries(b) \subseteq Entries(rt) \cup {n}
    BY <2>6, <2>9 DEF Entries
  <2>11. b.state[n].id = id /\ b.state[n].generation = 0  BY <2>9 DEF NewState
  <2>12. \A p \in Entries(rt) : p \in Objects /\ rt.state[p].id # id
    BY <1>3, <1>5 DEF Entries, Known
  <2>13. \A p \in Entries(b) : b.state[p].id = id => p = n
    BY <2>9, <2>10, <2>12
  <2>14. o = n
    <3>1. o \in Entries(b) /\ b.state[o].id = id  BY <2>1, <2>10, <2>11 DEF StateOf
    <3>2. QED  BY <3>1, <2>13
  <2> HIDE DEF o, r
  <2>15. r.state[o].generation <= MaxGeneration  BY <2>1, <2>11, <2>14, Constants
  <2>16. QED  BY <2>1, <2>3, <2>8, <2>9, <2>10, <2>14, <2>15 DEF o, r
<1>6. QED  BY <1>4, <1>5

-----------------------------------------------------------------------------
(* Steps *)

\* The invariant after a step that does not dispose.
LEMMA StepRt ==
  ASSUME RuntimeInv, NEW t, rt' = t, RtInv(t, 0), disposed' = disposed,
         disposed = "closed" => polls' = {} /\ t.run = rt.run,
         polls' \subseteq Poll, connected' \in BOOLEAN,
         scanning' \in [Ids -> History \cup {None}], resuming' \subseteq Objects,
         host' \in [Ids -> History]
  PROVE  RuntimeInv'
<1>1. RtInv(rt, 0)'
  <2>1. Core(rt)'  BY DEF RtInv, Core, Loose, FreeSlots, Active
  <2>2. Views(rt)'  BY DEF RtInv, Views
  <2>3. Flags(rt, 0)'  BY DEF RtInv, Flags
  <2>4. Gens(rt)'  BY DEF RtInv, Gens, GenBound
  <2>5. QED  BY <2>1, <2>2, <2>3, <2>4 DEF RtInv
<1>2. (disposed = "closed" => JobsSettled)'
  BY DEF RuntimeInv, Around, JobsSettled
<1>3. disposed' \in {"no", "waiting", "closed"}  BY DEF RuntimeInv, Around
<1>4. QED  BY <1>1, <1>2, <1>3 DEF RuntimeInv, Around


\* Messages are the sequences within the bounds.
LEMMA MessagesAre ==
  /\ \A m \in Messages : m \in Seq(0..MaxContent) /\ Len(m) \in 1..MaxMessages
  /\ \A m \in Seq(0..MaxContent) : Len(m) \in 1..MaxMessages => m \in Messages
<1>1. ASSUME NEW m \in Messages
      PROVE  m \in Seq(0..MaxContent) /\ Len(m) \in 1..MaxMessages
  <2>1. PICK n \in 1..MaxMessages : m \in [1..n -> 0..MaxContent]  BY DEF Messages
  <2>2. n \in Nat  BY BoundsAssumption
  <2>3. m \in Seq(0..MaxContent)  BY <2>1, <2>2, SeqDef
  <2>4. Len(m) \in Nat /\ 1..Len(m) = 1..n  BY <2>1, <2>3, LenProperties
  <2>5. Len(m) = n  BY <2>2, <2>4
  <2>6. QED  BY <2>3, <2>5
<1>2. ASSUME NEW m \in Seq(0..MaxContent), Len(m) \in 1..MaxMessages
      PROVE  m \in Messages
  <2>1. m \in [1..Len(m) -> 0..MaxContent]  BY LenProperties
  <2>2. QED  BY <2>1, <1>2 DEF Messages
<1>3. QED  BY <1>1, <1>2

\* A history that changes in one part is a history.
LEMMA HistoryEdit ==
  ASSUME NEW h \in [Ids -> History], NEW id \in Ids
  PROVE  /\ \A m \in Messages : [h EXCEPT ![id].msgs = m] \in [Ids -> History]
         /\ \A e \in 0..MaxEpoch : [h EXCEPT ![id].epoch = e] \in [Ids -> History]
BY DEF History

\* A step of a hook.
LEMMA HookEnd ==
  ASSUME RuntimeInv, NEW id \in Ids, ~Refuses(rt, id) => Handles(id),
         NEW t, rt' = IF Refuses(rt, id) THEN rt ELSE t,
         Handles(id) => RtInv(t, 0) /\ (disposed # "no" => t.run = rt.run),
         connected' = connected, polls' = polls, disposed' = disposed,
         scanning' \in [Ids -> History \cup {None}], resuming' \subseteq Objects,
         host' \in [Ids -> History]
  PROVE  RuntimeInv'
<1> DEFINE u == IF Refuses(rt, id) THEN rt ELSE t
<1>1. RtInv(rt, 0) /\ connected \in BOOLEAN /\ polls \subseteq Poll
      /\ (disposed = "closed" => polls = {})
  BY DEF RuntimeInv, Around, JobsSettled
<1>2. RtInv(u, 0) /\ (disposed # "no" => u.run = rt.run)  BY <1>1
<1>3. rt' = u  OBVIOUS
<1> HIDE DEF u
<1>4. QED  BY <1>1, <1>2, <1>3, StepRt

\* A message more keeps the invariant.
LEMMA AppendMessageInv ==
  ASSUME RuntimeInv, NEW id \in Ids, AppendMessage(id)  PROVE RuntimeInv'
<1> DEFINE r == StateFor(rt, id)
<1>1. /\ ~Refuses(rt, id) => Handles(id)
      /\ rt' = IF Refuses(rt, id) THEN rt ELSE r
      /\ connected' = connected /\ polls' = polls /\ disposed' = disposed
      /\ scanning' = scanning /\ resuming' = resuming
  BY DEF AppendMessage, Hook
<1>2. Handles(id) => RtInv(r, 0) /\ r.run = rt.run  BY HookState
<1> HIDE DEF r
<1>3. host' \in [Ids -> History]
  <2> DEFINE m == Append(host[id].msgs, 0)
  <2>1. host \in [Ids -> History] /\ host[id].msgs \in Messages
    BY DEF RuntimeInv, Around, History
  <2>2. host[id].msgs \in Seq(0..MaxContent) /\ Len(host[id].msgs) \in 1..MaxMessages
        /\ Len(host[id].msgs) < MaxMessages
    BY <2>1, MessagesAre DEF AppendMessage
  <2>3. m \in Messages
    <3>1. 0 \in 0..MaxContent /\ MaxMessages \in Nat  BY BoundsAssumption
    <3>2. m \in Seq(0..MaxContent) /\ Len(m) \in 1..MaxMessages  BY <3>1, <2>2
    <3>3. QED  BY <3>2, MessagesAre
  <2>4. host' = [host EXCEPT ![id].msgs = m]  BY DEF AppendMessage
  <2> HIDE DEF m
  <2>5. QED  BY <2>1, <2>3, <2>4, HistoryEdit
<1>4. scanning' \in [Ids -> History \cup {None}] /\ resuming' \subseteq Objects
  BY <1>1 DEF RuntimeInv, Around
<1>5. QED  BY <1>1, <1>2, <1>3, <1>4, HookEnd

\* An edited message keeps the invariant.
LEMMA EditMessageInv ==
  ASSUME RuntimeInv, NEW id \in Ids, NEW k, EditMessage(id, k)  PROVE RuntimeInv'
<1> DEFINE r == StateFor(rt, id)
           o == StateOf(r, id)
           t == OnEdit(r, o, k)
<1>1. /\ ~Refuses(rt, id) => Handles(id)
      /\ rt' = IF Refuses(rt, id) THEN rt ELSE t
      /\ connected' = connected /\ polls' = polls /\ disposed' = disposed
      /\ scanning' = scanning /\ resuming' = resuming
  BY DEF EditMessage, Hook
<1>2. Handles(id) => /\ RtInv(r, 0) /\ r.run = rt.run /\ o \in Objects
                     /\ r.state[o].generation <= MaxGeneration
  BY HookState
<1> HIDE DEF r, o
<1>3. Handles(id) => RtInv(t, 0) /\ (disposed # "no" => t.run = rt.run)
  BY <1>2, OnEditRt
<1> HIDE DEF t
<1>4. host' \in [Ids -> History]
  <2> DEFINE m == [host[id].msgs EXCEPT ![k] = @ + 1]
  <2>1. host \in [Ids -> History] /\ host[id].msgs \in Messages
    BY DEF RuntimeInv, Around, History
  <2>2. /\ host[id].msgs \in Seq(0..MaxContent) /\ Len(host[id].msgs) \in 1..MaxMessages
        /\ k \in 1..Len(host[id].msgs) /\ host[id].msgs[k] < MaxContent
    BY <2>1, MessagesAre DEF EditMessage
  <2>3. m \in Messages
    <3>1. MaxContent \in Nat /\ MaxMessages \in Nat  BY BoundsAssumption
    <3>2. host[id].msgs[k] + 1 \in 0..MaxContent  BY <3>1, <2>2
    <3>3. m \in Seq(0..MaxContent) /\ Len(m) = Len(host[id].msgs)  BY <3>2, <2>2
    <3>4. QED  BY <3>3, <2>2, MessagesAre
  <2>4. host' = [host EXCEPT ![id].msgs = m]  BY <2>1 DEF EditMessage
  <2> HIDE DEF m
  <2>5. QED  BY <2>1, <2>3, <2>4, HistoryEdit
<1>5. scanning' \in [Ids -> History \cup {None}] /\ resuming' \subseteq Objects
  BY <1>1 DEF RuntimeInv, Around
<1>6. QED  BY <1>1, <1>3, <1>4, <1>5, HookEnd


\* A step of a hook that leaves the host alone.
LEMMA HookQuiet ==
  ASSUME RuntimeInv, NEW id \in Ids, ~Refuses(rt, id) => Handles(id),
         NEW t, rt' = IF Refuses(rt, id) THEN rt ELSE t,
         Handles(id) => RtInv(t, 0) /\ (disposed # "no" => t.run = rt.run),
         UNCHANGED <<connected, polls, disposed, scanning, resuming, host>>
  PROVE  RuntimeInv'
<1>1. connected' = connected /\ polls' = polls /\ disposed' = disposed  OBVIOUS
<1>2. /\ scanning' \in [Ids -> History \cup {None}] /\ resuming' \subseteq Objects
      /\ host' \in [Ids -> History]
  BY DEF RuntimeInv, Around
<1>3. QED  BY <1>1, <1>2, HookEnd

\* The host's own compaction keeps the invariant.
LEMMA CompactedInv ==
  ASSUME RuntimeInv, NEW id \in Ids, Compacted(id)  PROVE RuntimeInv'
<1> DEFINE r == StateFor(rt, id)
           o == StateOf(r, id)
           a == [r EXCEPT !.state[o].paused = FALSE]
           b == [a EXCEPT !.state[o].snapshot = None]
           t == ClearView(b, o)
<1>1. /\ ~Refuses(rt, id) => Handles(id)
      /\ rt' = IF Refuses(rt, id) THEN rt ELSE t
      /\ connected' = connected /\ polls' = polls /\ disposed' = disposed
      /\ scanning' = scanning /\ resuming' = resuming
  BY DEF Compacted, Hook
<1>2. Handles(id) => RtInv(t, 0) /\ (disposed # "no" => t.run = rt.run)
  <2>1. SUFFICES ASSUME Handles(id)  PROVE RtInv(t, 0) /\ (disposed # "no" => t.run = rt.run)
    OBVIOUS
  <2>2. /\ RtInv(r, 0) /\ r.run = rt.run /\ o \in Objects
        /\ r.state[o].generation <= MaxGeneration
    BY <2>1, HookState
  <2> HIDE DEF r, o
  <2>3. RtInv(a, 0) /\ a.run = r.run /\ a.state[o].generation = r.state[o].generation
    BY <2>2, SetPaused, ZenonT(60)
  <2> HIDE DEF a
  <2>4. RtInv(b, 0) /\ b.run = a.run /\ b.state[o].generation = a.state[o].generation
    BY <2>2, <2>3, DropSnapshot
  <2> HIDE DEF b
  <2>5. b.state[o].generation <= MaxGeneration  BY <2>2, <2>3, <2>4
  <2>6. RtInv(t, 0) /\ (disposed # "no" => t.run = b.run)
    BY <2>2, <2>4, <2>5, ClearViewRt
  <2>7. QED  BY <2>2, <2>3, <2>4, <2>6
<1> HIDE DEF t
<1>3. host' \in [Ids -> History]
  <2>1. host \in [Ids -> History] /\ host[id].epoch \in 0..MaxEpoch
    BY DEF RuntimeInv, Around, History
  <2>2. host[id].epoch + 1 \in 0..MaxEpoch
    <3>1. host[id].epoch < MaxEpoch /\ MaxEpoch \in Nat  BY BoundsAssumption DEF Compacted
    <3>2. QED  BY <3>1, <2>1
  <2> DEFINE e == host[id].epoch + 1
  <2>3. host' = [host EXCEPT ![id].epoch = e]  BY <2>1 DEF Compacted
  <2> HIDE DEF e
  <2>4. QED  BY <2>1, <2>2, <2>3, HistoryEdit DEF e
<1>4. scanning' \in [Ids -> History \cup {None}] /\ resuming' \subseteq Objects
  BY <1>1 DEF RuntimeInv, Around
<1>5. QED  BY <1>1, <1>2, <1>3, <1>4, HookEnd

\* A session that is deleted keeps the invariant.
LEMMA DeletedInv ==
  ASSUME RuntimeInv, NEW id \in Ids, Deleted(id)  PROVE RuntimeInv'
<1> DEFINE r == StateFor(rt, id)
           o == StateOf(r, id)
           a == ClearView(r, o)
           k == CHOOSE n \in 1..Len(a.sessions) : a.sessions[n] = o
           e == Without(a.sessions, k)
           t == [a EXCEPT !.sessions = e]
<1>1. /\ ~Refuses(rt, id) => Handles(id)
      /\ rt' = IF Refuses(rt, id) THEN rt ELSE t
      /\ UNCHANGED <<connected, polls, disposed, scanning, resuming, host>>
  BY DEF Deleted, Hook
<1>2. Handles(id) => RtInv(t, 0) /\ (disposed # "no" => t.run = rt.run)
  <2>1. SUFFICES ASSUME Handles(id)  PROVE RtInv(t, 0) /\ (disposed # "no" => t.run = rt.run)
    OBVIOUS
  <2>2. /\ RtInv(r, 0) /\ r.run = rt.run /\ o \in Objects /\ o \in Entries(r)
        /\ r.state[o].generation <= MaxGeneration
    BY <2>1, HookState
  <2> HIDE DEF r, o
  <2>3. RtInv(a, 0) /\ a.sessions = r.sessions /\ (disposed # "no" => a.run = r.run)
    BY <2>2, ClearViewRt
  <2> HIDE DEF a
  <2>4. a.sessions \in Seq(Objects) /\ Len(a.sessions) <= MaxSessions /\ Len(a.sessions) \in Nat
    BY <2>3 DEF RtInv, Core, Loose, RtType
  <2>5. \E n \in 1..Len(a.sessions) : a.sessions[n] = o  BY <2>2, <2>3 DEF Entries
  <2>6. k \in 1..Len(a.sessions)  BY <2>5
  <2> HIDE DEF k
  <2>7. e \in Seq(Objects) /\ Len(e) = Len(a.sessions) - 1  BY <2>4, <2>6, WithoutType
  <2> HIDE DEF e
  <2>8. Len(e) <= MaxSessions  BY <2>4, <2>7, Constants
  <2>9. RtInv(t, 0) /\ t.run = a.run  BY <2>3, <2>7, <2>8, DropEntry
  <2>10. QED  BY <2>2, <2>3, <2>9
<1> HIDE DEF t
<1>3. QED  BY <1>1, <1>2, HookQuiet

\* The idle event keeps the invariant.
LEMMA SessionIdleInv ==
  ASSUME RuntimeInv, NEW id \in Ids, SessionIdle(id)  PROVE RuntimeInv'
<1> DEFINE r == StateFor(rt, id)
           o == StateOf(r, id)
           a == [r EXCEPT !.state[o].paused = FALSE]
           t == IF disposed = "no" THEN Schedule(a, o) ELSE a
<1>1. /\ ~Refuses(rt, id) => Handles(id)
      /\ rt' = IF Refuses(rt, id) THEN rt ELSE t
      /\ UNCHANGED <<connected, polls, disposed, scanning, resuming, host>>
  BY DEF SessionIdle, Hook
<1>2. Handles(id) => RtInv(t, 0) /\ (disposed # "no" => t.run = rt.run)
  <2>1. SUFFICES ASSUME Handles(id)  PROVE RtInv(t, 0) /\ (disposed # "no" => t.run = rt.run)
    OBVIOUS
  <2>2. RtInv(r, 0) /\ r.run = rt.run /\ o \in Objects  BY <2>1, HookState
  <2> HIDE DEF r, o
  <2>3. RtInv(a, 0) /\ a.run = r.run /\ a.state[o].generation = r.state[o].generation
    BY <2>2, SetPaused, ZenonT(60)
  <2> HIDE DEF a
  <2>4. \A s : s = Schedule(a, o) => RtInv(s, 0)  BY <2>2, <2>3, ScheduleRt
  <2>5. QED  BY <2>2, <2>3, <2>4
<1> HIDE DEF t
<1>3. QED  BY <1>1, <1>2, HookQuiet

\* A completed message keeps the invariant.
LEMMA MessageCompletedInv ==
  ASSUME RuntimeInv, NEW id \in Ids, MessageCompleted(id)  PROVE RuntimeInv'
<1> DEFINE r == StateFor(rt, id)
           o == StateOf(r, id)
           t == Schedule(r, o)
<1>1. /\ ~Refuses(rt, id) => Handles(id)
      /\ rt' = IF Refuses(rt, id) THEN rt ELSE t
      /\ UNCHANGED <<connected, polls, disposed, scanning, resuming, host>>
  BY DEF MessageCompleted, Hook
<1>2. Handles(id) => RtInv(r, 0) /\ r.run = rt.run /\ o \in Objects  BY HookState
<1> HIDE DEF r, o
<1>3. Handles(id) => RtInv(t, 0) /\ (disposed # "no" => t.run = rt.run)
  BY <1>2, ScheduleRt
<1> HIDE DEF t
<1>4. QED  BY <1>1, <1>3, HookQuiet

\* A change of model keeps the invariant.
LEMMA ModelChangedInv ==
  ASSUME RuntimeInv, NEW id \in Ids, ModelChanged(id)  PROVE RuntimeInv'
<1> DEFINE r == StateFor(rt, id)
           o == StateOf(r, id)
           c == Cancel(r, o)
           t == IF disposed = "no" THEN c ELSE r
<1>1. /\ ~Refuses(rt, id) => Handles(id)
      /\ rt' = IF Refuses(rt, id) THEN rt ELSE t
      /\ UNCHANGED <<connected, polls, disposed, scanning, resuming, host>>
  BY DEF ModelChanged, Hook
<1>2. Handles(id) => /\ RtInv(r, 0) /\ r.run = rt.run /\ o \in Objects
                     /\ r.state[o].generation <= MaxGeneration
  BY HookState
<1> HIDE DEF r, o
<1>3. ASSUME Handles(id)  PROVE RtInv(c, 0) /\ c.run = r.run
  <2>1. RtInv(r, 0) /\ o \in Objects /\ r.state[o].generation <= MaxGeneration
    BY <1>2, <1>3
  <2>2. QED  BY <2>1, CancelKeeps
<1> HIDE DEF c
<1>4. Handles(id) => RtInv(t, 0) /\ (disposed # "no" => t.run = rt.run)
  BY <1>2, <1>3
<1> HIDE DEF t
<1>5. QED  BY <1>1, <1>4, HookQuiet

\* The hook before the host's compaction keeps the invariant.
LEMMA CompactingInv ==
  ASSUME RuntimeInv, NEW id \in Ids, Compacting(id)  PROVE RuntimeInv'
<1> DEFINE r == StateFor(rt, id)
           o == StateOf(r, id)
           a == [r EXCEPT !.state[o].paused = TRUE]
           t == Cancel(a, o)
<1>1. /\ ~Refuses(rt, id) => Handles(id)
      /\ rt' = IF Refuses(rt, id) THEN rt ELSE t
      /\ UNCHANGED <<connected, polls, disposed, scanning, resuming, host>>
  BY DEF Compacting, Hook
<1>2. Handles(id) => /\ RtInv(r, 0) /\ r.run = rt.run /\ o \in Objects
                     /\ r.state[o].generation <= MaxGeneration
  BY HookState
<1> HIDE DEF r, o
<1>3. Handles(id) => /\ RtInv(a, 0) /\ a.run = r.run
                     /\ a.state[o].generation <= MaxGeneration
  BY <1>2, SetPaused, ZenonT(60)
<1> HIDE DEF a
<1>4. ASSUME Handles(id)  PROVE RtInv(t, 0) /\ t.run = a.run
  <2>1. RtInv(a, 0) /\ o \in Objects /\ a.state[o].generation <= MaxGeneration
    BY <1>2, <1>3, <1>4
  <2>2. QED  BY <2>1, CancelKeeps
<1>5. Handles(id) => RtInv(t, 0) /\ (disposed # "no" => t.run = rt.run)
  BY <1>2, <1>3, <1>4
<1> HIDE DEF t
<1>6. QED  BY <1>1, <1>5, HookQuiet


\* A step that leaves the closure's variables alone.
LEMMA SameRt ==
  ASSUME RuntimeInv, rt' = rt, polls' = polls, disposed' = disposed, connected' \in BOOLEAN,
         scanning' \in [Ids -> History \cup {None}], resuming' \subseteq Objects,
         host' \in [Ids -> History]
  PROVE  RuntimeInv'
<1>1. RtInv(rt, 0) /\ polls \subseteq Poll /\ (disposed = "closed" => polls = {})
  BY DEF RuntimeInv, Around, JobsSettled
<1>2. polls' \subseteq Poll /\ (disposed = "closed" => polls' = {} /\ rt.run = rt.run)  BY <1>1
<1>3. QED  BY <1>1, <1>2, StepRt

\* The hook that clones the messages keeps the invariant.
LEMMA TransformInv ==
  ASSUME RuntimeInv, NEW id \in Ids, Transform(id)  PROVE RuntimeInv'
<1>1. /\ rt' = rt /\ polls' = polls /\ disposed' = disposed /\ connected' = connected
      /\ resuming' = resuming /\ host' = host /\ scanning' = [scanning EXCEPT ![id] = host[id]]
  BY DEF Transform
<1>2. /\ connected' \in BOOLEAN /\ resuming' \subseteq Objects /\ host' \in [Ids -> History]
      /\ scanning \in [Ids -> History \cup {None}] /\ host[id] \in History
  BY <1>1 DEF RuntimeInv, Around
<1>3. scanning' \in [Ids -> History \cup {None}]  BY <1>1, <1>2
<1>4. QED  BY <1>1, <1>2, <1>3, SameRt

\* An event about metadata keeps the invariant.
LEMMA MetadataEventInv ==
  ASSUME RuntimeInv, NEW id \in Ids, MetadataEvent(id)  PROVE RuntimeInv'
<1>1. /\ rt' = rt /\ polls' = polls /\ disposed' = disposed /\ connected' = connected
      /\ resuming' = resuming \cup {StateOf(rt, id)} /\ host' = host /\ scanning' = scanning
      /\ Known(rt, id)
  BY DEF MetadataEvent
<1>2. /\ connected' \in BOOLEAN /\ resuming \subseteq Objects /\ host' \in [Ids -> History]
      /\ scanning' \in [Ids -> History \cup {None}]
  BY <1>1 DEF RuntimeInv, Around
<1>3. StateOf(rt, id) \in Objects
  <2>1. rt.sessions \in Seq(Objects)  BY DEF RuntimeInv, RtInv, Core, Loose, RtType
  <2>2. StateOf(rt, id) \in Entries(rt)  BY <1>1 DEF Known, StateOf
  <2>3. QED  BY <2>1, <2>2 DEF Entries
<1>4. resuming' \subseteq Objects  BY <1>1, <1>2, <1>3
<1>5. QED  BY <1>1, <1>2, <1>4, SameRt

\* A hook that schedules after its last await keeps the invariant.
LEMMA ResumeInv ==
  ASSUME RuntimeInv, NEW o \in Objects, Resume(o)  PROVE RuntimeInv'
<1> DEFINE t == Schedule(rt, o)
<1>1. /\ rt' = t /\ polls' = polls /\ disposed' = disposed /\ connected' = connected
      /\ resuming' = resuming \ {o} /\ host' = host /\ scanning' = scanning
  BY DEF Resume
<1>2. RtInv(t, 0) /\ (disposed # "no" => t.run = rt.run)  BY ScheduleRt DEF RuntimeInv
<1> HIDE DEF t
<1>3. /\ connected' \in BOOLEAN /\ resuming' \subseteq Objects /\ host' \in [Ids -> History]
      /\ scanning' \in [Ids -> History \cup {None}] /\ polls' \subseteq Poll
      /\ disposed = "closed" => polls' = {} /\ t.run = rt.run
  BY <1>1, <1>2 DEF RuntimeInv, Around, JobsSettled
<1>4. QED  BY <1>1, <1>2, <1>3, StepRt

\* The end of a transform's scan keeps the invariant.
LEMMA TransformScannedInv ==
  ASSUME RuntimeInv, NEW id \in Ids, TransformScanned(id)  PROVE RuntimeInv'
<1> DEFINE q == StateFor(rt, id)
           o == StateOf(q, id)
           e == EnterEpoch(q, o, scanning[id])
           r == Hydrate(e, o)
           c(keeps) == CheckView(r, o, scanning[id], keeps)
<1>1. /\ polls' = polls /\ disposed' = disposed /\ connected' = connected /\ host' = host
      /\ scanning' = [scanning EXCEPT ![id] = None] /\ scanning[id] # None
  BY DEF TransformScanned
<1>2. \/ /\ Handles(id)
         /\ \/ rt' = r /\ resuming' = resuming
            \/ \E keeps \in BOOLEAN : rt' = c(keeps) /\ resuming' = resuming \cup {o}
      \/ rt' = rt /\ resuming' = resuming
  BY DEF TransformScanned
<1>3. /\ scanning \in [Ids -> History \cup {None}] /\ resuming \subseteq Objects
      /\ connected' \in BOOLEAN /\ host' \in [Ids -> History] /\ polls' \subseteq Poll
      /\ disposed = "closed" => polls' = {}
  BY <1>1 DEF RuntimeInv, Around, JobsSettled
<1>4. scanning[id] \in History /\ scanning' \in [Ids -> History \cup {None}]
  BY <1>1, <1>3
<1>5. CASE Handles(id) /\ (\/ rt' = r /\ resuming' = resuming
                           \/ \E keeps \in BOOLEAN :
                                rt' = c(keeps) /\ resuming' = resuming \cup {o})
  <2>1. /\ RtInv(q, 0) /\ q.run = rt.run /\ o \in Objects
        /\ q.state[o].generation <= MaxGeneration
    BY <1>5, HookState
  <2>2. resuming' \subseteq Objects  BY <1>3, <1>5, <2>1
  <2> HIDE DEF q, o
  <2>3. /\ RtInv(e, 0) /\ (disposed # "no" => e.run = q.run) /\ e.state[o].epoch # None
        /\ e.state[o].view # None => e.state[o].generation <= MaxGeneration
    BY <2>1, <1>4, EnterEpochRt
  <2> HIDE DEF e
  <2>4. /\ RtInv(r, 0) /\ (disposed # "no" => r.run = e.run)
        /\ r.state[o].view = e.state[o].view /\ r.state[o].generation = e.state[o].generation
    BY <2>1, <2>3, HydrateRt
  <2> HIDE DEF r
  <2>5. ASSUME NEW keeps \in BOOLEAN
        PROVE  RtInv(c(keeps), 0) /\ (disposed # "no" => c(keeps).run = r.run)
    <3>1. r.state[o].view # None => r.state[o].generation <= MaxGeneration  BY <2>3, <2>4
    <3>2. QED  BY <3>1, <2>1, <2>4, CheckViewRt
  <2> HIDE DEF c
  <2>6. PICK t \in {r, c(TRUE), c(FALSE)} : rt' = t  BY <1>5
  <2>7. RtInv(t, 0) /\ (disposed # "no" => t.run = rt.run)
    BY <2>1, <2>3, <2>4, <2>5, <2>6
  <2>8. disposed = "closed" => polls' = {} /\ t.run = rt.run  BY <2>7, <1>3
  <2>9. QED  BY <2>2, <2>6, <2>7, <2>8, <1>1, <1>3, <1>4, StepRt
<1>6. CASE rt' = rt /\ resuming' = resuming
  <2>1. resuming' \subseteq Objects  BY <1>3, <1>6
  <2>2. QED  BY <2>1, <1>1, <1>3, <1>4, <1>6, SameRt
<1>7. QED  BY <1>2, <1>5, <1>6


-----------------------------------------------------------------------------
(* Steps of the jobs *)

\* What holds of a job of a session that is under way.
LEMMA JobFacts ==
  ASSUME RuntimeInv, NEW i \in Slots, rt.run[i].at \in HydrateStages \cup PlanStages
  PROVE  /\ rt.run[i] \in Job /\ rt.run[i].o \in Objects /\ JobForm(rt.run[i])
         /\ rt.run[i] # Idle /\ disposed # "closed"
         /\ rt.state[rt.run[i].o] \in SessionState
         /\ Dated(rt.run[i], rt.state[rt.run[i].o])
<1> DEFINE j == rt.run[i]
<1>1. RtInv(rt, 0) /\ Base(rt)  BY DEF RuntimeInv, RtInv, Base
<1>2. rt.run \in [Slots -> Job] /\ rt.state \in [Objects -> SessionState] /\ JobForm(j)
  BY <1>1 DEF RtInv, Core, Loose, RtType
<1>3. j \in Job  BY <1>2
<1>4. j \in JobsOf(rt)  BY DEF JobsOf
<1>5. j # Idle /\ j # Leaked /\ j # ClearJob
  BY FixedJobs DEF HydrateStages, PlanStages
<1> HIDE DEF j
<1>6. j.o \in Objects  BY <1>2, <1>3, <1>5 DEF JobForm, Job
<1>7. Dated(j, rt.state[j.o])  BY <1>1, <1>4, <1>6 DEF Base, Views
<1>8. disposed # "closed"  BY <1>5 DEF RuntimeInv, Around, JobsSettled, j
<1>9. QED  BY <1>2, <1>3, <1>5, <1>6, <1>7, <1>8 DEF j

\* The invariant after a step of a job or a poll.
LEMMA JobEnd ==
  ASSUME RuntimeInv, disposed # "closed", NEW t, rt' = t, RtInv(t, 0), polls' \subseteq Poll,
         UNCHANGED <<connected, disposed, scanning, resuming, host>>
  PROVE  RuntimeInv'
<1>1. /\ disposed' = disposed /\ connected' \in BOOLEAN
      /\ scanning' \in [Ids -> History \cup {None}] /\ resuming' \subseteq Objects
      /\ host' \in [Ids -> History]
  BY DEF RuntimeInv, Around
<1>2. QED  BY <1>1, StepRt

\* A permit is given back.
LEMMA ReleaseBase ==
  ASSUME NEW r, Base(r), NEW i \in Slots
  PROVE  /\ Base(Release(r, i)) /\ Release(r, i).state = r.state
         /\ \A T : Sane(T) => Total(Release(r, i), T) = Total(r, T) - Count(r.run[i] \in T)
<1> DEFINE s == Release(r, i)
           J == {Idle, Leaked}
<1>1. Core(r)  BY DEF Base
<1>2. /\ Core(s) /\ s.state = r.state /\ JobsOf(s) \subseteq JobsOf(r) \cup J
      /\ \A T : Sane(T) => Total(s, T) = Total(r, T) - Count(r.run[i] \in T)
  BY <1>1, ReleaseEffect
<1>3. \A j \in J : j.o \in Objects => Dated(j, r.state[j.o])  BY FixedJobs, Constants
<1> HIDE DEF s, J
<1>4. Base(s)  BY <1>2, <1>3, SameStates
<1>5. QED  BY <1>2, <1>4 DEF s

\* The end of a job that is not in a set leaves the set's count.
LEMMA CountOut ==
  ASSUME NEW r, Core(r), NEW s, NEW T, NEW j, j \notin T,
         Total(s, T) = Total(r, T) - Count(j \in T)
  PROVE  Total(s, T) = Total(r, T)
<1>1. Count(j \in T) = 0  BY DEF Count
<1>2. Total(r, T) \in Nat  BY TotalType
<1>3. QED  BY <1>1, <1>2

\* The end of a session's only job of a kind leaves none.
LEMMA CountLast ==
  ASSUME NEW r, Core(r), NEW s, Core(s), NEW T, NEW j, j \in T, NEW flag \in BOOLEAN,
         Total(r, T) = Count(flag), Total(s, T) = Total(r, T) - Count(j \in T)
  PROVE  Total(s, T) = 0
<1>1. Count(j \in T) = 1  BY DEF Count
<1>2. Count(flag) \in 0..1  BY DEF Count
<1>3. Total(s, T) \in Nat  BY TotalType
<1>4. QED  BY <1>1, <1>2, <1>3

\* The end of a clearing job keeps the invariant.
LEMMA ClearDoneInv ==
  ASSUME RuntimeInv, NEW i \in Slots, ClearDone(i)  PROVE RuntimeInv'
<1> DEFINE s == Release(rt, i)
           j == rt.run[i]
<1>1. Base(rt) /\ Core(rt) /\ Flags(rt, 0)  BY DEF RuntimeInv, RtInv, Base
<1>2. rt' = s /\ j.at = "clear" /\ UNCHANGED <<connected, disposed, scanning, resuming, host>>
      /\ polls' = polls
  BY DEF ClearDone
<1>3. /\ Base(s) /\ s.state = rt.state
      /\ \A T : Sane(T) => Total(s, T) = Total(rt, T) - Count(j \in T)
  BY <1>1, ReleaseBase
<1>4. disposed # "closed"  BY <1>2, FixedJobs DEF RuntimeInv, Around, JobsSettled
<1> HIDE DEF s, j
<1>5. ASSUME NEW p \in Objects
      PROVE  /\ Total(s, PlansOf(p)) = Total(rt, PlansOf(p))
             /\ Total(s, HydratesOf(p)) = Total(rt, HydratesOf(p))
  <2>1. j \notin PlansOf(p) /\ j \notin HydratesOf(p)
    BY <1>2 DEF PlansOf, HydratesOf, PlanStages, HydrateStages
  <2>2. Sane(PlansOf(p)) /\ Sane(HydratesOf(p))  BY SaneSets
  <2>3. /\ Total(s, PlansOf(p)) = Total(rt, PlansOf(p)) - Count(j \in PlansOf(p))
        /\ Total(s, HydratesOf(p)) = Total(rt, HydratesOf(p)) - Count(j \in HydratesOf(p))
    BY <2>2, <1>3
  <2>4. Total(s, PlansOf(p)) = Total(rt, PlansOf(p))  BY <2>1, <2>3, <1>1, CountOut
  <2>5. Total(s, HydratesOf(p)) = Total(rt, HydratesOf(p))  BY <2>1, <2>3, <1>1, CountOut
  <2>6. QED  BY <2>4, <2>5
<1>6. RtInv(s, 0)  BY <1>1, <1>3, <1>5 DEF Base, RtInv, Flags
<1>7. polls' \subseteq Poll  BY <1>2 DEF RuntimeInv, Around
<1>8. QED  BY <1>2, <1>4, <1>6, <1>7, JobEnd

\* A plan ends: the session has none and is not busy.
LEMMA PlanEndsRt ==
  ASSUME NEW r, NEW i \in Slots, RtInv(r, 0), r.run[i] \in Job,
         r.run[i].o \in Objects, r.run[i].at \in PlanStages
  PROVE  RtInv(PlanEnds(r, i), 0)
<1> DEFINE j == r.run[i]
           o == j.o
           st == [r.state[o] EXCEPT !.busy = FALSE]
           a == [r EXCEPT !.state[o].busy = FALSE]
           s == Release(a, i)
<1>1. PlanEnds(r, i) = s  BY DEF PlanEnds
<1>2. Base(r) /\ Core(r)  BY DEF RtInv, Base
<1>3. r \in RtType /\ r.state[o] \in SessionState /\ Sound(r.state[o])  BY <1>2, BaseState
<1>4. /\ st \in SessionState /\ st.generation = r.state[o].generation /\ ~st.busy
      /\ st.hydrating = r.state[o].hydrating /\ st.hydrated = r.state[o].hydrated
      /\ st.epoch = r.state[o].epoch /\ st.view = r.state[o].view
      /\ st.snapshot = r.state[o].snapshot
  BY <1>3 DEF SessionState
<1>5. a = [r EXCEPT !.state[o] = st]  BY <1>3 DEF RtType
<1>6. o \in Objects  OBVIOUS
<1> HIDE DEF st
<1>7. Edit(r, a, o, st)  BY <1>3, <1>4, <1>5, <1>6, EditIs
<1> HIDE DEF a
<1>8. Base(a)
  <2>1. Sound(st)  BY <1>3, <1>4 DEF Sound
  <2>2. \A k \in JobsOf(r) : k.o = o => Dated(k, st)  BY <1>2, <1>4, <1>6, SameDates
  <2> HIDE DEF o
  <2>3. QED  BY <2>1, <2>2, <1>2, <1>6, <1>7, EditBase
<1>9. /\ a.state[o] = st /\ a.run = r.run /\ \A T : Total(a, T) = Total(r, T)
      /\ \A p \in Objects \ {o} : a.state[p] = r.state[p]
  BY <1>7, EditTotal DEF Edit
<1>10. /\ Base(s) /\ s.state = a.state
       /\ \A T : Sane(T) => Total(s, T) = Total(r, T) - Count(j \in T)
  BY <1>8, <1>9, ReleaseBase
<1>11. Core(s)  BY <1>10 DEF Base
<1> HIDE DEF s
<1>12. j \in PlansOf(o)  BY DEF PlansOf
<1>13. \A p \in Objects : p # o => j \notin PlansOf(p)  BY DEF PlansOf
<1>14. \A p \in Objects : j \notin HydratesOf(p)  BY DEF HydratesOf, HydrateStages, PlanStages
<1> HIDE DEF j, o
<1>15. Flags(s, 0)
  <2>1. SUFFICES ASSUME disposed = "no", NEW p \in Objects
                 PROVE  /\ Total(s, PlansOf(p)) = Count(s.state[p].busy)
                        /\ Total(s, HydratesOf(p)) = Count(s.state[p].hydrating)
    BY DEF Flags
  <2>2. /\ Total(s, PlansOf(p)) = Total(r, PlansOf(p)) - Count(j \in PlansOf(p))
        /\ Total(s, HydratesOf(p)) = Total(r, HydratesOf(p)) - Count(j \in HydratesOf(p))
    BY <1>10, SaneSets
  <2>3. /\ Total(r, PlansOf(p)) = Count(r.state[p].busy)
        /\ Total(r, HydratesOf(p)) = Count(r.state[p].hydrating)
    BY <2>1, Constants DEF RtInv, Flags
  <2>4. Total(s, HydratesOf(p)) = Total(r, HydratesOf(p))  BY <2>2, <1>2, <1>14, CountOut
  <2>5. s.state[p].hydrating = r.state[p].hydrating  BY <1>4, <1>9, <1>10
  <2>6. CASE p = o
    <3>1. r.state[o].busy \in BOOLEAN  BY <1>3 DEF SessionState
    <3>2. Total(s, PlansOf(o)) = 0
      BY <3>1, <2>2, <2>3, <2>6, <1>2, <1>11, <1>12, CountLast
    <3>3. Count(s.state[o].busy) = 0  BY <1>4, <1>9, <1>10 DEF Count
    <3>4. QED  BY <3>2, <3>3, <2>3, <2>4, <2>5, <2>6
  <2>7. CASE p # o
    <3>1. Total(s, PlansOf(p)) = Total(r, PlansOf(p))  BY <2>2, <2>7, <1>2, <1>13, CountOut
    <3>2. s.state[p].busy = r.state[p].busy  BY <2>7, <1>9, <1>10
    <3>3. QED  BY <3>1, <3>2, <2>3, <2>4, <2>5
  <2>8. QED  BY <2>6, <2>7
<1>16. QED  BY <1>1, <1>10, <1>15 DEF Base, RtInv


\* A request for the view ends: the session has none and is not hydrating, also when a plan
\* is scheduled before the permit is given back.
LEMMA HydrateEndsRt ==
  ASSUME NEW r, NEW i \in Slots, NEW ok \in BOOLEAN, RtInv(r, 0), r.run[i] \in Job,
         r.run[i].o \in Objects, r.run[i].at \in HydrateStages
  PROVE  RtInv(HydrateEnds(r, i, ok), 0)
<1> DEFINE j == r.run[i]
           o == j.o
           st1 == [r.state[o] EXCEPT !.hydrated = ok]
           st == [st1 EXCEPT !.hydrating = FALSE]
           a1 == [r EXCEPT !.state[o].hydrated = ok]
           a == [a1 EXCEPT !.state[o].hydrating = FALSE]
           m == IF disposed = "no" /\ Live(r, o) /\ ok THEN Schedule(a, o) ELSE a
           s == Release(m, i)
<1>1. HydrateEnds(r, i, ok) = s  BY DEF HydrateEnds
<1>2. Base(r) /\ Core(r)  BY DEF RtInv, Base
<1>3. r \in RtType /\ r.state[o] \in SessionState /\ Sound(r.state[o])  BY <1>2, BaseState
<1>4. st1 \in SessionState /\ a1 = [r EXCEPT !.state[o] = st1]  BY <1>3 DEF SessionState, RtType
<1>5. /\ st \in SessionState /\ st.generation = r.state[o].generation /\ ~st.hydrating
      /\ st.busy = r.state[o].busy
      /\ st.epoch = r.state[o].epoch /\ st.view = r.state[o].view
      /\ st.snapshot = r.state[o].snapshot
  BY <1>3 DEF SessionState
<1>6. o \in Objects  OBVIOUS
<1>7. j \in HydratesOf(o) /\ j # Idle  BY FixedJobs DEF HydratesOf, HydrateStages
<1>8. \A p \in Objects : p # o => j \notin HydratesOf(p)  BY DEF HydratesOf
<1>9. \A p \in Objects : j \notin PlansOf(p)  BY DEF PlansOf, HydrateStages, PlanStages
<1> HIDE DEF st1
<1>10. Edit(r, a1, o, st1)  BY <1>3, <1>4, <1>6, EditIs
<1> HIDE DEF a1
<1>11. a1 \in RtType /\ a1.state[o] = st1  BY <1>10 DEF Edit
<1>12. a = [a1 EXCEPT !.state[o] = st]  BY <1>11 DEF RtType
<1> HIDE DEF st
<1>13. Edit(a1, a, o, st)  BY <1>5, <1>6, <1>11, <1>12, EditIs
<1>14. Edit(r, a, o, st)  BY <1>10, <1>13, EditTwice
<1> HIDE DEF a
<1>15. Base(a)
  <2>1. Sound(st)  BY <1>3, <1>5 DEF Sound
  <2>2. \A k \in JobsOf(r) : k.o = o => Dated(k, st)  BY <1>2, <1>5, <1>6, SameDates
  <2> HIDE DEF o
  <2>3. QED  BY <2>1, <2>2, <1>2, <1>6, <1>14, EditBase
<1>16. /\ a.state[o] = st /\ a.run = r.run /\ \A T : Total(a, T) = Total(r, T)
       /\ \A p \in Objects \ {o} : a.state[p] = r.state[p]
  BY <1>14, EditTotal DEF Edit
<1> HIDE DEF o
<1>17. RtInv(a, o)
  <2>1. SUFFICES ASSUME disposed = "no", NEW p \in Objects
                 PROVE  /\ Total(a, PlansOf(p)) = Count(a.state[p].busy)
                        /\ p # o => Total(a, HydratesOf(p)) = Count(a.state[p].hydrating)
    BY <1>15 DEF Flags, RtInv, Base
  <2>2. /\ Total(r, PlansOf(p)) = Count(r.state[p].busy)
        /\ Total(r, HydratesOf(p)) = Count(r.state[p].hydrating)
    BY <2>1, Constants DEF RtInv, Flags
  <2>3. a.state[p].busy = r.state[p].busy  BY <1>5, <1>16
  <2>4. p # o => a.state[p].hydrating = r.state[p].hydrating  BY <1>16
  <2>5. QED  BY <2>2, <2>3, <2>4, <1>16
<1>18. /\ RtInv(m, o) /\ m.run[i] = j /\ ~m.state[o].hydrating
       /\ \A p \in Objects : Total(m, HydratesOf(p)) = Total(r, HydratesOf(p))
  <2>1. CASE m = a  BY <2>1, <1>5, <1>16, <1>17 DEF j
  <2>2. CASE m = Schedule(a, o)
    <3> HIDE DEF m
    <3>1. /\ RtInv(m, o) /\ m.state[o].hydrating = a.state[o].hydrating
          /\ \A k \in Slots : a.run[k] # Idle => m.run[k] = a.run[k]
          /\ \A p \in Objects : Total(m, HydratesOf(p)) = Total(a, HydratesOf(p))
      BY <2>2, <1>6, <1>17, ScheduleRt
    <3>2. m.run[i] = j  BY <3>1, <1>7, <1>16 DEF j
    <3>3. QED  BY <3>1, <3>2, <1>5, <1>16
  <2>3. QED  BY <2>1, <2>2
<1> HIDE DEF m, j
<1>19. Base(m) /\ Core(m)  BY <1>18 DEF RtInv, Base
<1>20. /\ Base(s) /\ s.state = m.state
       /\ \A T : Sane(T) => Total(s, T) = Total(m, T) - Count(j \in T)
  BY <1>18, <1>19, ReleaseBase
<1>21. Core(s)  BY <1>20 DEF Base
<1> HIDE DEF s
<1>22. Flags(s, 0)
  <2>1. SUFFICES ASSUME disposed = "no", NEW p \in Objects
                 PROVE  /\ Total(s, PlansOf(p)) = Count(s.state[p].busy)
                        /\ Total(s, HydratesOf(p)) = Count(s.state[p].hydrating)
    BY DEF Flags
  <2>2. /\ Total(s, PlansOf(p)) = Total(m, PlansOf(p)) - Count(j \in PlansOf(p))
        /\ Total(s, HydratesOf(p)) = Total(m, HydratesOf(p)) - Count(j \in HydratesOf(p))
    BY <1>20, SaneSets
  <2>3. /\ Total(m, PlansOf(p)) = Count(m.state[p].busy)
        /\ p # o => Total(m, HydratesOf(p)) = Count(m.state[p].hydrating)
    BY <2>1, <1>18 DEF RtInv, Flags
  <2>4. Total(s, PlansOf(p)) = Total(m, PlansOf(p))  BY <2>2, <1>9, <1>19, CountOut
  <2>5. s.state[p] = m.state[p]  BY <1>20
  <2>6. CASE p = o
    <3>1. r.state[o].hydrating \in BOOLEAN  BY <1>3 DEF SessionState, o, j
    <3>2. Total(m, HydratesOf(o)) = Count(r.state[o].hydrating)
      BY <2>1, <1>6, <1>18, Constants DEF RtInv, Flags
    <3>3. Total(s, HydratesOf(o)) = 0
      BY <3>1, <3>2, <2>2, <2>6, <1>7, <1>19, <1>21, CountLast
    <3>4. Count(s.state[o].hydrating) = 0  BY <1>18, <1>20 DEF Count
    <3>5. QED  BY <3>3, <3>4, <2>3, <2>4, <2>5, <2>6
  <2>7. CASE p # o
    <3>1. Total(s, HydratesOf(p)) = Total(m, HydratesOf(p))  BY <2>2, <2>7, <1>8, <1>19, CountOut
    <3>2. QED  BY <3>1, <2>3, <2>4, <2>5, <2>7
  <2>8. QED  BY <2>6, <2>7
<1>23. QED  BY <1>1, <1>20, <1>22 DEF Base, RtInv

\* A job goes on within its kind.
LEMMA AdvanceRt ==
  ASSUME NEW r, NEW i \in Slots, RtInv(r, 0), r.run[i] \in Job, r.run[i].o \in Objects,
         r.run[i].at \in HydrateStages \cup PlanStages,
         NEW at \in HydrateStages \cup PlanStages, NEW plan \in Plan \cup {None},
         at \in PlanStages <=> r.run[i].at \in PlanStages,
         at \in Planned \cup {"hydrateScan"} => plan # None,
         (at \in Planned /\ r.run[i].gen = r.state[r.run[i].o].generation)
           => plan.epoch = r.state[r.run[i].o].epoch
  PROVE  RtInv([r EXCEPT !.run[i].at = at, !.run[i].plan = plan], 0)
<1> DEFINE j == r.run[i]
           k1 == [j EXCEPT !.at = at]
           k == [k1 EXCEPT !.plan = plan]
           a == [r EXCEPT !.run[i].at = at]
           s == [a EXCEPT !.run[i].plan = plan]
<1>1. [r EXCEPT !.run[i].at = at, !.run[i].plan = plan] = s  OBVIOUS
<1>2. Base(r) /\ Core(r) /\ Loose(r)  BY DEF RtInv, Base, Core
<1>3. r \in RtType /\ r.run \in [Slots -> Job]  BY <1>2 DEF Loose, RtType
<1>4. /\ k1 \in Job /\ k1.at = at /\ k1.o = j.o /\ k1.gen = j.gen /\ k1.raw = j.raw
  BY DEF Job
<1>5. a = [r EXCEPT !.run[i] = k1]  BY <1>3 DEF RtType
<1> HIDE DEF k1
<1>6. k \in Job /\ k.at = at /\ k.o = j.o /\ k.gen = j.gen /\ k.raw = j.raw /\ k.plan = plan
  BY <1>4 DEF Job
<1>7. /\ a \in RtType /\ a.run = [r.run EXCEPT ![i] = k1] /\ a.queue = r.queue
      /\ a.bytes = r.bytes /\ a.state = r.state /\ a.sessions = r.sessions
  BY <1>3, <1>4, <1>5 DEF RtType
<1> HIDE DEF a
<1>8. a.run[i] = k1 /\ a.run \in [Slots -> Job]  BY <1>3, <1>7 DEF RtType
<1>9. s = [a EXCEPT !.run[i] = k]  BY <1>7, <1>8 DEF RtType
<1> HIDE DEF k
<1>10. /\ s \in RtType /\ s.run = [a.run EXCEPT ![i] = k] /\ s.queue = a.queue
       /\ s.bytes = a.bytes /\ s.state = a.state /\ s.sessions = a.sessions
  BY <1>6, <1>7, <1>9, ZenonT(60) DEF RtType
<1> HIDE DEF s
<1>11. /\ s.run = [r.run EXCEPT ![i] = k] /\ s.run[i] = k
       /\ \A n \in Slots \ {i} : s.run[n] = r.run[n]
  <2>1. s.run = [r.run EXCEPT ![i] = k]  BY <1>3, <1>7, <1>10
  <2>2. QED  BY <2>1, <1>3
<1>12. j \in JobsOf(r) /\ JobForm(j) /\ Dated(j, r.state[j.o])
  <2>1. j \in JobsOf(r)  BY DEF JobsOf
  <2>2. QED  BY <2>1, <1>2, BaseState
<1>13. JobForm(k)  BY <1>6, <1>12, Constants DEF JobForm
<1>14. j # Idle /\ k # Idle  BY <1>6, FixedJobs DEF HydrateStages, PlanStages
<1>15. FreeSlots(s) = FreeSlots(r)  BY <1>11, <1>14 DEF FreeSlots, Active
<1>16. \A T : (j \in T <=> k \in T) => Total(s, T) = Total(r, T)
  <2>1. TAKE T
  <2>2. HAVE j \in T <=> k \in T
  <2>3. Ran(s.run, T) = Ran(r.run, T) - Count(j \in T) + Count(k \in T)
    BY <1>3, <1>6, <1>11, RanSet
  <2>4. Count(j \in T) = Count(k \in T) /\ Count(k \in T) \in Nat  BY <2>2 DEF Count
  <2>5. Ran(r.run, T) \in Nat  BY RanType
  <2>6. Ran(s.run, T) = Ran(r.run, T)  BY <2>3, <2>4, <2>5
  <2>7. QED  BY <2>6, <1>7, <1>10 DEF Total
<1>17. Total(s, NonIdle) = Total(r, NonIdle)
  <2>1. j \in NonIdle /\ k \in NonIdle  BY <1>6, <1>14 DEF NonIdle
  <2>2. QED  BY <2>1, <1>16
<1>18. Core(s)
  <2>1. \A n \in Slots : JobForm(s.run[n])  BY <1>2, <1>11, <1>13 DEF Loose
  <2>2. QED  BY <2>1, <1>2, <1>7, <1>10, <1>15, <1>17 DEF Core, Loose
<1>19. Dated(k, r.state[j.o])  BY <1>6, <1>12 DEF Dated
<1>20. Views(s) /\ Gens(s)
  <2>1. JobsOf(s) \subseteq JobsOf(r) \cup {k}  BY <1>7, <1>10, <1>11 DEF JobsOf
  <2>2. \A n \in JobsOf(s) : n.o \in Objects => Dated(n, s.state[n.o])
    BY <2>1, <1>2, <1>6, <1>7, <1>10, <1>19 DEF Base, Views
  <2>3. QED  BY <2>2, <1>2, <1>7, <1>10 DEF Base, Views, Gens
<1>21. Flags(s, 0)
  <2>1. \A p \in Objects : /\ Total(s, PlansOf(p)) = Total(r, PlansOf(p))
                           /\ Total(s, HydratesOf(p)) = Total(r, HydratesOf(p))
    <3>1. TAKE p \in Objects
    <3>2. j \in PlansOf(p) <=> k \in PlansOf(p)  BY <1>6 DEF PlansOf
    <3>3. j \in HydratesOf(p) <=> k \in HydratesOf(p)
      BY <1>6 DEF HydratesOf, HydrateStages, PlanStages
    <3>4. QED  BY <3>2, <3>3, <1>16
  <2>2. QED  BY <2>1, <1>7, <1>10 DEF RtInv, Flags
<1>22. QED  BY <1>1, <1>18, <1>20, <1>21 DEF RtInv


\* A plan of the session's epoch becomes its view.
LEMMA SetView ==
  ASSUME NEW r, NEW o \in Objects, NEW v \in Plan, RtInv(r, 0), v.epoch = r.state[o].epoch
  PROVE  \A s : s = [r EXCEPT !.state[o].view = v] => RtInv(s, 0) /\ s.run = r.run
<1> DEFINE st == [r.state[o] EXCEPT !.view = v]
           s == [r EXCEPT !.state[o].view = v]
<1>1. Base(r)  BY DEF RtInv, Base
<1>2. r \in RtType /\ r.state[o] \in SessionState /\ Sound(r.state[o])  BY <1>1, BaseState
<1>3. /\ st \in SessionState /\ st.generation = r.state[o].generation
      /\ st.busy = r.state[o].busy /\ st.hydrating = r.state[o].hydrating
      /\ st.epoch = r.state[o].epoch /\ st.view = v
      /\ st.snapshot = r.state[o].snapshot /\ st.hydrated = r.state[o].hydrated
  BY <1>2 DEF SessionState
<1>4. s = [r EXCEPT !.state[o] = st]  BY <1>2 DEF RtType
<1> HIDE DEF st
<1>5. Edit(r, s, o, st)  BY <1>2, <1>3, <1>4, EditIs
<1> HIDE DEF s
<1>6. Sound(st)  BY <1>2, <1>3 DEF Sound
<1>7. r.state[o].generation <= st.generation  BY <1>2, <1>3 DEF SessionState
<1>8. RtInv(s, 0)  BY <1>3, <1>5, <1>6, <1>7, EditRt
<1>9. QED  BY <1>5, <1>8 DEF Edit, s

\* The poll for an enhancement is noted or forgotten.
LEMMA SetEnhancing ==
  ASSUME NEW r, NEW o \in Objects, NEW v \in Plan \cup {None}, RtInv(r, 0)
  PROVE  \A s : s = [r EXCEPT !.state[o].enhancing = v] => RtInv(s, 0) /\ s.run = r.run
<1> DEFINE st == [r.state[o] EXCEPT !.enhancing = v]
           s == [r EXCEPT !.state[o].enhancing = v]
<1>1. Base(r)  BY DEF RtInv, Base
<1>2. r \in RtType /\ r.state[o] \in SessionState /\ Sound(r.state[o])  BY <1>1, BaseState
<1>3. /\ st \in SessionState /\ st.generation = r.state[o].generation
      /\ st.busy = r.state[o].busy /\ st.hydrating = r.state[o].hydrating
      /\ st.epoch = r.state[o].epoch /\ st.view = r.state[o].view
      /\ st.snapshot = r.state[o].snapshot /\ st.hydrated = r.state[o].hydrated
  BY <1>2 DEF SessionState
<1>4. s = [r EXCEPT !.state[o] = st]  BY <1>2 DEF RtType
<1> HIDE DEF st
<1>5. Edit(r, s, o, st)  BY <1>2, <1>3, <1>4, EditIs
<1> HIDE DEF s
<1>6. Sound(st)  BY <1>2, <1>3 DEF Sound
<1>7. r.state[o].generation <= st.generation  BY <1>2, <1>3 DEF SessionState
<1>8. RtInv(s, 0)  BY <1>3, <1>5, <1>6, <1>7, EditRt
<1>9. QED  BY <1>5, <1>8 DEF Edit, s

\* A job under way ends its hydration, or goes on with a plan or without one.
LEMMA HydrateStep ==
  ASSUME RuntimeInv, NEW i \in Slots, rt.run[i].at \in HydrateStages, polls' = polls,
         UNCHANGED <<connected, disposed, scanning, resuming, host>>,
         \/ \E ok \in BOOLEAN : rt' = HydrateEnds(rt, i, ok)
         \/ \E plan \in Plan : rt' = [rt EXCEPT !.run[i].at = "hydrateScan", !.run[i].plan = plan]
         \/ rt' = [rt EXCEPT !.run[i].at = "hydrateClear", !.run[i].plan = None]
  PROVE  RuntimeInv'
<1>1. /\ rt.run[i] \in Job /\ rt.run[i].o \in Objects /\ disposed # "closed"
  BY JobFacts
<1>2. RtInv(rt, 0) /\ polls' \subseteq Poll  BY DEF RuntimeInv, Around
<1>3. ASSUME NEW ok \in BOOLEAN, rt' = HydrateEnds(rt, i, ok)  PROVE RuntimeInv'
  <2>1. RtInv(HydrateEnds(rt, i, ok), 0)  BY <1>1, <1>2, HydrateEndsRt
  <2>2. QED  BY <2>1, <1>1, <1>2, <1>3, JobEnd
<1>4. ASSUME NEW plan \in Plan \cup {None}, NEW at \in {"hydrateScan", "hydrateClear"},
             at = "hydrateScan" => plan # None,
             rt' = [rt EXCEPT !.run[i].at = at, !.run[i].plan = plan]
      PROVE  RuntimeInv'
  <2> DEFINE t == [rt EXCEPT !.run[i].at = at, !.run[i].plan = plan]
  <2>1. /\ at \in HydrateStages \cup PlanStages /\ at \notin PlanStages /\ at \notin Planned
        /\ rt.run[i].at \in HydrateStages \cup PlanStages /\ rt.run[i].at \notin PlanStages
        /\ at \in PlanStages <=> rt.run[i].at \in PlanStages
        /\ at \in Planned \cup {"hydrateScan"} => plan # None
    BY <1>4 DEF HydrateStages, PlanStages, Planned
  <2>2. RtInv(t, 0)  BY <2>1, <1>1, <1>2, AdvanceRt
  <2> HIDE DEF t
  <2>3. QED  BY <2>2, <1>1, <1>2, <1>4, JobEnd DEF t
<1>5. CASE \E plan \in Plan : rt' = [rt EXCEPT !.run[i].at = "hydrateScan", !.run[i].plan = plan]
  <2>1. PICK plan \in Plan : rt' = [rt EXCEPT !.run[i].at = "hydrateScan", !.run[i].plan = plan]
    BY <1>5
  <2>2. plan # None  BY Constants
  <2>3. QED  BY <2>1, <2>2, <1>4
<1>6. CASE rt' = [rt EXCEPT !.run[i].at = "hydrateClear", !.run[i].plan = None]
  BY <1>4, <1>6
<1>7. QED  BY <1>3, <1>5, <1>6

\* The daemon's answer to a hydration keeps the invariant.
LEMMA HydrateAnsweredInv ==
  ASSUME RuntimeInv, NEW i \in Slots, HydrateAnswered(i)  PROVE RuntimeInv'
<1>1. rt.run[i].at \in HydrateStages  BY DEF HydrateAnswered, HydrateStages
<1>2. \/ \E ok \in BOOLEAN : rt' = HydrateEnds(rt, i, ok)
      \/ \E plan \in Plan : rt' = [rt EXCEPT !.run[i].at = "hydrateScan", !.run[i].plan = plan]
  BY DEF HydrateAnswered, Advance, OlderPlans
<1>3. polls' = polls /\ UNCHANGED <<connected, disposed, scanning, resuming, host>>
  BY DEF HydrateAnswered
<1>4. QED  BY <1>1, <1>2, <1>3, HydrateStep

\* The end of the clear in a hydration keeps the invariant.
LEMMA HydrateClearedInv ==
  ASSUME RuntimeInv, NEW i \in Slots, HydrateCleared(i)  PROVE RuntimeInv'
<1>1. rt.run[i].at \in HydrateStages  BY DEF HydrateCleared, HydrateStages
<1>2. \E ok \in BOOLEAN : rt' = HydrateEnds(rt, i, ok)  BY DEF HydrateCleared
<1>3. polls' = polls /\ UNCHANGED <<connected, disposed, scanning, resuming, host>>
  BY DEF HydrateCleared
<1>4. QED  BY <1>1, <1>2, <1>3, HydrateStep

\* What the daemon kept is adopted only if it is of the session's epoch.
LEMMA AdoptRt ==
  ASSUME RuntimeInv, NEW i \in Slots, rt.run[i].at = "hydrateScan"
  PROVE  \A s : s = Adopt(rt, i) => RtInv(s, 0) /\ s.run = rt.run
<1> DEFINE j == rt.run[i]
           o == j.o
           v == j.plan
<1>1. RtInv(rt, 0)  BY DEF RuntimeInv
<1>2. j \in Job /\ o \in Objects /\ JobForm(j) /\ Dated(j, rt.state[o])
  BY JobFacts DEF HydrateStages
<1>3. v \in Plan  BY <1>2 DEF JobForm, Job
<1>4. rt.state[o].epoch # None  BY <1>2 DEF Dated
<1>5. Adopt(rt, i) = rt \/ /\ v.epoch = rt.state[o].epoch
                           /\ Adopt(rt, i) = [rt EXCEPT !.state[o].view = v]
  BY <1>4 DEF Adopt
<1> HIDE DEF j, o, v
<1>6. CASE Adopt(rt, i) = rt  BY <1>1, <1>6
<1>7. CASE v.epoch = rt.state[o].epoch /\ Adopt(rt, i) = [rt EXCEPT !.state[o].view = v]
  BY <1>1, <1>2, <1>3, <1>7, SetView
<1>8. QED  BY <1>5, <1>6, <1>7

\* The end of a hydration's scan keeps the invariant.
LEMMA HydrateScannedInv ==
  ASSUME RuntimeInv, NEW i \in Slots, HydrateScanned(i)  PROVE RuntimeInv'
<1> DEFINE a == Adopt(rt, i)
<1>1. rt.run[i].at = "hydrateScan" /\ rt.run[i].at \in HydrateStages
  BY DEF HydrateScanned, HydrateStages
<1>2. \/ \E ok \in BOOLEAN : rt' = HydrateEnds(rt, i, ok)
      \/ rt' = [rt EXCEPT !.run[i].at = "hydrateClear", !.run[i].plan = None]
      \/ rt' = HydrateEnds(a, i, TRUE)
  BY DEF HydrateScanned, Advance
<1>3. polls' = polls /\ UNCHANGED <<connected, disposed, scanning, resuming, host>>
  BY DEF HydrateScanned
<1>4. CASE \E ok \in BOOLEAN : rt' = HydrateEnds(rt, i, ok)
  BY <1>1, <1>3, <1>4, HydrateStep
<1>5. CASE rt' = [rt EXCEPT !.run[i].at = "hydrateClear", !.run[i].plan = None]
  BY <1>1, <1>3, <1>5, HydrateStep
<1>6. CASE rt' = HydrateEnds(a, i, TRUE)
  <2>1. RtInv(a, 0) /\ a.run = rt.run  BY <1>1, AdoptRt
  <2>2. rt.run[i] \in Job /\ rt.run[i].o \in Objects /\ disposed # "closed"  BY <1>1, JobFacts
  <2> HIDE DEF a
  <2>3. RtInv(HydrateEnds(a, i, TRUE), 0)
    <3>1. a.run[i] \in Job /\ a.run[i].o \in Objects /\ a.run[i].at \in HydrateStages
      BY <2>1, <2>2, <1>1
    <3>2. QED  BY <3>1, <2>1, HydrateEndsRt
  <2>4. polls' \subseteq Poll  BY <1>3 DEF RuntimeInv, Around
  <2>5. QED  BY <2>2, <2>3, <2>4, <1>3, <1>6, JobEnd
<1>7. QED  BY <1>2, <1>4, <1>5, <1>6


\* A plan ends, or goes on with a plan of the session's epoch.
LEMMA PlanStep ==
  ASSUME RuntimeInv, NEW i \in Slots, rt.run[i].at \in PlanStages, polls' = polls,
         UNCHANGED <<connected, disposed, scanning, resuming, host>>,
         \/ rt' = PlanEnds(rt, i)
         \/ \E at \in Planned, plan \in Plan :
              /\ rt.run[i].gen = rt.state[rt.run[i].o].generation
                   => plan.epoch = rt.state[rt.run[i].o].epoch
              /\ rt' = [rt EXCEPT !.run[i].at = at, !.run[i].plan = plan]
  PROVE  RuntimeInv'
<1>1. /\ rt.run[i] \in Job /\ rt.run[i].o \in Objects /\ disposed # "closed"
  BY JobFacts
<1>2. RtInv(rt, 0) /\ polls' \subseteq Poll  BY DEF RuntimeInv, Around
<1>3. CASE rt' = PlanEnds(rt, i)
  <2>1. RtInv(PlanEnds(rt, i), 0)  BY <1>1, <1>2, PlanEndsRt
  <2>2. QED  BY <2>1, <1>1, <1>2, <1>3, JobEnd
<1>4. ASSUME NEW plan \in Plan, NEW at \in Planned,
             rt.run[i].gen = rt.state[rt.run[i].o].generation
               => plan.epoch = rt.state[rt.run[i].o].epoch,
             rt' = [rt EXCEPT !.run[i].at = at, !.run[i].plan = plan]
      PROVE  RuntimeInv'
  <2> DEFINE t == [rt EXCEPT !.run[i].at = at, !.run[i].plan = plan]
  <2>1. /\ at \in HydrateStages \cup PlanStages /\ at \in PlanStages
        /\ rt.run[i].at \in HydrateStages \cup PlanStages
        /\ at \in PlanStages <=> rt.run[i].at \in PlanStages
        /\ plan \in Plan \cup {None} /\ plan # None
    BY Constants DEF PlanStages, Planned
  <2>2. (at \in Planned /\ rt.run[i].gen = rt.state[rt.run[i].o].generation)
          => plan.epoch = rt.state[rt.run[i].o].epoch
    BY <1>4
  <2>3. RtInv(t, 0)  BY <2>1, <2>2, <1>1, <1>2, AdvanceRt
  <2> HIDE DEF t
  <2>4. QED  BY <2>3, <1>1, <1>2, <1>4, JobEnd DEF t
<1>5. QED  BY <1>3, <1>4

\* The limits a plan asks for keep the invariant.
LEMMA PlanResolvedInv ==
  ASSUME RuntimeInv, NEW i \in Slots, PlanResolved(i)  PROVE RuntimeInv'
<1> DEFINE j == rt.run[i]
           st == rt.state[j.o]
<1>1. j.at = "resolve" /\ j.at \in PlanStages  BY DEF PlanResolved, PlanStages
<1>2. polls' = polls /\ UNCHANGED <<connected, disposed, scanning, resuming, host>>
  BY DEF PlanResolved
<1>3. CASE rt' = PlanEnds(rt, i)  BY <1>1, <1>2, <1>3, PlanStep
<1>4. CASE rt' # PlanEnds(rt, i)
  <2>1. PICK n \in 1..Len(j.raw.msgs) :
          Advance(i, "compress", [epoch |-> IF st.epoch = None THEN 0 ELSE st.epoch,
                                  source |-> SubSeq(j.raw.msgs, 1, n), enhanced |-> FALSE])
    BY <1>4 DEF PlanResolved
  <2> DEFINE e == IF st.epoch = None THEN 0 ELSE st.epoch
             m == SubSeq(j.raw.msgs, 1, n)
             plan == [epoch |-> e, source |-> m, enhanced |-> FALSE]
  <2>2. j \in Job /\ JobForm(j) /\ st \in SessionState /\ Dated(j, st)  BY <1>1, JobFacts
  <2>3. j.raw \in History /\ j.raw.msgs \in Messages
    BY <2>2, <1>1 DEF JobForm, Job, History
  <2>4. m \in Messages
    <3>1. j.raw.msgs \in Seq(0..MaxContent) /\ Len(j.raw.msgs) \in 1..MaxMessages
      BY <2>3, MessagesAre
    <3> DEFINE w == j.raw.msgs
    <3> HIDE DEF w
    <3>2. w \in Seq(0..MaxContent) /\ Len(w) \in 1..MaxMessages /\ n \in 1..Len(w)
      BY <3>1 DEF w
    <3>3. MaxMessages \in Nat  BY BoundsAssumption
    <3>4. \A k \in 1..n : w[k] \in 0..MaxContent
      <4>1. \A k \in 1..n : k \in 1..Len(w)  BY <3>2, <3>3
      <4>2. \A k \in 1..Len(w) : w[k] \in 0..MaxContent  BY <3>2, ElementOfSeq
      <4>3. QED  BY <4>1, <4>2
    <3>5. SubSeq(w, 1, n) \in Seq(0..MaxContent) /\ Len(SubSeq(w, 1, n)) = n
      BY <3>2, <3>3, <3>4
    <3>6. n \in 1..MaxMessages  BY <3>2, <3>3
    <3>7. SubSeq(w, 1, n) \in Messages  BY <3>5, <3>6, MessagesAre
    <3>8. QED  BY <3>7 DEF w
  <2>5. e \in 0..MaxEpoch /\ e = st.epoch  BY <2>2 DEF Dated, SessionState
  <2>6. rt' = [rt EXCEPT !.run[i].at = "compress", !.run[i].plan = plan]  BY <2>1 DEF Advance
  <2> HIDE DEF m, e
  <2>7. plan \in Plan /\ plan.epoch = st.epoch  BY <2>4, <2>5 DEF Plan
  <2> HIDE DEF plan
  <2>8. \E at \in Planned, p \in Plan :
              /\ rt.run[i].gen = rt.state[rt.run[i].o].generation
                   => p.epoch = rt.state[rt.run[i].o].epoch
              /\ rt' = [rt EXCEPT !.run[i].at = at, !.run[i].plan = p]
    <3>1. "compress" \in Planned  BY DEF Planned
    <3>2. QED  BY <3>1, <2>6, <2>7
  <2>9. QED  BY <2>8, <1>1, <1>2, PlanStep
<1>5. QED  BY <1>3, <1>4

\* A plan that is made goes on as it is.
LEMMA PlanGoesOn ==
  ASSUME RuntimeInv, NEW i \in Slots, rt.run[i].at \in Planned, NEW at \in Planned,
         polls' = polls, UNCHANGED <<connected, disposed, scanning, resuming, host>>,
         \/ rt' = PlanEnds(rt, i)
         \/ rt' = [rt EXCEPT !.run[i].at = at, !.run[i].plan = rt.run[i].plan]
  PROVE  RuntimeInv'
<1> DEFINE j == rt.run[i]
<1>1. j.at \in PlanStages  BY DEF PlanStages, Planned
<1>2. j \in Job /\ JobForm(j) /\ Dated(j, rt.state[j.o])  BY <1>1, JobFacts
<1>3. j.plan \in Plan  BY <1>2 DEF JobForm, Job
<1>4. j.gen = rt.state[j.o].generation => j.plan.epoch = rt.state[j.o].epoch  BY <1>2 DEF Dated
<1>5. CASE rt' = PlanEnds(rt, i)  BY <1>1, <1>5, PlanStep
<1>6. CASE rt' = [rt EXCEPT !.run[i].at = at, !.run[i].plan = rt.run[i].plan]
  BY <1>1, <1>3, <1>4, <1>6, PlanStep
<1>7. QED  BY <1>5, <1>6

\* The daemon's answer to a plan keeps the invariant.
LEMMA PlanCompressedInv ==
  ASSUME RuntimeInv, NEW i \in Slots, PlanCompressed(i)  PROVE RuntimeInv'
<1>1. rt.run[i].at \in Planned /\ "scan" \in Planned  BY DEF PlanCompressed, Planned
<1>2. polls' = polls /\ UNCHANGED <<connected, disposed, scanning, resuming, host>>
  BY DEF PlanCompressed
<1>3. \/ rt' = PlanEnds(rt, i)
      \/ rt' = [rt EXCEPT !.run[i].at = "scan", !.run[i].plan = rt.run[i].plan]
  BY DEF PlanCompressed, Advance
<1>4. QED  BY <1>1, <1>2, <1>3, PlanGoesOn

\* The end of a plan's scan keeps the invariant.
LEMMA PlanScannedInv ==
  ASSUME RuntimeInv, NEW i \in Slots, PlanScanned(i)  PROVE RuntimeInv'
<1>1. rt.run[i].at \in Planned /\ "persist" \in Planned  BY DEF PlanScanned, Planned
<1>2. polls' = polls /\ UNCHANGED <<connected, disposed, scanning, resuming, host>>
  BY DEF PlanScanned
<1>3. \/ rt' = PlanEnds(rt, i)
      \/ rt' = [rt EXCEPT !.run[i].at = "persist", !.run[i].plan = rt.run[i].plan]
  BY DEF PlanScanned, Advance
<1>4. QED  BY <1>1, <1>2, <1>3, PlanGoesOn

\* The end of a plan keeps the invariant.
LEMMA PlanPersistedInv ==
  ASSUME RuntimeInv, NEW i \in Slots, PlanPersisted(i)  PROVE RuntimeInv'
<1> DEFINE j == rt.run[i]
           o == j.o
           st == rt.state[o]
           v == [rt EXCEPT !.state[o].view = j.plan]
           w == [v EXCEPT !.state[o].enhancing = j.plan]
           p == [o |-> o, base |-> j.plan, gen |-> j.gen, at |-> "ask"]
<1>1. /\ j.at \in Planned /\ j.at \in PlanStages
      /\ UNCHANGED <<connected, disposed, scanning, resuming, host>>
  BY DEF PlanPersisted, Planned, PlanStages
<1>2. \/ rt' = PlanEnds(rt, i) /\ polls' = polls
      \/ j.gen = st.generation /\ rt' = PlanEnds(v, i) /\ polls' = polls
      \/ j.gen = st.generation /\ rt' = PlanEnds(w, i) /\ polls' = polls \cup {p}
  BY DEF PlanPersisted, Current
<1>3. j \in Job /\ o \in Objects /\ JobForm(j) /\ Dated(j, st) /\ disposed # "closed"
  BY <1>1, JobFacts
<1>4. j.plan \in Plan  BY <1>1, <1>3 DEF JobForm, Job
<1>5. RtInv(rt, 0) /\ polls \subseteq Poll  BY DEF RuntimeInv, Around
<1>6. p \in Poll  BY <1>3, <1>4 DEF Poll, Job
<1>7. CASE rt' = PlanEnds(rt, i) /\ polls' = polls  BY <1>1, <1>7, PlanStep
<1>8. ASSUME j.gen = st.generation
      PROVE  RtInv(v, 0) /\ v.run = rt.run /\ RtInv(w, 0) /\ w.run = rt.run
  <2>1. j.plan.epoch = st.epoch  BY <1>1, <1>3, <1>8 DEF Dated
  <2>2. RtInv(v, 0) /\ v.run = rt.run  BY <2>1, <1>3, <1>4, <1>5, SetView, SMTT(90)
  <2> HIDE DEF v
  <2>3. RtInv(w, 0) /\ w.run = v.run  BY <2>2, <1>3, <1>4, SetEnhancing, SMTT(30)
  <2>4. QED  BY <2>2, <2>3
<1> HIDE DEF p
<1>9. ASSUME NEW u, RtInv(u, 0), u.run = rt.run, rt' = PlanEnds(u, i),
             polls' = polls \/ polls' = polls \cup {p}
      PROVE  RuntimeInv'
  <2>1. u.run[i] \in Job /\ u.run[i].o \in Objects /\ u.run[i].at \in PlanStages
    BY <1>1, <1>3, <1>9
  <2>2. RtInv(PlanEnds(u, i), 0)  BY <2>1, <1>9, PlanEndsRt
  <2>3. polls' \subseteq Poll  BY <1>5, <1>6, <1>9
  <2>4. QED  BY <2>2, <2>3, <1>1, <1>3, <1>9, JobEnd
<1> HIDE DEF v, w
<1>10. QED  BY <1>2, <1>7, <1>8, <1>9


-----------------------------------------------------------------------------
(* Steps of the polls and of the runtime as a whole *)

\* A poll ends over a state in which the invariant holds.
LEMMA PollEndsInv ==
  ASSUME RuntimeInv, NEW p \in polls, NEW r, RtInv(r, 0), PollEnds(p, r),
         UNCHANGED <<connected, disposed, scanning, resuming, host>>
  PROVE  RuntimeInv'
<1> DEFINE a == [r EXCEPT !.state[p.o].enhancing = None]
           t == IF r.state[p.o].enhancing = p.base THEN a ELSE r
<1>1. polls \subseteq Poll /\ disposed # "closed"  BY DEF RuntimeInv, Around, JobsSettled
<1>2. p.o \in Objects  BY <1>1 DEF Poll
<1>3. RtInv(a, 0)  BY <1>2, SetEnhancing
<1>4. rt' = t /\ polls' = polls \ {p}  BY DEF PollEnds
<1>5. RtInv(t, 0)  BY <1>3
<1>6. polls' \subseteq Poll  BY <1>1, <1>4
<1> HIDE DEF t
<1>7. QED  BY <1>1, <1>4, <1>5, <1>6, JobEnd

\* A poll that goes on to its next await keeps the invariant.
LEMMA PollGoesOnInv ==
  ASSUME RuntimeInv, NEW p \in polls, NEW at \in {"ask", "sleep", "scan", "persist"},
         PollGoesOn(p, at), UNCHANGED <<connected, disposed, scanning, resuming, host>>
  PROVE  RuntimeInv'
<1>1. polls \subseteq Poll /\ disposed # "closed" /\ RtInv(rt, 0)
  BY DEF RuntimeInv, Around, JobsSettled
<1>2. [p EXCEPT !.at = at] \in Poll  BY <1>1 DEF Poll
<1>3. rt' = rt /\ polls' = (polls \ {p}) \cup {[p EXCEPT !.at = at]}  BY DEF PollGoesOn
<1>4. polls' \subseteq Poll  BY <1>1, <1>2, <1>3
<1>5. QED  BY <1>1, <1>3, <1>4, JobEnd

\* Every step of a poll keeps the invariant.
LEMMA PollStepInv ==
  ASSUME RuntimeInv, NEW p \in polls, PollStep(p)  PROVE RuntimeInv'
<1> DEFINE o == p.o
           v == [rt EXCEPT !.state[o].view = Candidate(p.base)]
<1>1. UNCHANGED <<connected, disposed, scanning, resuming, host>>
  BY DEF PollStep, PollAnswered, PollWakes, PollScanned, PollPersisted
<1>2. \/ PollEnds(p, rt)
      \/ \E at \in {"ask", "sleep", "scan", "persist"} : PollGoesOn(p, at)
      \/ StillWanted(p) /\ PollEnds(p, v)
  BY DEF PollStep, PollAnswered, PollWakes, PollScanned, PollPersisted
<1>3. RtInv(rt, 0) /\ polls \subseteq Poll  BY DEF RuntimeInv, Around
<1>4. CASE PollEnds(p, rt)  BY <1>1, <1>3, <1>4, PollEndsInv
<1>5. CASE \E at \in {"ask", "sleep", "scan", "persist"} : PollGoesOn(p, at)
  BY <1>1, <1>5, PollGoesOnInv
<1>6. CASE StillWanted(p) /\ PollEnds(p, v)
  <2>1. o \in Objects /\ p.base \in Plan  BY <1>3 DEF Poll
  <2>2. rt.state[o].view = p.base  BY <1>6 DEF StillWanted
  <2>3. p.base.epoch = rt.state[o].epoch
    BY <2>1, <2>2, <1>3, Constants DEF RtInv, Views
  <2>4. Candidate(p.base) \in Plan /\ Candidate(p.base).epoch = p.base.epoch
    BY <2>1 DEF Candidate, Plan
  <2>5. RtInv(v, 0)  BY <2>1, <2>3, <2>4, <1>3, SetView
  <2> HIDE DEF v
  <2>6. QED  BY <2>5, <1>1, <1>6, PollEndsInv
<1>7. QED  BY <1>2, <1>4, <1>5, <1>6

\* Dispose empties the queue and overtakes every session in the map.
LEMMA DisposeInv ==
  ASSUME RuntimeInv, Dispose  PROVE RuntimeInv'
<1> DEFINE f == [o \in Objects |-> IF Live(rt, o)
                                   THEN [rt.state[o] EXCEPT !.generation = @ + 1]
                                   ELSE rt.state[o]]
<1>1. RtInv(rt, 0) /\ Core(rt) /\ Loose(rt) /\ Views(rt) /\ Gens(rt) /\ Base(rt)
  BY DEF RuntimeInv, RtInv, Core, Base
<1>2. rt \in RtType /\ rt.state \in [Objects -> SessionState] /\ rt.run \in [Slots -> Job]
  BY <1>1 DEF Loose, RtType
<1>3. disposed = "no" /\ disposed' = "waiting"
      /\ UNCHANGED <<connected, polls, scanning, resuming, host>>
  BY DEF Dispose
<1>4. MaxGeneration \in Nat  BY Constants
<1>5. ASSUME NEW o \in Objects
      PROVE  /\ f[o] \in SessionState /\ f[o].epoch = rt.state[o].epoch
             /\ f[o].view = rt.state[o].view /\ f[o].snapshot = rt.state[o].snapshot
             /\ f[o].hydrating = rt.state[o].hydrating /\ f[o].hydrated = rt.state[o].hydrated
             /\ f[o].generation \in {rt.state[o].generation, rt.state[o].generation + 1}
             /\ rt.state[o].generation \in Nat
             /\ f[o].generation <= MaxGeneration + 2
  <2>1. rt.state[o] \in SessionState /\ rt.state[o].generation \in Nat
    BY <1>2 DEF SessionState
  <2>2. rt.state[o].generation <= MaxGeneration + 1
    BY <1>1, <1>3 DEF Gens, GenBound
  <2>3. rt.state[o].generation + 1 \in 0..MaxGeneration + 2  BY <2>1, <2>2, <1>4
  <2>4. CASE Live(rt, o)
    <3>1. f[o] = [rt.state[o] EXCEPT !.generation = @ + 1]  BY <2>4
    <3>2. QED  BY <3>1, <2>1, <2>2, <2>3, <1>4 DEF SessionState
  <2>5. CASE ~Live(rt, o)
    <3>1. f[o] = rt.state[o]  BY <2>5
    <3>2. QED  BY <3>1, <2>1, <2>2, <1>4
  <2>6. QED  BY <2>4, <2>5
<1>6. f \in [Objects -> SessionState]  BY <1>5
<1> DEFINE a == [rt EXCEPT !.queue = << >>]
           b == [a EXCEPT !.bytes = 0]
           t == [b EXCEPT !.state = f]
<1>7. rt' = t  BY DEF Dispose
<1> HIDE DEF f
<1>8. /\ a \in RtType /\ a.queue = << >> /\ a.run = rt.run /\ a.sessions = rt.sessions
  <2> DEFINE q == << >>
             c == [rt EXCEPT !.queue = q]
  <2>1. q \in Seq(Job)  OBVIOUS
  <2> HIDE DEF q
  <2>2. c \in RtType /\ c.queue = q /\ c.run = rt.run /\ c.sessions = rt.sessions
    BY <1>2, <2>1 DEF RtType
  <2>3. QED  BY <2>2 DEF q
<1> HIDE DEF a
<1>9. /\ b \in RtType /\ b.queue = << >> /\ b.run = rt.run /\ b.sessions = rt.sessions
      /\ b.bytes = 0
  BY <1>8 DEF RtType
<1> HIDE DEF b
<1>10. /\ t \in RtType /\ t.queue = << >> /\ t.run = rt.run /\ t.sessions = rt.sessions
       /\ t.bytes = 0 /\ t.state = f
  BY <1>6, <1>9 DEF RtType
<1> HIDE DEF t
<1>11. JobsOf(t) \subseteq JobsOf(rt)
  <2>1. \A k \in 1..Len(t.queue) : FALSE  BY <1>10
  <2>2. QED  BY <2>1, <1>10 DEF JobsOf
<1>12. t.bytes = Queued(t.queue, WithRaw) /\ t.bytes <= ByteLimit
  BY <1>10, QueuedEmpty, Constants
<1>13. Total(t, NonIdle) <= QueueLimit
  <2>1. Queued(t.queue, NonIdle) = 0  BY <1>10, QueuedEmpty
  <2>2. rt.queue \in Seq(Job)  BY <1>2 DEF RtType
  <2>3. Queued(rt.queue, NonIdle) \in Nat /\ Ran(rt.run, NonIdle) \in Nat
    BY <2>2, QueuedType, RanType
  <2>4. Total(rt, NonIdle) <= QueueLimit /\ QueueLimit \in Nat  BY <1>1, Constants DEF Loose
  <2>5. QED  BY <2>1, <2>3, <2>4, <1>10 DEF Total
<1>14. Core(rt)'
  <2>1. \A k \in 1..Len(t.queue) : Fresh(t.queue[k])  BY <1>10
  <2>2. \A i \in Slots : JobForm(t.run[i])  BY <1>1, <1>10 DEF Loose
  <2>3. Len(t.sessions) <= MaxSessions  BY <1>1, <1>10 DEF Loose
  <2>4. QED  BY <2>1, <2>2, <2>3, <1>7, <1>10, <1>12, <1>13 DEF Core, Loose
<1>15. Views(rt)'
  <2>1. ASSUME NEW j \in JobsOf(t), j.o \in Objects  PROVE Dated(j, t.state[j.o])
    <3>1. j \in JobsOf(rt)  BY <2>1, <1>11
    <3>2. Dated(j, rt.state[j.o])  BY <3>1, <2>1, <1>1 DEF Views
    <3>3. j \in Job  BY <3>1, <2>1, <1>1, BaseState
    <3>4. j.gen \in Nat  BY <3>3 DEF Job
    <3>5. /\ f[j.o].epoch = rt.state[j.o].epoch /\ rt.state[j.o].generation \in Nat
          /\ f[j.o].generation \in {rt.state[j.o].generation, rt.state[j.o].generation + 1}
      BY <2>1, <1>5
    <3>6. j.gen <= rt.state[j.o].generation  BY <3>2 DEF Dated
    <3>7. j.gen <= f[j.o].generation
      BY <3>4, <3>5, <3>6
    <3>8. j.gen = f[j.o].generation => j.gen = rt.state[j.o].generation
      BY <3>4, <3>5, <3>6
    <3>9. QED  BY <3>2, <3>5, <3>7, <3>8, <1>10 DEF Dated
  <2>2. ASSUME NEW o \in Objects
        PROVE  /\ t.state[o].view # None => t.state[o].view.epoch = t.state[o].epoch
               /\ t.state[o].snapshot # None => t.state[o].epoch # None
               /\ t.state[o].hydrating => t.state[o].hydrated
    BY <1>1, <1>5, <1>10 DEF Views
  <2>3. QED  BY <2>1, <2>2, <1>7 DEF Views
<1>16. Gens(rt)'
  <2>1. \A o \in Objects : t.state[o].generation <= MaxGeneration + 2  BY <1>5, <1>10
  <2>2. QED  BY <2>1, <1>3, <1>7 DEF Gens, GenBound
<1>17. Flags(rt, 0)'  BY <1>3 DEF Flags
<1>18. RtInv(rt, 0)'  BY <1>14, <1>15, <1>16, <1>17 DEF RtInv
<1>19. Around'  BY <1>3 DEF RuntimeInv, Around
<1>20. QED  BY <1>18, <1>19 DEF RuntimeInv

\* The ports are closed when nothing is left to use them.
LEMMA CloseInv ==
  ASSUME RuntimeInv, Close  PROVE RuntimeInv'
<1> DEFINE t == [rt EXCEPT !.sessions = << >>]
<1>1. /\ disposed = "waiting" /\ disposed' = "closed" /\ rt' = t /\ JobsSettled
      /\ UNCHANGED <<connected, polls, scanning, resuming, host>>
  BY DEF Close
<1>2. RtInv(rt, 0)  BY DEF RuntimeInv
<1>3. << >> \in Seq(Objects) /\ Len(<< >>) <= MaxSessions  BY Constants
<1>4. RtInv(t, 0) /\ t.run = rt.run  BY <1>2, <1>3, DropEntry, ZenonT(60)
<1> HIDE DEF t
<1>5. rt.queue = << >> /\ t.queue = << >>
  BY <1>1, <1>2, <1>4 DEF RtInv, Core, Loose
<1>6. Core(rt)'  BY <1>1, <1>4, <1>5 DEF RtInv, Core, Loose
<1>7. Views(rt)'  BY <1>1, <1>4 DEF RtInv, Views
<1>8. Gens(rt)'  BY <1>1, <1>4 DEF RtInv, Gens, GenBound
<1>9. Flags(rt, 0)'  BY <1>1 DEF Flags
<1>10. RtInv(rt, 0)'  BY <1>6, <1>7, <1>8, <1>9 DEF RtInv
<1>11. JobsSettled'  BY <1>1, <1>4 DEF JobsSettled
<1>12. Around'  BY <1>1, <1>11 DEF RuntimeInv, Around
<1>13. QED  BY <1>10, <1>12 DEF RuntimeInv


\* Initially nothing waits, runs or is known.
LEMMA InitInv ==
  ASSUME Init  PROVE RuntimeInv
<1> DEFINE id == CHOOSE s \in Ids : TRUE
           f == [o \in Objects |-> NewState(id)]
           g == [i \in Slots |-> Idle]
           q == << >>
           e == << >>
<1>1. /\ rt = [sessions |-> e, state |-> f, queue |-> q, run |-> g, bytes |-> 0]
      /\ polls = {} /\ connected = TRUE /\ disposed = "no" /\ resuming = {}
      /\ scanning = [s \in Ids |-> None]
      /\ host = [s \in Ids |-> [epoch |-> 0, msgs |-> <<0>>]]
  BY DEF Init
<1>2. host \in [Ids -> History]
  <2>1. MaxContent \in Nat /\ MaxMessages \in Nat \ {0} /\ MaxEpoch \in Nat  BY BoundsAssumption
  <2>2. <<0>> \in Seq(0..MaxContent) /\ Len(<<0>>) = 1  BY <2>1
  <2>3. Len(<<0>>) \in 1..MaxMessages  BY <2>1, <2>2
  <2>4. <<0>> \in Messages  BY <2>2, <2>3, MessagesAre
  <2> DEFINE m == <<0>>
  <2>5. m \in Messages  BY <2>4
  <2> HIDE DEF m
  <2>6. [epoch |-> 0, msgs |-> m] \in History  BY <2>1, <2>5 DEF History
  <2>7. host = [s \in Ids |-> [epoch |-> 0, msgs |-> m]]  BY <1>1 DEF m
  <2>8. QED  BY <2>6, <2>7
<1>3. Around  BY <1>1, <1>2 DEF Around
<1>4. q \in Seq(Job) /\ e \in Seq(Objects) /\ Len(e) = 0 /\ Len(q) = 0  OBVIOUS
<1>5. g \in [Slots -> Job] /\ \A i \in Slots : g[i] = Idle  BY FixedJobs
<1>6. id \in Ids  BY IdsAssumption
<1> HIDE DEF id
<1>7. /\ NewState(id) \in SessionState /\ ~NewState(id).busy /\ ~NewState(id).hydrating
      /\ NewState(id).view = None /\ NewState(id).snapshot = None
      /\ NewState(id).generation = 0
  BY <1>6, Constants DEF NewState, SessionState
<1>8. f \in [Objects -> SessionState] /\ \A o \in Objects : f[o] = NewState(id)  BY <1>7
<1> HIDE DEF f, g, q, e
<1>9. /\ rt \in RtType /\ rt.sessions = e /\ rt.state = f /\ rt.queue = q /\ rt.run = g
      /\ rt.bytes = 0
  BY <1>1, <1>4, <1>5, <1>8 DEF RtType
<1>10. \A j \in JobsOf(rt) : j = Idle
  <2>1. \A k \in 1..Len(rt.queue) : FALSE  BY <1>4, <1>9
  <2>2. QED  BY <2>1, <1>5, <1>9 DEF JobsOf
<1>11. \A T : Queued(rt.queue, T) = 0  BY <1>9, QueuedEmpty DEF q
<1>12. \A T : Idle \notin T => Ran(rt.run, T) = 0
  <2>1. TAKE T
  <2>2. HAVE Idle \notin T
  <2>3. {i \in Slots : rt.run[i] \in T} = {}  BY <2>2, <1>5, <1>9
  <2>4. QED  BY <2>3, FS_EmptySet DEF Ran
<1>13. \A T : Idle \notin T => Total(rt, T) = 0  BY <1>11, <1>12 DEF Total
<1>14. Core(rt)
  <2>1. Total(rt, NonIdle) <= QueueLimit
    <3>1. Idle \notin NonIdle  BY DEF NonIdle
    <3>2. Total(rt, NonIdle) = 0 /\ QueueLimit \in Nat  BY <3>1, <1>13, Constants
    <3>3. QED  BY <3>2
  <2>2. \A i \in Slots : JobForm(rt.run[i])  BY <1>5, <1>9, FixedJobs
  <2>3. \A k \in 1..Len(rt.queue) : Fresh(rt.queue[k])  BY <1>4, <1>9
  <2>4. Len(rt.sessions) <= MaxSessions  BY <1>4, <1>9, Constants
  <2>5. rt.bytes = Queued(rt.queue, WithRaw) /\ rt.bytes <= ByteLimit
    BY <1>9, <1>11, Constants
  <2>6. rt.queue = << >>  BY <1>9 DEF q
  <2>7. QED  BY <2>1, <2>2, <2>3, <2>4, <2>5, <2>6, <1>9 DEF Core, Loose
<1>15. Views(rt)
  <2>1. \A j \in JobsOf(rt) : j.o \notin Objects  BY <1>10, FixedJobs, Constants
  <2>2. QED  BY <2>1, <1>7, <1>8, <1>9 DEF Views
<1>16. Flags(rt, 0)
  <2>1. SUFFICES ASSUME NEW o \in Objects
                 PROVE  /\ Total(rt, PlansOf(o)) = Count(rt.state[o].busy)
                        /\ Total(rt, HydratesOf(o)) = Count(rt.state[o].hydrating)
    BY DEF Flags
  <2>2. Total(rt, PlansOf(o)) = 0 /\ Total(rt, HydratesOf(o)) = 0
    BY <1>13, SaneSets DEF Sane
  <2>3. Count(rt.state[o].busy) = 0 /\ Count(rt.state[o].hydrating) = 0
    BY <1>7, <1>8, <1>9 DEF Count
  <2>4. QED  BY <2>2, <2>3
<1>17. Gens(rt)
  <2>1. \A o \in Objects : rt.state[o].generation = 0  BY <1>7, <1>8, <1>9
  <2>2. QED  BY <2>1, Constants DEF Gens, GenBound
<1>18. QED  BY <1>3, <1>14, <1>15, <1>16, <1>17 DEF RuntimeInv, RtInv


-----------------------------------------------------------------------------
(* The theorems *)

\* Every hook and event of the host keeps the invariant.
LEMMA HostStepInv ==
  ASSUME RuntimeInv, NEW id \in Ids, HostStep(id)  PROVE RuntimeInv'
BY TransformInv, AppendMessageInv, EditMessageInv, MetadataEventInv, MessageCompletedInv,
   CompactedInv, DeletedInv, SessionIdleInv, ModelChangedInv, CompactingInv DEF HostStep

\* Every step of a job keeps the invariant.
LEMMA JobStepInv ==
  ASSUME RuntimeInv, NEW i \in Slots, JobStep(i)  PROVE RuntimeInv'
BY ClearDoneInv, HydrateAnsweredInv, HydrateScannedInv, HydrateClearedInv, PlanResolvedInv,
   PlanCompressedInv, PlanScannedInv, PlanPersistedInv DEF JobStep

\* A connection that is lost or comes back keeps the invariant.
LEMMA PortInv ==
  ASSUME RuntimeInv, PortLost \/ PortBack  PROVE RuntimeInv'
<1>1. /\ rt' = rt /\ polls' = polls /\ disposed' = disposed /\ connected' \in BOOLEAN
      /\ scanning' = scanning /\ resuming' = resuming /\ host' = host
  BY DEF PortLost, PortBack
<1>2. /\ scanning' \in [Ids -> History \cup {None}] /\ resuming' \subseteq Objects
      /\ host' \in [Ids -> History]
  BY <1>1 DEF RuntimeInv, Around
<1>3. QED  BY <1>1, <1>2, SameRt

\* A stuttering step keeps the invariant.
LEMMA StutterInv ==
  ASSUME RuntimeInv, UNCHANGED vars  PROVE RuntimeInv'
<1>1. /\ rt' = rt /\ polls' = polls /\ disposed' = disposed /\ connected' = connected
      /\ scanning' = scanning /\ resuming' = resuming /\ host' = host
  BY DEF vars
<1>2. /\ scanning' \in [Ids -> History \cup {None}] /\ resuming' \subseteq Objects
      /\ host' \in [Ids -> History] /\ connected' \in BOOLEAN
  BY <1>1 DEF RuntimeInv, Around
<1>3. QED  BY <1>1, <1>2, SameRt

\* The inductive invariant of the plugin's runtime (createRuntime of runtime.ts): the counters
\* of its queue are exact, its flags count the jobs of a session, no job is from a later
\* generation than its session, and what is of the current one is of the current epoch.
THEOREM RuntimeCorrect == Spec => []RuntimeInv
<1>1. Init => RuntimeInv  BY InitInv
<1>2. RuntimeInv /\ [Next]_vars => RuntimeInv'
  <2>1. SUFFICES ASSUME RuntimeInv, [Next]_vars  PROVE RuntimeInv'  OBVIOUS
  <2>2. CASE \E s \in Ids : HostStep(s)  BY <2>1, <2>2, HostStepInv
  <2>3. CASE \E s \in Ids : TransformScanned(s)  BY <2>1, <2>3, TransformScannedInv
  <2>4. CASE \E o \in Objects : Resume(o)  BY <2>1, <2>4, ResumeInv
  <2>5. CASE \E i \in Slots : JobStep(i)  BY <2>1, <2>5, JobStepInv
  <2>6. CASE \E p \in polls : PollStep(p)  BY <2>1, <2>6, PollStepInv
  <2>7. CASE PortLost \/ PortBack  BY <2>1, <2>7, PortInv
  <2>8. CASE Dispose  BY <2>1, <2>8, DisposeInv
  <2>9. CASE Close  BY <2>1, <2>9, CloseInv
  <2>10. CASE UNCHANGED vars  BY <2>1, <2>10, StutterInv
  <2>11. QED
    BY <2>1, <2>2, <2>3, <2>4, <2>5, <2>6, <2>7, <2>8, <2>9, <2>10 DEF Next
<1>3. QED  BY <1>1, <1>2, PTL DEF Spec

\* The variables of the runtime keep their types: the sessions map, the queue and its bytes
\* stay within the limits that runtime.ts sets.
THEOREM AlwaysTyped == Spec => []TypeOK
<1>1. RuntimeInv => TypeOK
  <2>1. SUFFICES ASSUME RuntimeInv  PROVE TypeOK  OBVIOUS
  <2>2. Loose(rt) /\ Around  BY <2>1 DEF RuntimeInv, RtInv, Core
  <2>3. rt.bytes \in 0..ByteLimit
    <3>1. rt.bytes \in Nat /\ rt.bytes <= ByteLimit  BY <2>2 DEF Loose, RtType
    <3>2. QED  BY <3>1, Constants
  <2>4. QED  BY <2>2, <2>3 DEF TypeOK, Loose, RtType, Around
<1>2. QED  BY <1>1, RuntimeCorrect, PTL

\* The counters of enqueue and pump are exact however jobs end; after dispose nothing waits,
\* and when the ports are closed nothing is left to use them.
THEOREM WorkAlwaysExact == Spec => []WorkExact
<1>1. RuntimeInv => WorkExact
  <2>1. SUFFICES ASSUME RuntimeInv  PROVE WorkExact  OBVIOUS
  <2>2. Core(rt) /\ Loose(rt) /\ Around  BY <2>1 DEF RuntimeInv, RtInv, Core
  <2>3. rt.queue \in Seq(Job)  BY <2>2 DEF Loose, RtType
  <2>4. {k \in 1..Len(rt.queue) : rt.queue[k] \in WithRaw} = QueuedPlans
    <3>1. ASSUME NEW k \in 1..Len(rt.queue)
          PROVE  rt.queue[k] \in WithRaw <=> rt.queue[k].at = "resolve"
      <4>1. rt.queue[k] \in Job /\ Fresh(rt.queue[k])  BY <2>2, <2>3 DEF Loose
      <4>2. rt.queue[k].raw # None <=> rt.queue[k].at = "resolve"
        BY <4>1 DEF Fresh, JobForm, PlanStages
      <4>3. QED  BY <4>1, <4>2 DEF WithRaw
    <3>2. QED  BY <3>1 DEF QueuedPlans
  <2>5. rt.bytes = Cardinality(QueuedPlans)  BY <2>2, <2>4 DEF Loose, Queued
  <2>6. Len(rt.queue) + Cardinality(Active(rt)) <= QueueLimit
    BY <2>2, TotalIs DEF Loose
  <2>7. QED  BY <2>2, <2>5, <2>6 DEF WorkExact, Core, Loose, Around
<1>2. QED  BY <1>1, RuntimeCorrect, PTL

\* A count of zero or one, as the property says it.
LEMMA OneJob ==
  ASSUME RuntimeInv, NEW o, NEW stages, NEW T, T = {j \in Job : j.o = o /\ j.at \in stages}
  PROVE  /\ Total(rt, T) = 1 => HasOneJob(o, stages)
         /\ Total(rt, T) = 0 => HasNoJob(o, stages)
<1> DEFINE A == JobsAt(o, stages)
           B == QueuedAt(o, stages)
<1>1. rt.queue \in Seq(Job) /\ rt.run \in [Slots -> Job] /\ Len(rt.queue) \in Nat
  BY DEF RuntimeInv, RtInv, Core, Loose, RtType
<1>2. {k \in 1..Len(rt.queue) : rt.queue[k] \in T} = B
  <2>1. \A k \in 1..Len(rt.queue) : rt.queue[k] \in Job  BY <1>1
  <2>2. QED  BY <2>1 DEF QueuedAt
<1>3. {i \in Slots : rt.run[i] \in T} = A  BY <1>1 DEF JobsAt
<1>4. Total(rt, T) = Cardinality(B) + Cardinality(A)  BY <1>2, <1>3 DEF Total, Queued, Ran
<1>5. A \in SUBSET (1..Permits) /\ B \in SUBSET (1..Len(rt.queue)) /\ Permits \in Nat
  BY Constants DEF JobsAt, QueuedAt
<1> HIDE DEF A, B
<1>6. /\ IsFiniteSet(A) /\ Cardinality(A) \in Nat /\ IsFiniteSet(B) /\ Cardinality(B) \in Nat
  BY <1>1, <1>5, FiniteUpTo
<1>7. Total(rt, T) = 1 => Cardinality(A) + Cardinality(B) = 1  BY <1>4, <1>6
<1>8. Total(rt, T) = 0 => Cardinality(A) = 0 /\ Cardinality(B) = 0  BY <1>4, <1>6
<1>9. (Cardinality(A) = 0 => A = {}) /\ (Cardinality(B) = 0 => B = {})
  BY <1>6, FS_EmptySet
<1>10. QED  BY <1>7, <1>8, <1>9 DEF HasOneJob, HasNoJob, A, B

\* The flags busy and hydrating, which coalesce a session's work, tell the truth in every
\* interleaving of hooks, jobs and polls, also for sessions that left the map.
THEOREM FlagsAlwaysExact == Spec => []FlagsExact
<1>1. RuntimeInv => FlagsExact
  <2>1. SUFFICES ASSUME RuntimeInv, disposed = "no", NEW o \in Objects
                 PROVE  /\ IF rt.state[o].busy THEN HasOneJob(o, PlanStages)
                                               ELSE HasNoJob(o, PlanStages)
                        /\ IF rt.state[o].hydrating THEN HasOneJob(o, HydrateStages)
                                                    ELSE HasNoJob(o, HydrateStages)
    BY DEF FlagsExact
  <2>2. /\ Total(rt, PlansOf(o)) = Count(rt.state[o].busy)
        /\ Total(rt, HydratesOf(o)) = Count(rt.state[o].hydrating)
    BY <2>1, Constants DEF RuntimeInv, RtInv, Flags
  <2>3. /\ Total(rt, PlansOf(o)) = 1 => HasOneJob(o, PlanStages)
        /\ Total(rt, PlansOf(o)) = 0 => HasNoJob(o, PlanStages)
    BY <2>1, OneJob DEF PlansOf
  <2>4. /\ Total(rt, HydratesOf(o)) = 1 => HasOneJob(o, HydrateStages)
        /\ Total(rt, HydratesOf(o)) = 0 => HasNoJob(o, HydrateStages)
    BY <2>1, OneJob DEF HydratesOf
  <2>5. IF rt.state[o].busy THEN HasOneJob(o, PlanStages) ELSE HasNoJob(o, PlanStages)
    <3>1. CASE rt.state[o].busy  BY <3>1, <2>2, <2>3 DEF Count
    <3>2. CASE ~rt.state[o].busy  BY <3>2, <2>2, <2>3 DEF Count
    <3>3. QED  BY <3>1, <3>2
  <2>6. IF rt.state[o].hydrating THEN HasOneJob(o, HydrateStages)
                                 ELSE HasNoJob(o, HydrateStages)
    <3>1. CASE rt.state[o].hydrating  BY <3>1, <2>2, <2>4 DEF Count
    <3>2. CASE ~rt.state[o].hydrating  BY <3>2, <2>2, <2>4 DEF Count
    <3>3. QED  BY <3>1, <3>2
  <2>7. QED  BY <2>5, <2>6
<1>2. QED  BY <1>1, RuntimeCorrect, PTL

\* A view is always of the epoch its session is in, although nobody compares epochs when a
\* plan or a candidate becomes the view: comparing generations is enough.
THEOREM ViewAlwaysMatchesEpoch == Spec => []ViewMatchesEpoch
<1>1. RuntimeInv => ViewMatchesEpoch
  BY DEF RuntimeInv, RtInv, Views, ViewMatchesEpoch
<1>2. QED  BY <1>1, RuntimeCorrect, PTL
=============================================================================
