------------------------- MODULE EnhancementProofs -------------------------
(***************************************************************************)
(* Proofs about Enhancement for any number of sessions, sources, jobs,     *)
(* permits and crashes and any budget: what a session costs stays within   *)
(* its lifetime budget and the excess of single calls, the provider's load *)
(* is bounded, no permit is idle, and what was rejected stays so.          *)
(***************************************************************************)
EXTENDS Enhancement, FiniteSetTheorems, SequenceTheorems, WellFoundedInduction, TLAPS

Phases == {"none", "queued", "calling", "answered", "refused", "leaving", "settled"}
Statuses == {"none", "queued", "running", "completed", "failed"}
JobType == [ns : Sessions \cup {None}, source : Sources \cup {None}, status : Statuses,
            used : (0..MaxCharge) \cup {None}]

\* The queue q of the jobs that wait, when the phases are ph.
Fits(q, ph) ==
  /\ q \in Seq(JobIds)
  /\ \A i, k \in 1..Len(q) : q[i] = q[k] => i = k
  /\ \A j \in JobIds : ph[j] = "queued" <=> \E i \in 1..Len(q) : q[i] = j
\* The jobs that hold a permit.
Holders(ph) == {j \in JobIds : ph[j] \notin {"none", "queued"}}
PermitsOK(ph) == Cardinality(Holders(ph)) <= Permits
\* Nobody waits, or every permit is taken.
Busy(q, ph) == q = <<>> \/ Cardinality(Holders(ph)) = Permits

\* One job at a time for a session, and what the phases ph say of the jobs jb.
Jobs(ph, jb) ==
  /\ ph \in [JobIds -> Phases] /\ jb \in [JobIds -> JobType]
  /\ \A j \in JobIds : ph[j] # "none" => jb[j].ns \in Sessions
  /\ \A i, j \in JobIds : (ph[i] # "none" /\ ph[j] # "none" /\ jb[i].ns = jb[j].ns) => i = j
  /\ \A j \in JobIds : /\ ph[j] = "queued" => jb[j].status = "queued"
                       /\ ph[j] = "calling" => jb[j].status = "running"

\* What a session was charged as far as a ledger can know it.
Net == [s \in Sessions |-> spent[s] - unseen[s] - Excess * crashes]
\* What a reservation still covers: all of it until the provider has settled, and then what
\* will be given back, which is negative when the provider used more than the ceiling.
SlackOf(p, used) ==
  IF p \in {"queued", "calling", "leaving"} THEN MaxTokens
  ELSE IF used = None THEN 0 ELSE MaxTokens - used
\* The usage of a session covers what was spent and what its job may still cost, and was
\* within the budget when the job was admitted.
Covers(ph, jb, us, sp) ==
  \A j \in JobIds : ph[j] # "none" =>
    /\ sp[jb[j].ns] + SlackOf(ph[j], jb[j].used) <= us[jb[j].ns]
    /\ us[jb[j].ns] <= SessionTokens
Rest(ph, jb, s) == \A j \in JobIds : ph[j] # "none" => jb[j].ns # s
\* A session without a job has its usage counted, up to e, and is over its budget by the
\* excess of one call at most.
Within(ph, jb, us, sp, e) ==
  \A s \in Sessions : /\ us[s] <= SessionTokens + Excess
                      /\ Rest(ph, jb, s) => sp[s] <= us[s] + e
\* meta.db may lack the excess of the call that was released last, until the daemon ends.
Slip == IF up THEN Excess ELSE 0

\* Jobs have their ids in order; a candidate is built from a completed job.
RowsOK ==
  /\ \A j \in JobIds : phase[j] # "none" => up
  /\ \A j \in JobIds : (phase[j] # "none" \/ row[j] # "none") => j < next
  /\ \A j \in JobIds : j < next => job[j].ns \in Sessions
  /\ \A k \in Sessions \X Sources : cached[k] # None => cached[k] < next
  /\ building # None => job[building].status = "completed" /\ row[building] \in {"queued", "rejected"}
QueueOK == Fits(queue, phase) /\ PermitsOK(phase)
MoneyOK ==
  /\ Within(phase, job, usage, Net, 0) /\ Covers(phase, job, usage, Net)
  /\ Within(phase, job, saved, Net, Slip) /\ Covers(phase, job, saved, Net)

\* The inductive invariant.
EnhancementInv ==
  TypeOK /\ QueueOK /\ Jobs(phase, job) /\ RowsOK /\ MoneyOK /\ NoIdlePermit

-----------------------------------------------------------------------------
(* Sequences and sets *)

\* A set of numbers that is not empty has a least one.
LEMMA LeastNumber ==
  ASSUME NEW S, S \subseteq Nat, S # {}
  PROVE  Min(S) \in S
<1> DEFINE R == {p \in Nat \X Nat : p[1] < p[2]}
<1>1. IsWellFoundedOn(R, Nat)  BY NatLessThanWellFounded DEF OpToRel
<1>2. \A y, z \in Nat : y < z => <<y, z>> \in R  OBVIOUS
<1> HIDE DEF R
<1>3. PICK x \in S : \A y \in S : ~(<<y, x>> \in R)  BY <1>1, WFMin
<1>4. ASSUME NEW y \in S  PROVE x <= y
  <2>1. y \in Nat /\ x \in Nat  OBVIOUS
  <2>2. ~(y < x)  BY <2>1, <1>2, <1>3
  <2>3. QED  BY <2>1, <2>2
<1>5. QED  BY <1>4 DEF Min

\* Jobs are numbers, and finitely many.
LEMMA JobIdsFinite ==
  /\ JobIds \subseteq Nat /\ IsFiniteSet(JobIds) /\ None \notin JobIds
  /\ \A S \in SUBSET JobIds : IsFiniteSet(S) /\ Cardinality(S) \in Nat
<1>1. IsFiniteSet(JobIds) /\ Cardinality(JobIds) \in Nat
  BY EnhancementAssumption, FS_CardinalityType
<1>2. JobIds = 1..Cardinality(JobIds) /\ None \notin JobIds  BY EnhancementAssumption
<1>3. JobIds \subseteq Nat  BY <1>1, <1>2
<1>4. ASSUME NEW S \in SUBSET JobIds  PROVE IsFiniteSet(S) /\ Cardinality(S) \in Nat
  <2>1. IsFiniteSet(S)  BY <1>1, FS_Subset
  <2>2. QED  BY <2>1, FS_CardinalityType
<1>5. QED  BY <1>1, <1>2, <1>3, <1>4

\* The parts of the type invariant in the words used here.
LEMMA Types ==
  ASSUME EnhancementInv
  PROVE  /\ phase \in [JobIds -> Phases] /\ job \in [JobIds -> JobType]
         /\ usage \in [Sessions -> Int] /\ saved \in [Sessions -> Int]
         /\ spent \in [Sessions -> Nat] /\ unseen \in [Sessions -> Nat] /\ crashes \in Nat
         /\ queue \in Seq(JobIds) /\ next \in Nat /\ JobIds \subseteq Nat
         /\ row \in [JobIds -> {"none", "queued", "ready", "rejected"}]
         /\ older \subseteq JobIds \X JobIds
         /\ cached \in [Sessions \X Sources -> JobIds \cup {None}]
         /\ MaxTokens \in Nat \ {0} /\ SessionTokens \in Nat
BY EnhancementAssumption, JobIdsFinite DEF EnhancementInv, TypeOK, Phases, JobType, Statuses

\* The ceiling, the most a call costs, and the difference.
LEMMA ExcessType == /\ MaxTokens \in Nat /\ MaxCharge \in Nat /\ SessionTokens \in Nat
                    /\ Excess \in Nat /\ MaxCharge = MaxTokens + Excess
BY EnhancementAssumption DEF Excess

\* What a session was charged is a number.
LEMMA NetType ==
  ASSUME spent \in [Sessions -> Nat], unseen \in [Sessions -> Nat], crashes \in Nat
  PROVE  /\ Net \in [Sessions -> Int]
         /\ \A s \in Sessions : Net[s] = spent[s] - unseen[s] - Excess * crashes
<1> DEFINE x == Excess * crashes
<1>1. x \in Nat  BY ExcessType
<1>2. Net = [s \in Sessions |-> spent[s] - unseen[s] - x]  BY DEF Net
<1> HIDE DEF x
<1>3. \A s \in Sessions : Net[s] \in Int /\ Net[s] = spent[s] - unseen[s] - x  BY <1>1, <1>2
<1>4. QED  BY <1>2, <1>3 DEF x

\* A set of at most one job.
LEMMA AtMostOne ==
  ASSUME NEW S \in SUBSET JobIds, \A i, j \in S : i = j
  PROVE  /\ S = {} => Cardinality(S) = 0
         /\ S # {} => Cardinality(S) = 1
<1>1. CASE S = {}  BY <1>1, FS_EmptySet
<1>2. CASE S # {}
  <2>1. PICK j \in S : TRUE  BY <1>2
  <2>2. S = {j}  BY <2>1
  <2>3. Cardinality(S) = 1  BY <2>2, FS_Singleton
  <2>4. QED  BY <1>2, <2>3
<1>3. QED  BY <1>1, <1>2

\* The first n jobs of a queue without repetitions are n jobs.
LEMMA PrefixSize ==
  ASSUME NEW q \in Seq(JobIds), \A i, k \in 1..Len(q) : q[i] = q[k] => i = k,
         NEW n \in Nat, n <= Len(q)
  PROVE  Cardinality({q[i] : i \in 1..n}) = n
<1> DEFINE S == {q[i] : i \in 1..n}
           f == [i \in 1..n |-> q[i]]
<1>1. IsFiniteSet(1..n) /\ Cardinality(1..n) = n  BY FS_Interval
<1>2. f \in Bijection(1..n, S)
  BY DEF Bijection, Injection, Surjection, IsInjective
<1>3. ExistsBijection(1..n, S)  BY <1>2 DEF ExistsBijection
<1>4. QED  BY <1>1, <1>3, FS_Bijection

\* A queue without the job at place k.
LEMMA WithoutOne ==
  ASSUME NEW q \in Seq(JobIds), \A i, l \in 1..Len(q) : q[i] = q[l] => i = l,
         NEW k \in 1..Len(q)
  PROVE  \A r : r = RemoveAt(q, k) =>
           /\ r \in Seq(JobIds) /\ r # q
           /\ \A i, l \in 1..Len(r) : r[i] = r[l] => i = l
           /\ \A j \in JobIds :
                (\E i \in 1..Len(r) : r[i] = j) <=> (j # q[k] /\ \E i \in 1..Len(q) : q[i] = j)
<1> DEFINE a == SubSeq(q, 1, k - 1)
           b == SubSeq(q, k + 1, Len(q))
           r == a \o b
<1>1. /\ a \in Seq(JobIds) /\ Len(a) = k - 1 /\ \A i \in 1..(k - 1) : a[i] = q[i]
      /\ b \in Seq(JobIds) /\ Len(b) = Len(q) - k /\ \A i \in 1..(Len(q) - k) : b[i] = q[k + i]
  OBVIOUS
<1>2. RemoveAt(q, k) = r  BY DEF RemoveAt
<1> HIDE DEF a, b
<1>3. r \in Seq(JobIds) /\ Len(r) = Len(q) - 1  BY <1>1
<1>4. \A i \in 1..Len(r) : r[i] = IF i < k THEN q[i] ELSE q[i + 1]
  <2>1. TAKE i \in 1..Len(r)
  <2>2. r[i] = IF i <= k - 1 THEN a[i] ELSE b[i - (k - 1)]  BY <1>1, <1>3
  <2>3. CASE i < k  BY <2>2, <2>3, <1>1
  <2>4. CASE i >= k
    <3>1. i - (k - 1) \in 1..(Len(q) - k)  BY <2>4, <1>3
    <3>2. k + (i - (k - 1)) = i + 1  OBVIOUS
    <3>3. QED  BY <2>2, <2>4, <3>1, <3>2, <1>1
  <2>5. QED  BY <2>3, <2>4
<1> HIDE DEF r
<1>5. r # q
  <2>1. Len(r) # Len(q)  BY <1>3
  <2>2. QED  BY <2>1
<1>6. \A i, l \in 1..Len(r) : r[i] = r[l] => i = l
  BY <1>3, <1>4
<1>7. ASSUME NEW j \in JobIds
      PROVE  (\E i \in 1..Len(r) : r[i] = j) <=> (j # q[k] /\ \E i \in 1..Len(q) : q[i] = j)
  <2>1. ASSUME NEW i \in 1..Len(r), r[i] = j
        PROVE  j # q[k] /\ \E l \in 1..Len(q) : q[l] = j
    <3>1. PICK l \in 1..Len(q) : l # k /\ q[l] = j
      <4>1. CASE i < k  BY <4>1, <2>1, <1>3, <1>4
      <4>2. CASE i >= k
        <5>1. i + 1 \in 1..Len(q) /\ i + 1 # k /\ q[i + 1] = j  BY <4>2, <2>1, <1>3, <1>4
        <5>2. QED  BY <5>1
      <4>3. QED  BY <4>1, <4>2
    <3>2. QED  BY <3>1
  <2>2. ASSUME j # q[k], NEW l \in 1..Len(q), q[l] = j
        PROVE  \E i \in 1..Len(r) : r[i] = j
    <3>1. l # k  BY <2>2
    <3>2. CASE l < k
      <4>1. l \in 1..Len(r) /\ r[l] = j  BY <3>2, <2>2, <1>3, <1>4
      <4>2. QED  BY <4>1
    <3>3. CASE l > k
      <4>1. l - 1 \in 1..Len(r) /\ ~(l - 1 < k) /\ (l - 1) + 1 = l  BY <3>3, <1>3
      <4>2. r[l - 1] = j  BY <4>1, <2>2, <1>4
      <4>3. QED  BY <4>1, <4>2
    <3>4. QED  BY <3>1, <3>2, <3>3
  <2>3. QED  BY <2>1, <2>2
<1>8. QED  BY <1>2, <1>3, <1>5, <1>6, <1>7, SMTT(30)

-----------------------------------------------------------------------------
(* pump *)

\* What pump leaves behind: free permits went to the first jobs of the queue, so that every
\* permit is taken or nobody waits, and nothing else changed.
LEMMA PumpEffect ==
  ASSUME NEW q, NEW ph, NEW jb,
         Fits(q, ph), PermitsOK(ph), Jobs(ph, jb), PumpWith(q, ph, jb)
  PROVE  /\ Fits(queue', phase') /\ PermitsOK(phase') /\ Busy(queue', phase')
         /\ Jobs(phase', job')
         /\ \A j \in JobIds :
              \/ phase'[j] = ph[j] /\ job'[j] = jb[j]
              \/ /\ ph[j] = "queued" /\ phase'[j] = "calling"
                 /\ job'[j].ns = jb[j].ns /\ job'[j].used = jb[j].used
<1> DEFINE held == Cardinality(Holders(ph))
           free == Permits - held
           m == IF free <= Len(q) THEN free ELSE Len(q)
           started == {q[i] : i \in 1..m}
<1>1. q \in Seq(JobIds) /\ Len(q) \in Nat /\ Permits \in Nat  BY EnhancementAssumption DEF Fits
<1>2. Holders(ph) \in SUBSET JobIds  BY DEF Holders
<1>3. held \in Nat /\ IsFiniteSet(Holders(ph))  BY <1>2, JobIdsFinite
<1>4. free \in Nat  BY <1>1, <1>3 DEF PermitsOK
<1>5. {k \in DOMAIN q : k <= free} = 1..m
  <2>1. DOMAIN q = 1..Len(q)  BY <1>1
  <2>2. QED  BY <2>1, <1>1, <1>4
<1>6. /\ queue' = SubSeq(q, free + 1, Len(q))
      /\ phase' = [j \in JobIds |-> IF j \in started THEN "calling" ELSE ph[j]]
      /\ job' = [j \in JobIds |->
                   IF j \in started THEN [jb[j] EXCEPT !.status = "running"] ELSE jb[j]]
  <2> DEFINE F == Permits - Cardinality({j \in JobIds : ph[j] \notin {"none", "queued"}})
  <2>1. F = free  BY DEF Holders
  <2> HIDE DEF F
  <2>2. /\ queue' = SubSeq(q, F + 1, Len(q))
        /\ phase' = [j \in JobIds |-> IF j \in {q[i] : i \in {k \in DOMAIN q : k <= F}}
                                        THEN "calling" ELSE ph[j]]
        /\ job' = [j \in JobIds |-> IF j \in {q[i] : i \in {k \in DOMAIN q : k <= F}}
                                      THEN [jb[j] EXCEPT !.status = "running"] ELSE jb[j]]
    BY DEF PumpWith, F
  <2> HIDE DEF free, m
  <2>3. QED  BY <2>1, <2>2, <1>5
<1>7. m \in Nat /\ m <= Len(q)  BY <1>1, <1>4
<1>8. Cardinality(started) = m
  <2> HIDE DEF m
  <2>1. QED  BY <1>1, <1>7, PrefixSize DEF Fits
<1> HIDE DEF held, free
<1>9. \A j \in JobIds : j \in started <=> \E i \in 1..m : q[i] = j  OBVIOUS
<1>10. started \in SUBSET JobIds
  <2>1. \A i \in 1..m : q[i] \in JobIds  BY <1>1, <1>7
  <2>2. QED  BY <2>1
<1>11. \A j \in started : ph[j] = "queued"
  <2>1. TAKE j \in started
  <2>2. PICK i \in 1..m : q[i] = j  OBVIOUS
  <2>3. i \in 1..Len(q) /\ j \in JobIds  BY <1>7, <1>10, <2>2
  <2>4. QED  BY <2>2, <2>3 DEF Fits
<1>12. /\ queue' \in Seq(JobIds) /\ Len(queue') = Len(q) - m
       /\ \A i \in 1..(Len(q) - m) : queue'[i] = q[m + i]
  <2>1. CASE free <= Len(q)
    <3>1. m = free  BY <2>1
    <3>2. QED  BY <3>1, <2>1, <1>1, <1>4, <1>6
  <2>2. CASE free > Len(q)
    <3>1. m = Len(q)  BY <2>2, <1>1, <1>4
    <3>2. queue' = <<>>  BY <2>2, <1>1, <1>4, <1>6
    <3>3. QED  BY <3>1, <3>2, <1>1
  <2>3. QED  BY <2>1, <2>2, <1>1, <1>4
<1>13. m = free \/ queue' = <<>>
  <2>1. CASE free <= Len(q)  BY <2>1
  <2>2. CASE free > Len(q)  BY <2>2, <1>1, <1>4, <1>6
  <2>3. QED  BY <2>1, <2>2, <1>1, <1>4
<1>14. m <= free  BY <1>1, <1>4
<1> HIDE DEF m, started
<1>15. \A j \in JobIds :
         /\ j \in started => phase'[j] = "calling" /\ ph[j] = "queued"
         /\ j \notin started => phase'[j] = ph[j] /\ job'[j] = jb[j]
  BY <1>6, <1>11
<1>16. \A j \in JobIds : j \in started =>
         /\ job'[j] \in JobType /\ job'[j].status = "running"
         /\ job'[j].ns = jb[j].ns /\ job'[j].used = jb[j].used
  <2>1. SUFFICES ASSUME NEW j \in JobIds, j \in started
                 PROVE  /\ job'[j] \in JobType /\ job'[j].status = "running"
                        /\ job'[j].ns = jb[j].ns /\ job'[j].used = jb[j].used
    OBVIOUS
  <2>2. job'[j] = [jb[j] EXCEPT !.status = "running"]  BY <1>6, <2>1
  <2>3. jb[j] \in JobType  BY DEF Jobs
  <2>4. QED  BY <2>2, <2>3 DEF JobType, Statuses
<1>17. Fits(queue', phase')
  <2>1. \A i, k \in 1..Len(queue') : queue'[i] = queue'[k] => i = k
    <3>1. SUFFICES ASSUME NEW i \in 1..Len(queue'), NEW k \in 1..Len(queue'),
                          queue'[i] = queue'[k]
                   PROVE  i = k
      OBVIOUS
    <3>2. m + i \in 1..Len(q) /\ m + k \in 1..Len(q) /\ q[m + i] = q[m + k]
      BY <3>1, <1>1, <1>7, <1>12
    <3>3. m + i = m + k  BY <3>2 DEF Fits
    <3>4. QED  BY <3>3, <1>7
  <2>2. ASSUME NEW j \in JobIds
        PROVE  phase'[j] = "queued" <=> \E i \in 1..Len(queue') : queue'[i] = j
    <3>1. ASSUME phase'[j] = "queued"  PROVE \E i \in 1..Len(queue') : queue'[i] = j
      <4>1. j \notin started /\ ph[j] = "queued"  BY <3>1, <1>15
      <4>2. PICK k \in 1..Len(q) : q[k] = j  BY <4>1 DEF Fits
      <4>3. k > m  BY <4>1, <4>2, <1>7, <1>9
      <4>4. k - m \in 1..Len(queue') /\ m + (k - m) = k  BY <4>2, <4>3, <1>1, <1>7, <1>12
      <4>5. queue'[k - m] = j  BY <4>2, <4>4, <1>12
      <4>6. QED  BY <4>4, <4>5
    <3>2. ASSUME NEW i \in 1..Len(queue'), queue'[i] = j  PROVE phase'[j] = "queued"
      <4>1. m + i \in 1..Len(q) /\ q[m + i] = j  BY <3>2, <1>1, <1>7, <1>12
      <4>2. ph[j] = "queued"  BY <4>1 DEF Fits
      <4>3. j \notin started
        <5>1. ASSUME j \in started  PROVE FALSE
          <6>1. PICK k \in 1..m : q[k] = j  BY <5>1, <1>9
          <6>2. k \in 1..Len(q)  BY <6>1, <1>7, <1>1
          <6>3. k = m + i  BY <6>1, <6>2, <4>1 DEF Fits
          <6>4. QED  BY <6>1, <6>3, <1>7, <1>12
        <5>2. QED  BY <5>1
      <4>4. QED  BY <4>2, <4>3, <1>15
    <3>3. QED  BY <3>1, <3>2
  <2>3. QED  BY <2>1, <2>2, <1>12 DEF Fits
<1>18. Cardinality(Holders(phase')) = held + m
  <2>1. Holders(phase') = Holders(ph) \cup started  BY <1>15, <1>10 DEF Holders
  <2>2. Holders(ph) \cap started = {}  BY <1>11 DEF Holders
  <2>3. IsFiniteSet(started)  BY <1>10, JobIdsFinite
  <2>4. Cardinality(Holders(ph) \cup started) = held + m - Cardinality({})
    BY <2>2, <2>3, <1>3, <1>8, FS_Union DEF held
  <2>5. QED  BY <2>1, <2>4, FS_EmptySet, <1>3, <1>7
<1>19. PermitsOK(phase') /\ Busy(queue', phase')
  BY <1>18, <1>14, <1>13, <1>1, <1>3, <1>7 DEF PermitsOK, Busy, free
<1>20. Jobs(phase', job')
  <2>1. /\ ph \in [JobIds -> Phases] /\ jb \in [JobIds -> JobType]
    BY DEF Jobs
  <2>2. phase' \in [JobIds -> Phases] /\ job' \in [JobIds -> JobType]
    <3>1. \A j \in JobIds : phase'[j] \in Phases /\ job'[j] \in JobType
      BY <2>1, <1>15, <1>16 DEF Phases
    <3>2. QED  BY <3>1, <1>6
  <2>3. \A j \in JobIds : /\ phase'[j] # "none" <=> ph[j] # "none"
                          /\ job'[j].ns = jb[j].ns
    BY <1>15, <1>16
  <2>4. \A j \in JobIds : /\ phase'[j] = "queued" => job'[j].status = "queued"
                          /\ phase'[j] = "calling" => job'[j].status = "running"
    BY <1>15, <1>16 DEF Jobs
  <2>5. QED  BY <2>2, <2>3, <2>4 DEF Jobs
<1>21. QED  BY <1>15, <1>16, <1>17, <1>19, <1>20

\* Every pending job after a pump costs what it did before.
LEMMA PumpCovers ==
  ASSUME NEW ph, NEW jb, NEW us, NEW sp, Covers(ph, jb, us, sp),
         \A j \in JobIds :
            \/ phase'[j] = ph[j] /\ job'[j] = jb[j]
            \/ /\ ph[j] = "queued" /\ phase'[j] = "calling"
               /\ job'[j].ns = jb[j].ns /\ job'[j].used = jb[j].used
  PROVE  /\ Covers(phase', job', us, sp)
         /\ \A e : Within(ph, jb, us, sp, e) => Within(phase', job', us, sp, e)
<1>1. \A j \in JobIds : phase'[j] # "none" =>
        /\ ph[j] # "none" /\ job'[j].ns = jb[j].ns
        /\ SlackOf(phase'[j], job'[j].used) = SlackOf(ph[j], jb[j].used)
  BY DEF SlackOf
<1>2. Covers(phase', job', us, sp)  BY <1>1 DEF Covers
<1>3. \A s \in Sessions : Rest(phase', job', s) => Rest(ph, jb, s)  BY DEF Rest
<1>4. QED  BY <1>2, <1>3 DEF Within

\* No permit is idle after a pump, and while nothing about queue and permits changes.
LEMMA NoIdleIf ==
  ASSUME NEW q, NEW ph, NEW mt,
         Busy(q, ph) \/ mt
  PROVE  (q # <<>> /\ Cardinality({j \in JobIds : ph[j] \notin {"none", "queued"}}) < Permits) => mt
<1>1. Holders(ph) \in SUBSET JobIds  BY DEF Holders
<1>2. Cardinality(Holders(ph)) \in Nat /\ Permits \in Nat
  BY <1>1, JobIdsFinite, EnhancementAssumption
<1>3. QED  BY <1>2 DEF Busy, Holders

-----------------------------------------------------------------------------
(* cancel *)

\* A session gets at most one reservation back, that of its one job when it waits.
LEMMA Refund ==
  ASSUME EnhancementInv, NEW J \in SUBSET JobIds, NEW s \in Sessions
  PROVE  \/ /\ UsageAfterCancel(J)[s] = usage[s]
            /\ \A j \in Cancelled(J) : job[j].ns = s => phase[j] # "queued"
         \/ /\ UsageAfterCancel(J)[s] = usage[s] - MaxTokens
            /\ \E j \in Cancelled(J) : job[j].ns = s /\ phase[j] = "queued"
<1> DEFINE C == {j \in Cancelled(J) : phase[j] = "queued" /\ job[j].ns = s}
<1>1. C \in SUBSET JobIds  BY DEF Cancelled
<1>2. \A i, j \in C : i = j  BY <1>1 DEF EnhancementInv, Jobs
<1>3. usage[s] \in Int /\ MaxTokens \in Nat  BY EnhancementAssumption DEF EnhancementInv, TypeOK
<1>4. UsageAfterCancel(J)[s] = usage[s] - MaxTokens * Cardinality(C)  BY DEF UsageAfterCancel
<1>5. CASE C = {}
  <2>1. Cardinality(C) = 0  BY <1>1, <1>2, <1>5, AtMostOne
  <2>2. UsageAfterCancel(J)[s] = usage[s]  BY <2>1, <1>3, <1>4
  <2>3. QED  BY <2>2, <1>5
<1>6. CASE C # {}
  <2>1. Cardinality(C) = 1  BY <1>1, <1>2, <1>6, AtMostOne
  <2>2. UsageAfterCancel(J)[s] = usage[s] - MaxTokens  BY <2>1, <1>3, <1>4
  <2>3. QED  BY <2>2, <1>6
<1>7. QED  BY <1>5, <1>6

\* What is left in memory still covers the sessions.
LEMMA RefundWithin ==
  ASSUME EnhancementInv, NEW J \in SUBSET JobIds
  PROVE  /\ UsageAfterCancel(J) \in [Sessions -> Int]
         /\ Within(PhaseAfterCancel(J), StatusAfterCancel(J), UsageAfterCancel(J), Net, 0)
         /\ Covers(PhaseAfterCancel(J), StatusAfterCancel(J), UsageAfterCancel(J), Net)
<1>1. /\ usage \in [Sessions -> Int] /\ Net \in [Sessions -> Int]
      /\ MaxTokens \in Nat /\ SessionTokens \in Nat /\ Excess \in Nat
  BY Types, NetType, ExcessType
<1>2. Within(phase, job, usage, Net, 0) /\ Covers(phase, job, usage, Net)
  BY DEF EnhancementInv, MoneyOK
<1>3. \A j \in JobIds :
        /\ StatusAfterCancel(J)[j].ns = job[j].ns /\ StatusAfterCancel(J)[j].used = job[j].used
  <2>1. \A j \in JobIds : job[j] \in JobType  BY DEF EnhancementInv, Jobs
  <2>2. QED  BY <2>1 DEF StatusAfterCancel, JobType
<1>4. ASSUME NEW s \in Sessions
      PROVE  /\ UsageAfterCancel(J)[s] \in Int
             /\ UsageAfterCancel(J)[s] <= SessionTokens + Excess
             /\ Rest(PhaseAfterCancel(J), StatusAfterCancel(J), s) =>
                  Net[s] <= UsageAfterCancel(J)[s] + 0
  <2>1. usage[s] \in Int /\ Net[s] \in Int /\ usage[s] <= SessionTokens + Excess
    BY <1>1, <1>2 DEF Within
  <2>2. CASE /\ UsageAfterCancel(J)[s] = usage[s]
             /\ \A j \in Cancelled(J) : job[j].ns = s => phase[j] # "queued"
    <3>1. Rest(PhaseAfterCancel(J), StatusAfterCancel(J), s) => Rest(phase, job, s)
      <4>1. ASSUME NEW j \in JobIds, phase[j] # "none", job[j].ns = s
            PROVE  PhaseAfterCancel(J)[j] # "none"
        BY <4>1, <2>2 DEF PhaseAfterCancel
      <4>2. QED  BY <4>1, <1>3 DEF Rest
    <3>2. QED  BY <3>1, <2>1, <2>2, <1>2 DEF Within
  <2>3. CASE /\ UsageAfterCancel(J)[s] = usage[s] - MaxTokens
             /\ \E j \in Cancelled(J) : job[j].ns = s /\ phase[j] = "queued"
    <3>1. PICK j \in Cancelled(J) : job[j].ns = s /\ phase[j] = "queued"  BY <2>3
    <3>2. j \in JobIds /\ SlackOf(phase[j], job[j].used) = MaxTokens  BY <3>1 DEF Cancelled, SlackOf
    <3>3. Net[s] + MaxTokens <= usage[s]  BY <3>1, <3>2, <1>2 DEF Covers
    <3>4. QED  BY <2>1, <2>3, <3>3, <1>1
  <2>4. QED  BY <2>2, <2>3, Refund
<1>5. ASSUME NEW j \in JobIds, PhaseAfterCancel(J)[j] # "none"
      PROVE  LET jb == StatusAfterCancel(J)[j]
             IN /\ Net[jb.ns] + SlackOf(PhaseAfterCancel(J)[j], jb.used) <= UsageAfterCancel(J)[jb.ns]
                /\ UsageAfterCancel(J)[jb.ns] <= SessionTokens
  <2>3. /\ phase[j] # "none" /\ ~(j \in Cancelled(J) /\ phase[j] = "queued")
        /\ SlackOf(PhaseAfterCancel(J)[j], job[j].used) = SlackOf(phase[j], job[j].used)
    BY <1>5 DEF PhaseAfterCancel, SlackOf
  <2>4. job[j].ns \in Sessions  BY <2>3 DEF EnhancementInv, Jobs
  <2>5. ~\E i \in Cancelled(J) : job[i].ns = job[j].ns /\ phase[i] = "queued"
    <3>1. ASSUME NEW i \in Cancelled(J), job[i].ns = job[j].ns, phase[i] = "queued"  PROVE FALSE
      <4>1. i \in JobIds  BY DEF Cancelled
      <4>2. i = j  BY <4>1, <3>1, <2>3 DEF EnhancementInv, Jobs
      <4>3. QED  BY <4>2, <3>1, <2>3
    <3>2. QED  BY <3>1
  <2>6. UsageAfterCancel(J)[job[j].ns] = usage[job[j].ns]  BY <2>4, <2>5, Refund
  <2>7. /\ Net[job[j].ns] + SlackOf(phase[j], job[j].used) <= usage[job[j].ns]
        /\ usage[job[j].ns] <= SessionTokens
    BY <2>3, <1>2 DEF Covers
  <2>8. QED  BY <1>3, <2>3, <2>6, <2>7
<1>6. UsageAfterCancel(J) \in [Sessions -> Int]
  <2>1. UsageAfterCancel(J) = [s \in Sessions |-> UsageAfterCancel(J)[s]]  BY DEF UsageAfterCancel
  <2>2. QED  BY <2>1, <1>4
<1>7. Within(PhaseAfterCancel(J), StatusAfterCancel(J), UsageAfterCancel(J), Net, 0)
  BY <1>4 DEF Within
<1>8. Covers(PhaseAfterCancel(J), StatusAfterCancel(J), UsageAfterCancel(J), Net)
  BY <1>5 DEF Covers
<1>9. QED  BY <1>6, <1>7, <1>8

\* What a cancel leaves before it pumps, for jobs of one session: the job that waited is
\* gone from the queue, the others and the permits are as before.
LEMMA CancelBefore ==
  ASSUME EnhancementInv, NEW J \in SUBSET JobIds, NEW ns \in Sessions,
         \A j \in J : job[j].ns = ns
  PROVE  LET ph == PhaseAfterCancel(J)
             jb == StatusAfterCancel(J)
         IN /\ Fits(QueueAfterCancel(J), ph)
            /\ Holders(ph) = Holders(phase)
            /\ Jobs(ph, jb)
            /\ \A j \in JobIds :
                 /\ ph[j] # "none" => phase[j] # "none"
                 /\ (phase[j] # "none" /\ job[j].ns # ns) => ph[j] # "none"
                 /\ jb[j].ns = job[j].ns /\ jb[j].used = job[j].used
                 /\ job[j].status = "completed" => jb[j].status = "completed"
                 /\ ph[j] # "none" => SlackOf(ph[j], jb[j].used) = SlackOf(phase[j], job[j].used)
<1> DEFINE ph == PhaseAfterCancel(J)
           jb == StatusAfterCancel(J)
           r == QueueAfterCancel(J)
<1>1. Fits(queue, phase) /\ Jobs(phase, job)  BY DEF EnhancementInv, QueueOK
<1>2. phase \in [JobIds -> Phases] /\ job \in [JobIds -> JobType]  BY <1>1 DEF Jobs
<1>3. \A j \in JobIds :
        /\ j \in Cancelled(J) <=> j \in J /\ phase[j] # "none" /\ job[j].status # "completed"
        /\ jb[j] \in JobType /\ jb[j].ns = job[j].ns /\ jb[j].used = job[j].used
        /\ j \in Cancelled(J) => jb[j].status = "failed"
        /\ j \notin Cancelled(J) => jb[j] = job[j]
  <2>1. TAKE j \in JobIds
  <2>2. job[j] \in JobType  BY <1>2
  <2>3. QED  BY <2>2 DEF StatusAfterCancel, JobType, Statuses, Cancelled, Pending
<1>4. \A j \in JobIds :
        /\ j \in Cancelled(J) /\ phase[j] = "queued" => ph[j] = "none"
        /\ j \in Cancelled(J) /\ phase[j] = "calling" => ph[j] = "leaving"
        /\ ~(j \in Cancelled(J) /\ phase[j] \in {"queued", "calling"}) => ph[j] = phase[j]
  BY DEF PhaseAfterCancel
<1>5. jb \in [JobIds -> JobType] /\ ph \in [JobIds -> Phases]
  <2>1. \A j \in JobIds : ph[j] \in Phases  BY <1>2, <1>4 DEF Phases
  <2>2. /\ ph = [j \in JobIds |-> ph[j]] /\ jb = [j \in JobIds |-> jb[j]]
    BY DEF PhaseAfterCancel, StatusAfterCancel
  <2>3. QED  BY <2>1, <2>2, <1>3
<1>6. Fits(r, ph)
  <2> DEFINE I == {i \in 1..Len(queue) : queue[i] \in Cancelled(J)}
  <2>1. queue \in Seq(JobIds)  BY <1>1 DEF Fits
  <2>2. CASE I = {}
    <3>1. r = queue  BY <2>2 DEF QueueAfterCancel, RemoveFirstMatch
    <3>2. \A j \in JobIds : ph[j] = "queued" <=> phase[j] = "queued"
      <4>1. TAKE j \in JobIds
      <4>2. ~(j \in Cancelled(J) /\ phase[j] = "queued")  BY <2>2, <1>1 DEF Fits
      <4>3. QED  BY <4>2, <1>4
    <3> HIDE DEF r, ph
    <3>3. QED  BY <3>1, <3>2, <1>1 DEF Fits
  <2>3. CASE I # {}
    <3> DEFINE k == Min(I)
    <3>1. k \in I
      <4>1. I \subseteq Nat  BY <2>1
      <4>2. QED  BY <4>1, <2>3, LeastNumber
    <3>2. r = RemoveAt(queue, k)
      BY <2>3 DEF QueueAfterCancel, RemoveFirstMatch, SelectInSeq
    <3> HIDE DEF k
    <3>3. k \in 1..Len(queue) /\ queue[k] \in Cancelled(J) /\ queue[k] \in JobIds  BY <3>1, <2>1
    <3>4. phase[queue[k]] = "queued"  BY <3>3, <1>1 DEF Fits
    <3>5. \A j \in JobIds : ph[j] = "queued" <=> (j # queue[k] /\ phase[j] = "queued")
      <4>1. TAKE j \in JobIds
      <4>2. (j \in Cancelled(J) /\ phase[j] = "queued") <=> j = queue[k]
        <5>1. ASSUME j \in Cancelled(J), phase[j] = "queued"  PROVE j = queue[k]
          <6>1. job[j].ns = job[queue[k]].ns  BY <5>1, <3>3, <1>3
          <6>2. QED  BY <6>1, <5>1, <3>3, <3>4, <1>1 DEF Jobs
        <5>2. QED  BY <5>1, <3>3, <3>4
      <4>3. QED  BY <4>2, <1>4
    <3>6. \A i, l \in 1..Len(queue) : queue[i] = queue[l] => i = l  BY <1>1 DEF Fits
    <3>7. /\ r \in Seq(JobIds)
          /\ \A i, l \in 1..Len(r) : r[i] = r[l] => i = l
          /\ \A j \in JobIds :
               (\E i \in 1..Len(r) : r[i] = j)
                 <=> (j # queue[k] /\ \E i \in 1..Len(queue) : queue[i] = j)
      <4> HIDE DEF r, ph, jb, I
      <4>1. k \in 1..Len(queue)  BY <3>3
      <4>2. QED  BY <2>1, <3>2, <3>6, <4>1, WithoutOne
    <3> HIDE DEF r, ph
    <3>8. QED  BY <3>5, <3>7, <1>1 DEF Fits
  <2>4. QED  BY <2>2, <2>3
<1> HIDE DEF ph, jb, r
<1>7. Holders(ph) = Holders(phase)  BY <1>4 DEF Holders
<1>8. \A j \in JobIds :
        /\ ph[j] # "none" => phase[j] # "none"
        /\ (phase[j] # "none" /\ job[j].ns # ns) => ph[j] # "none"
        /\ job[j].status = "completed" => jb[j].status = "completed"
        /\ ph[j] # "none" => SlackOf(ph[j], jb[j].used) = SlackOf(phase[j], job[j].used)
  BY <1>3, <1>4 DEF SlackOf
<1>9. Jobs(ph, jb)
  <2>1. \A j \in JobIds : /\ ph[j] = "queued" => jb[j].status = "queued"
                          /\ ph[j] = "calling" => jb[j].status = "running"
    BY <1>1, <1>3, <1>4 DEF Jobs
  <2>2. QED  BY <2>1, <1>1, <1>3, <1>5, <1>8 DEF Jobs
<1>10. QED  BY <1>3, <1>6, <1>7, <1>8, <1>9 DEF ph, jb, r

\* A cancel of jobs of one session, whose usage is saved with it.
LEMMA CancelStep ==
  ASSUME EnhancementInv, NEW J \in SUBSET JobIds, NEW ns \in Sessions,
         \A j \in J : job[j].ns = ns,
         Cancel(J), Persist(ns, UsageAfterCancel(J)[ns]),
         UNCHANGED <<up, microtask, spent, unseen, crashes>>
  PROVE  /\ QueueOK' /\ Jobs(phase', job') /\ MoneyOK' /\ NoIdlePermit'
         /\ usage' \in [Sessions -> Int] /\ saved' \in [Sessions -> Int]
         /\ \A j \in JobIds :
              /\ phase'[j] # "none" => phase[j] # "none"
              /\ job'[j].ns = job[j].ns
              /\ job[j].status = "completed" => job'[j].status = "completed"
<1> DEFINE q == QueueAfterCancel(J)
           ph == PhaseAfterCancel(J)
           jb == StatusAfterCancel(J)
           us == UsageAfterCancel(J)
<1>1. /\ Fits(q, ph) /\ Holders(ph) = Holders(phase) /\ Jobs(ph, jb)
      /\ \A j \in JobIds :
           /\ ph[j] # "none" => phase[j] # "none"
           /\ (phase[j] # "none" /\ job[j].ns # ns) => ph[j] # "none"
           /\ jb[j].ns = job[j].ns /\ jb[j].used = job[j].used
           /\ job[j].status = "completed" => jb[j].status = "completed"
           /\ ph[j] # "none" => SlackOf(ph[j], jb[j].used) = SlackOf(phase[j], job[j].used)
  BY CancelBefore
<1>2. us \in [Sessions -> Int] /\ Within(ph, jb, us, Net, 0) /\ Covers(ph, jb, us, Net)
  BY RefundWithin
<1>3. PermitsOK(ph)  BY <1>1 DEF EnhancementInv, QueueOK, PermitsOK
<1>4. /\ usage' = us /\ saved' = [saved EXCEPT ![ns] = us[ns]]
      /\ microtask' = microtask /\ Net' = Net /\ Slip' = Slip
  BY DEF Cancel, Persist, Net, Slip
<1>5. /\ q # queue => PumpWith(q, ph, jb)
      /\ q = queue => queue' = queue /\ phase' = ph /\ job' = jb
  BY DEF Cancel
<1>6. /\ saved \in [Sessions -> Int] /\ usage \in [Sessions -> Int] /\ Net \in [Sessions -> Int]
      /\ Excess \in Nat /\ Slip \in Nat
  BY Types, NetType, ExcessType DEF Slip
<1>7. Covers(ph, jb, saved', Net)
  <2>1. SUFFICES ASSUME NEW j \in JobIds, ph[j] # "none"
                 PROVE  /\ Net[jb[j].ns] + SlackOf(ph[j], jb[j].used) <= saved'[jb[j].ns]
                        /\ saved'[jb[j].ns] <= SessionTokens
    BY DEF Covers
  <2> HIDE DEF q, ph, jb, us
  <2>2. jb[j].ns \in Sessions  BY <2>1, <1>1 DEF Jobs
  <2>3. CASE jb[j].ns = ns
    <3>1. saved'[ns] = us[ns]  BY <1>4, <1>6
    <3>2. QED  BY <3>1, <2>1, <2>3, <1>2 DEF Covers
  <2>4. CASE jb[j].ns # ns
    <3>1. saved'[jb[j].ns] = saved[jb[j].ns]  BY <2>2, <2>4, <1>4, <1>6
    <3>2. /\ Net[job[j].ns] + SlackOf(phase[j], job[j].used) <= saved[job[j].ns]
          /\ saved[job[j].ns] <= SessionTokens
      BY <2>1, <1>1 DEF EnhancementInv, MoneyOK, Covers
    <3>3. QED  BY <3>1, <3>2, <2>1, <1>1
  <2>5. QED  BY <2>3, <2>4
<1>8. Within(ph, jb, saved', Net, Slip) /\ saved' \in [Sessions -> Int]
  <2> HIDE DEF us, ph, jb
  <2>1. \A s \in Sessions : saved'[s] = IF s = ns THEN us[s] ELSE saved[s]  BY <1>4, <1>6
  <2>2. Within(phase, job, saved, Net, Slip)  BY DEF EnhancementInv, MoneyOK
  <2>3. us[ns] \in Int /\ saved' \in [Sessions -> Int]  BY <1>2, <1>4, <1>6
  <2>4. ASSUME NEW s \in Sessions
        PROVE  /\ saved'[s] <= SessionTokens + Excess
               /\ Rest(ph, jb, s) => Net[s] <= saved'[s] + Slip
    <3>1. CASE s = ns
      <4>1. /\ us[s] <= SessionTokens + Excess /\ (Rest(ph, jb, s) => Net[s] <= us[s] + 0)
            /\ us[s] \in Int /\ Net[s] \in Int /\ saved'[s] = us[s]
        BY <1>2, <1>6, <2>1, <3>1 DEF Within
      <4>2. QED  BY <4>1, <1>6
    <3>2. CASE s # ns
      <4>1. Rest(ph, jb, s) => Rest(phase, job, s)  BY <1>1, <3>2 DEF Rest
      <4>2. QED  BY <4>1, <2>1, <2>2, <3>2 DEF Within
    <3>3. QED  BY <3>1, <3>2
  <2>5. QED  BY <2>3, <2>4 DEF Within
<1> HIDE DEF q, ph, jb, us
<1>9. CASE q # queue
  <2>1. /\ Fits(queue', phase') /\ PermitsOK(phase') /\ Busy(queue', phase')
        /\ Jobs(phase', job')
        /\ \A j \in JobIds :
             \/ phase'[j] = ph[j] /\ job'[j] = jb[j]
             \/ /\ ph[j] = "queued" /\ phase'[j] = "calling"
                /\ job'[j].ns = jb[j].ns /\ job'[j].used = jb[j].used
    BY <1>1, <1>3, <1>5, <1>9, PumpEffect
  <2>2. /\ Covers(phase', job', us, Net) /\ Within(phase', job', us, Net, 0)
        /\ Covers(phase', job', saved', Net) /\ Within(phase', job', saved', Net, Slip)
    <3>1. Covers(phase', job', us, Net) /\ Within(phase', job', us, Net, 0)
      BY <2>1, <1>2, PumpCovers
    <3>2. Covers(phase', job', saved', Net) /\ Within(phase', job', saved', Net, Slip)
      BY <2>1, <1>7, <1>8, PumpCovers
    <3>3. QED  BY <3>1, <3>2
  <2>3. NoIdlePermit'  BY <2>1, NoIdleIf DEF NoIdlePermit, Running
  <2>4. \A j \in JobIds :
          /\ phase'[j] # "none" => phase[j] # "none"
          /\ job'[j].ns = job[j].ns
          /\ job[j].status = "completed" => job'[j].status = "completed"
    BY <2>1, <1>1 DEF Jobs
  <2>5. QED  BY <2>1, <2>2, <2>3, <2>4, <1>2, <1>4, <1>8 DEF QueueOK, MoneyOK
<1>10. CASE q = queue
  <2>1. queue' = queue /\ phase' = ph /\ job' = jb  BY <1>5, <1>10
  <2>2. QueueOK'  BY <2>1, <1>1, <1>3, <1>10 DEF QueueOK
  <2>3. NoIdlePermit'
    <3>1. Running' = Running  BY <2>1, <1>1 DEF Running, Holders
    <3>2. QED  BY <3>1, <2>1, <1>4 DEF EnhancementInv, NoIdlePermit
  <2>4. QED  BY <2>1, <2>2, <2>3, <1>1, <1>2, <1>4, <1>7, <1>8 DEF MoneyOK
<1>11. QED  BY <1>9, <1>10

-----------------------------------------------------------------------------
(* One lemma for each action *)

\* The manager starts with nothing open and nothing spent.
LEMMA InitInv == Init => EnhancementInv
<1> SUFFICES ASSUME Init  PROVE EnhancementInv  OBVIOUS
<1>1. SessionTokens \in Nat /\ Permits \in Nat /\ JobIds \subseteq Nat
  BY EnhancementAssumption, JobIdsFinite
<1>2. NoJob \in JobType  BY DEF NoJob, JobType, Statuses
<1>3. Jobs(phase, job)  BY <1>2 DEF Init, Jobs, Phases
<1>4. QueueOK
  <2>1. Holders(phase) = {}  BY DEF Init, Holders
  <2>2. PermitsOK(phase)  BY <2>1, <1>1, FS_EmptySet DEF PermitsOK
  <2>3. Fits(queue, phase)  BY DEF Init, Fits
  <2>4. QED  BY <2>2, <2>3 DEF QueueOK
<1>5. MoneyOK
  <2>1. /\ spent \in [Sessions -> Nat] /\ unseen \in [Sessions -> Nat] /\ crashes \in Nat
        /\ crashes = 0 /\ \A s \in Sessions : spent[s] = 0 /\ unseen[s] = 0
    BY DEF Init
  <2>2. Excess * crashes = 0  BY <2>1, ExcessType
  <2>3. \A s \in Sessions : Net[s] = 0
    <3> DEFINE x == Excess * crashes
    <3>1. x = 0 /\ \A s \in Sessions : Net[s] = spent[s] - unseen[s] - x  BY <2>1, <2>2, NetType
    <3> HIDE DEF x
    <3>2. QED  BY <2>1, <3>1
  <2>4. /\ \A s \in Sessions : usage[s] = 0 /\ saved[s] = 0
        /\ \A j \in JobIds : phase[j] = "none"
    BY DEF Init
  <2>5. Slip \in Nat  BY ExcessType DEF Slip
  <2>6. Within(phase, job, usage, Net, 0) /\ Within(phase, job, saved, Net, Slip)
    BY <2>3, <2>4, <2>5, ExcessType DEF Within
  <2>7. Covers(phase, job, usage, Net) /\ Covers(phase, job, saved, Net)  BY <2>4 DEF Covers
  <2>8. QED  BY <2>6, <2>7 DEF MoneyOK
<1>6. RowsOK
  <2>1. \A j \in JobIds : ~(j < 1)
    <3>1. JobIds = 1..Cardinality(JobIds)  BY EnhancementAssumption
    <3>2. \A j \in 1..Cardinality(JobIds) : ~(j < 1)  OBVIOUS
    <3>3. QED  BY <3>1, <3>2
  <2>2. QED  BY <2>1 DEF Init, RowsOK
<1>7. TypeOK
  <2>1. up \in BOOLEAN /\ microtask \in BOOLEAN /\ building \in JobIds \cup {None}
    BY DEF Init
  <2>2. /\ usage \in [Sessions -> Int] /\ saved \in [Sessions -> Int]
        /\ spent \in [Sessions -> Nat] /\ unseen \in [Sessions -> Nat]
        /\ next \in Nat /\ crashes \in Nat /\ older \subseteq JobIds \X JobIds
    BY DEF Init
  <2>3. /\ cached \in [Sessions \X Sources -> JobIds \cup {None}]
        /\ row \in [JobIds -> {"none", "queued", "ready", "rejected"}]
    BY DEF Init
  <2>4. QED
    BY <2>1, <2>2, <2>3, <1>3, <1>4 DEF TypeOK, Jobs, QueueOK, Fits, Phases, JobType, Statuses
<1>8. NoIdlePermit  BY DEF Init, NoIdlePermit
<1>9. QED  BY <1>3, <1>4, <1>5, <1>6, <1>7, <1>8 DEF EnhancementInv

\* A reservation covers the ceiling at most, and lacks the excess of one call at most.
LEMMA SlackType ==
  ASSUME NEW p, NEW u \in (0..MaxCharge) \cup {None}
  PROVE  SlackOf(p, u) \in Int /\ SlackOf(p, u) <= MaxTokens /\ 0 - Excess <= SlackOf(p, u)
BY ExcessType DEF SlackOf

\* A step of run before the release: the job keeps its permit and its session, and what is
\* charged comes out of what its reservation covers.
LEMMA RunEffect ==
  ASSUME EnhancementInv, NEW j \in JobIds, phase[j] # "none", phase[j] # "queued",
         NEW p \in {"answered", "refused", "leaving", "settled"},
         NEW r \in JobType, r.ns = job[j].ns,
         NEW n \in Int, n + SlackOf(p, r.used) <= SlackOf(phase[j], job[j].used),
         phase' = [phase EXCEPT ![j] = p], job' = [job EXCEPT ![j] = r],
         Net' \in [Sessions -> Int],
         \A t \in Sessions : Net'[t] = IF t = job[j].ns THEN Net[t] + n ELSE Net[t],
         UNCHANGED <<up, queue, microtask, usage, saved>>
  PROVE  /\ QueueOK' /\ Jobs(phase', job') /\ MoneyOK' /\ NoIdlePermit'
         /\ \A i \in JobIds : /\ phase'[i] # "none" <=> phase[i] # "none"
                              /\ job'[i].ns = job[i].ns
<1> DEFINE s == job[j].ns
<1>1. /\ phase \in [JobIds -> Phases] /\ job \in [JobIds -> JobType]
      /\ usage \in [Sessions -> Int] /\ saved \in [Sessions -> Int]
      /\ Net \in [Sessions -> Int] /\ MaxTokens \in Nat
  BY Types, NetType
<1>2. s \in Sessions /\ Jobs(phase, job)  BY DEF EnhancementInv, Jobs
<1>3. /\ phase'[j] = p /\ job'[j] = r
      /\ \A i \in JobIds \ {j} : phase'[i] = phase[i] /\ job'[i] = job[i]
      /\ phase' \in [JobIds -> Phases] /\ job' \in [JobIds -> JobType]
  BY <1>1 DEF Phases
<1>4. \A i \in JobIds : /\ phase'[i] # "none" <=> phase[i] # "none"
                        /\ job'[i].ns = job[i].ns
                        /\ phase'[i] = "queued" <=> phase[i] = "queued"
  BY <1>3
<1>5. Jobs(phase', job')
  <2>1. \A i \in JobIds : /\ phase'[i] = "queued" => job'[i].status = "queued"
                          /\ phase'[i] = "calling" => job'[i].status = "running"
    BY <1>2, <1>3 DEF Jobs
  <2>2. QED  BY <2>1, <1>2, <1>3, <1>4 DEF Jobs
<1>6. Holders(phase') = Holders(phase)  BY <1>4 DEF Holders
<1>7. QueueOK'
  <2>1. Fits(queue', phase')  BY <1>4 DEF EnhancementInv, QueueOK, Fits
  <2>2. QED  BY <2>1, <1>6 DEF EnhancementInv, QueueOK, PermitsOK
<1>8. NoIdlePermit'
  <2>1. Running' = Running  BY <1>6 DEF Running, Holders
  <2>2. QED  BY <2>1 DEF EnhancementInv, NoIdlePermit
<1>9. /\ Net' \in [Sessions -> Int] /\ Net'[s] = Net[s] + n
      /\ \A t \in Sessions \ {s} : Net'[t] = Net[t]
  BY <1>2
<1>10. ASSUME NEW us \in [Sessions -> Int], NEW e, Within(phase, job, us, Net, e),
              Covers(phase, job, us, Net)
       PROVE  Within(phase', job', us, Net', e) /\ Covers(phase', job', us, Net')
  <2>1. Net[s] + SlackOf(phase[j], job[j].used) <= us[s] /\ us[s] <= SessionTokens
    BY <1>10 DEF Covers
  <2>2. SlackOf(phase[j], job[j].used) \in Int /\ SlackOf(p, r.used) \in Int
    <3>1. job[j].used \in (0..MaxCharge) \cup {None} /\ r.used \in (0..MaxCharge) \cup {None}
      BY <1>1 DEF JobType
    <3>2. QED  BY <3>1, SlackType
  <2>3. us[s] \in Int /\ Net[s] \in Int  BY <1>1, <1>2
  <2> HIDE DEF s
  <2>4. Net[s] + n + SlackOf(p, r.used) <= us[s]
    <3> DEFINE a == SlackOf(phase[j], job[j].used)
               b == SlackOf(p, r.used)
    <3>1. a \in Int /\ b \in Int /\ n + b <= a /\ Net[s] + a <= us[s]  BY <2>1, <2>2
    <3> HIDE DEF a, b
    <3>2. Net[s] + n + b <= us[s]  BY <3>1, <2>3
    <3>3. QED  BY <3>2 DEF b
  <2>5. Within(phase', job', us, Net', e)
    <3>1. \A t \in Sessions : Rest(phase', job', t) => Rest(phase, job, t) /\ t # s
      BY <1>4 DEF Rest, s
    <3>2. QED  BY <3>1, <1>9, <1>10 DEF Within
  <2>6. Covers(phase', job', us, Net')
    <3>1. SUFFICES ASSUME NEW i \in JobIds, phase'[i] # "none"
                   PROVE  /\ Net'[job'[i].ns] + SlackOf(phase'[i], job'[i].used) <= us[job'[i].ns]
                          /\ us[job'[i].ns] <= SessionTokens
      BY DEF Covers
    <3>2. CASE i = j  BY <3>2, <2>1, <2>4, <1>3, <1>9 DEF s
    <3>3. CASE i # j
      <4>1. job[i].ns # s /\ job[i].ns \in Sessions  BY <3>1, <3>3, <1>2, <1>4 DEF Jobs, s
      <4>2. /\ Net[job[i].ns] + SlackOf(phase[i], job[i].used) <= us[job[i].ns]
            /\ us[job[i].ns] <= SessionTokens
        BY <3>1, <1>4, <1>10 DEF Covers
      <4>3. QED  BY <3>3, <4>1, <4>2, <1>3, <1>9
    <3>4. QED  BY <3>2, <3>3
  <2>7. QED  BY <2>5, <2>6
<1>11. MoneyOK'
  <2>1. Within(phase', job', usage, Net', 0) /\ Covers(phase', job', usage, Net')
    BY <1>1, <1>10 DEF EnhancementInv, MoneyOK
  <2>2. Within(phase', job', saved, Net', Slip) /\ Covers(phase', job', saved, Net')
    BY <1>1, <1>10 DEF EnhancementInv, MoneyOK
  <2>3. Slip' = Slip  BY DEF Slip
  <2>4. QED  BY <2>1, <2>2, <2>3 DEF MoneyOK
<1>12. QED  BY <1>4, <1>5, <1>7, <1>8, <1>11

\* A provider that settles leaves its job with what it said it used.
LEMMA AnswerStep ==
  ASSUME EnhancementInv, NEW j \in JobIds, NEW good \in BOOLEAN, NEW known \in BOOLEAN,
         NEW n \in 0..MaxCharge, Answer(j, good, known, n) \/ Leave(j, known, n)
  PROVE  EnhancementInv'
<1> DEFINE u == IF known THEN n ELSE None
           r == [job[j] EXCEPT !.used = u]
           s == job[j].ns
           m == IF known \/ n <= MaxTokens THEN 0 ELSE n - MaxTokens
<1>1. /\ job \in [JobIds -> JobType] /\ job[j] \in JobType
      /\ spent \in [Sessions -> Nat] /\ unseen \in [Sessions -> Nat] /\ crashes \in Nat
  BY Types
<1>2. u \in (0..MaxCharge) \cup {None} /\ n \in Nat /\ m \in Nat  BY ExcessType
<1>3. n - m + SlackOf("answered", u) <= MaxTokens
  <2>1. CASE known
    <3>1. u = n /\ m = 0 /\ n # None  BY <2>1, EnhancementAssumption
    <3>2. SlackOf("answered", u) = MaxTokens - n  BY <3>1 DEF SlackOf
    <3>3. QED  BY <3>1, <3>2, <1>2, ExcessType
  <2>2. CASE ~known
    <3>1. SlackOf("answered", u) = 0  BY <2>2 DEF SlackOf
    <3>2. n - m <= MaxTokens  BY <2>2, <1>2, ExcessType
    <3>3. QED  BY <3>1, <3>2, <1>2, ExcessType
  <2>3. QED  BY <2>1, <2>2
<1>4. SlackOf("refused", u) = SlackOf("answered", u) /\ SlackOf("settled", u) = SlackOf("answered", u)
  BY DEF SlackOf
<1>5. /\ spent' = [spent EXCEPT ![s] = @ + n]
      /\ job' = [job EXCEPT ![j] = r]
      /\ UNCHANGED <<queue, microtask, usage, saved, up, next, cached, row, older, building, crashes>>
  BY <1>1 DEF Answer, Leave, Settle
<1>6. /\ phase[j] = "calling" \/ phase[j] = "leaving"
      /\ \/ phase' = [phase EXCEPT ![j] = "answered"]
         \/ phase' = [phase EXCEPT ![j] = "refused"]
         \/ phase' = [phase EXCEPT ![j] = "settled"]
  BY DEF Answer, Leave
<1>7. s \in Sessions  BY <1>6 DEF EnhancementInv, Jobs
<1>8. /\ unseen' \in [Sessions -> Nat] /\ spent' \in [Sessions -> Nat]
      /\ spent'[s] = spent[s] + n /\ unseen'[s] = unseen[s] + m
      /\ \A t \in Sessions \ {s} : spent'[t] = spent[t] /\ unseen'[t] = unseen[t]
  <2>1. unseen' = IF known \/ n <= MaxTokens THEN unseen
                  ELSE [unseen EXCEPT ![s] = @ + (n - MaxTokens)]
    BY DEF Answer, Leave, Settle
  <2> HIDE DEF s
  <2>2. unseen[s] \in Nat /\ spent[s] \in Nat  BY <1>1, <1>7
  <2>3. CASE known \/ n <= MaxTokens
    <3>1. unseen' = unseen /\ m = 0  BY <2>1, <2>3
    <3>2. spent[s] + n \in Nat  BY <2>2, <1>2
    <3>3. QED  BY <3>1, <3>2, <2>2, <1>1, <1>5, <1>7
  <2>4. CASE ~(known \/ n <= MaxTokens)
    <3>1. unseen' = [unseen EXCEPT ![s] = @ + m]  BY <2>1, <2>4
    <3> HIDE DEF m
    <3>2. spent[s] + n \in Nat /\ unseen[s] + m \in Nat  BY <2>2, <1>2
    <3>3. QED  BY <3>1, <3>2, <1>1, <1>5, <1>7
  <2>5. QED  BY <2>3, <2>4
<1> HIDE DEF u, m
<1>9. r \in JobType /\ r.used = u /\ r.ns = job[j].ns /\ r.status = job[j].status
  BY <1>1, <1>2 DEF JobType
<1> HIDE DEF r
<1>10. SlackOf(phase[j], job[j].used) = MaxTokens  BY <1>6 DEF SlackOf
<1>11. PICK p \in {"answered", "refused", "settled"} : phase' = [phase EXCEPT ![j] = p]
  BY <1>6
<1>12. /\ Net' \in [Sessions -> Int]
       /\ \A t \in Sessions : Net'[t] = IF t = s THEN Net[t] + (n - m) ELSE Net[t]
  <2> DEFINE x == Excess * crashes
  <2>1. \A t \in Sessions : Net[t] = spent[t] - unseen[t] - x  BY <1>1, NetType
  <2>2. /\ Net' \in [Sessions -> Int]
        /\ \A t \in Sessions : Net'[t] = spent'[t] - unseen'[t] - x
    <3>1. /\ Net' = [t \in Sessions |-> spent'[t] - unseen'[t] - x]
      BY <1>5 DEF Net
    <3>2. x \in Nat  BY <1>1, ExcessType
    <3> HIDE DEF x
    <3>3. QED  BY <3>1, <3>2, <1>8
  <2>3. x \in Nat  BY <1>1, ExcessType
  <2> HIDE DEF x, s
  <2>4. \A t \in Sessions : spent[t] \in Nat /\ unseen[t] \in Nat  BY <1>1
  <2>5. QED  BY <2>1, <2>2, <2>3, <2>4, <1>2, <1>7, <1>8
<1>13. /\ QueueOK' /\ Jobs(phase', job') /\ MoneyOK' /\ NoIdlePermit'
       /\ \A i \in JobIds : /\ phase'[i] # "none" <=> phase[i] # "none"
                            /\ job'[i].ns = job[i].ns
  <2> DEFINE k == n - m
  <2>1. p \in {"answered", "refused", "leaving", "settled"}  OBVIOUS
  <2>2. k \in Int /\ k + SlackOf(p, r.used) <= SlackOf(phase[j], job[j].used)
    <3>1. SlackOf(p, u) = SlackOf("answered", u)  BY <1>4
    <3>2. QED  BY <3>1, <1>2, <1>3, <1>9, <1>10
  <2>3. phase[j] # "none" /\ phase[j] # "queued"  BY <1>6
  <2>4. \A t \in Sessions : Net'[t] = IF t = job[j].ns THEN Net[t] + k ELSE Net[t]  BY <1>12
  <2>5. Net' \in [Sessions -> Int] /\ UNCHANGED <<up, queue, microtask, usage, saved>>
    BY <1>5, <1>12
  <2> HIDE DEF k
  <2>6. QED  BY <2>1, <2>2, <2>3, <2>4, <2>5, <1>5, <1>9, <1>11, RunEffect
<1>14. \A i \in JobIds : job'[i].status = job[i].status  BY <1>1, <1>5, <1>9
<1>15. RowsOK'
  <2>1. building \in JobIds \cup {None}  BY DEF EnhancementInv, TypeOK
  <2>2. QED  BY <2>1, <1>5, <1>13, <1>14 DEF EnhancementInv, RowsOK
<1>16. TypeOK'
  BY <1>5, <1>8, <1>13 DEF EnhancementInv, TypeOK, Jobs, QueueOK, Fits, Phases, JobType, Statuses
<1>17. QED  BY <1>13, <1>15, <1>16 DEF EnhancementInv

\* The steps of run that charge nothing: the job gets a status, unless it was cancelled.
LEMMA UnchargedStep ==
  ASSUME EnhancementInv, NEW j \in JobIds, phase[j] # "none", phase[j] # "queued",
         NEW p \in {"leaving", "settled"}, p = "leaving" => phase[j] = "calling",
         NEW r \in JobType, r.ns = job[j].ns, r.used = job[j].used,
         job[j].status = "completed" => r.status = "completed",
         phase' = [phase EXCEPT ![j] = p], job' = [job EXCEPT ![j] = r],
         cached' \in [Sessions \X Sources -> JobIds \cup {None}],
         \A k \in Sessions \X Sources : cached'[k] = cached[k] \/ cached'[k] = j,
         UNCHANGED <<up, next, queue, microtask, usage, saved, row, older, building, spent, unseen,
                     crashes>>
  PROVE  EnhancementInv'
<1>1. job \in [JobIds -> JobType] /\ job[j] \in JobType /\ Net \in [Sessions -> Int]
  BY Types, NetType
<1>2. job[j].ns \in Sessions  BY DEF EnhancementInv, Jobs
<1>3. PICK n \in Nat : n = 0  OBVIOUS
<1>4. /\ Net' \in [Sessions -> Int]
      /\ \A t \in Sessions : Net'[t] = IF t = job[j].ns THEN Net[t] + n ELSE Net[t]
  <2>1. Net' = Net  BY DEF Net
  <2>2. QED  BY <2>1, <1>1, <1>3
<1>5. n + SlackOf(p, r.used) <= SlackOf(phase[j], job[j].used)
  <2>1. job[j].used \in (0..MaxCharge) \cup {None} /\ MaxTokens \in Nat
    BY <1>1, EnhancementAssumption DEF JobType
  <2>2. /\ SlackOf(p, job[j].used) \in Int /\ SlackOf(p, job[j].used) <= MaxTokens
        /\ SlackOf(phase[j], job[j].used) \in Int
    BY <2>1, SlackType
  <2>3. CASE p = "leaving"
    <3>1. SlackOf(phase[j], job[j].used) = MaxTokens  BY <2>3 DEF SlackOf
    <3>2. QED  BY <3>1, <2>1, <2>2, <1>3
  <2>4. CASE p = "settled"
    <3>1. \/ SlackOf(phase[j], job[j].used) = MaxTokens
          \/ SlackOf(phase[j], job[j].used) = SlackOf(p, job[j].used)
      BY <2>4 DEF SlackOf
    <3>2. QED  BY <3>1, <2>1, <2>2, <1>3
  <2>5. QED  BY <2>3, <2>4
<1>6. /\ QueueOK' /\ Jobs(phase', job') /\ MoneyOK' /\ NoIdlePermit'
      /\ \A i \in JobIds : /\ phase'[i] # "none" <=> phase[i] # "none"
                           /\ job'[i].ns = job[i].ns
  <2>1. p \in {"answered", "refused", "leaving", "settled"}  OBVIOUS
  <2>2. UNCHANGED <<up, queue, microtask, usage, saved>> /\ n \in Int  BY <1>3
  <2>3. QED  BY <2>1, <2>2, <1>4, <1>5, RunEffect
<1>7. \A i \in JobIds : job[i].status = "completed" => job'[i].status = "completed"
  BY <1>1
<1>8. RowsOK'
  <2>1. building \in JobIds \cup {None}  BY DEF EnhancementInv, TypeOK
  <2>2. j < next  BY DEF EnhancementInv, RowsOK
  <2>3. QED  BY <2>1, <2>2, <1>6, <1>7 DEF EnhancementInv, RowsOK
<1>9. TypeOK'
  BY <1>6 DEF EnhancementInv, TypeOK, Jobs, QueueOK, Fits, Phases, JobType, Statuses
<1>10. QED  BY <1>6, <1>8, <1>9 DEF EnhancementInv

\* A job whose time is up keeps the invariant.
LEMMA TimeoutStep ==
  ASSUME EnhancementInv, NEW j \in JobIds, Timeout(j)
  PROVE  EnhancementInv'
<1>1. phase[j] = "calling"  BY DEF Timeout
<1>2. job[j].status = "running"  BY <1>1 DEF EnhancementInv, Jobs
<1>3. cached' \in [Sessions \X Sources -> JobIds \cup {None}]  BY Types DEF Timeout
<1> DEFINE r == [job[j] EXCEPT !.status = "failed"]
<1>4. job \in [JobIds -> JobType] /\ job[j] \in JobType  BY Types
<1>5. r \in JobType /\ r.used = job[j].used /\ r.ns = job[j].ns  BY <1>4 DEF JobType, Statuses
<1>6. job' = [job EXCEPT ![j] = r]  BY <1>4 DEF Timeout
<1>7. /\ phase' = [phase EXCEPT ![j] = "leaving"] /\ cached' = cached
      /\ UNCHANGED <<up, next, queue, microtask, usage, saved, row, older, building, spent, unseen, crashes>>
  BY DEF Timeout
<1> HIDE DEF r
<1>8. "leaving" \in {"leaving", "settled"}  OBVIOUS
<1>9. QED  BY <1>1, <1>2, <1>3, <1>5, <1>6, <1>7, <1>8, UnchargedStep

\* A job whose answer is judged keeps the invariant.
LEMMA DecideStep ==
  ASSUME EnhancementInv, NEW j \in JobIds, NEW valid \in BOOLEAN, Decide(j, valid)
  PROVE  EnhancementInv'
<1> DEFINE live == job[j].status = "running"
           within == job[j].used = None \/ job[j].used <= MaxTokens
           good == live /\ phase[j] = "answered" /\ valid /\ within
           st == IF good THEN "completed" ELSE IF live THEN "failed" ELSE job[j].status
<1>1. phase[j] = "answered" \/ phase[j] = "refused"  BY DEF Decide
<1>2. job \in [JobIds -> JobType] /\ job[j] \in JobType
      /\ cached \in [Sessions \X Sources -> JobIds \cup {None}]
  BY Types
<1>3. job' = [job EXCEPT ![j].status = st]  BY <1>2 DEF Decide
<1>4. st \in Statuses /\ (job[j].status = "completed" => st = "completed")
  <2>1. job[j].status \in Statuses  BY <1>2 DEF JobType
  <2>2. CASE ~live  BY <2>1, <2>2
  <2>3. CASE good  BY <2>3 DEF Statuses
  <2>4. CASE live /\ ~good  BY <2>4 DEF Statuses
  <2>5. QED  BY <2>2, <2>3, <2>4
<1> HIDE DEF st
<1> DEFINE r == [job[j] EXCEPT !.status = st]
<1>5. /\ r \in JobType /\ r.used = job[j].used /\ r.ns = job[j].ns /\ r.status = st
      /\ job' = [job EXCEPT ![j] = r]
  BY <1>2, <1>3, <1>4 DEF JobType
<1> HIDE DEF r
<1>6. /\ cached' \in [Sessions \X Sources -> JobIds \cup {None}]
      /\ \A k \in Sessions \X Sources : cached'[k] = cached[k] \/ cached'[k] = j
  <2>1. CASE good
    <3>1. cached' = [cached EXCEPT ![<<job[j].ns, job[j].source>>] = j]  BY <2>1 DEF Decide
    <3>2. QED  BY <3>1, <1>2
  <2>2. CASE ~good
    <3>1. cached' = cached  BY <2>2 DEF Decide
    <3>2. QED  BY <3>1, <1>2
  <2>3. QED  BY <2>1, <2>2
<1>7. /\ phase' = [phase EXCEPT ![j] = "settled"]
      /\ UNCHANGED <<up, next, queue, microtask, usage, saved, row, older, building, spent, unseen, crashes>>
  BY DEF Decide
<1>8. "settled" \in {"leaving", "settled"} /\ phase[j] # "none" /\ phase[j] # "queued"  BY <1>1
<1>9. QED  BY <1>5, <1>4, <1>6, <1>7, <1>8, UnchargedStep

\* A pump keeps the invariant.
LEMMA PumpStep ==
  ASSUME EnhancementInv, Pump
  PROVE  EnhancementInv'
<1>1. /\ PumpWith(queue, phase, job) /\ microtask' = FALSE
      /\ UNCHANGED <<up, next, cached, usage, saved, row, older, building, spent, unseen, crashes>>
  BY DEF Pump
<1>2. Fits(queue, phase) /\ PermitsOK(phase) /\ Jobs(phase, job)
  BY DEF EnhancementInv, QueueOK
<1>3. /\ Fits(queue', phase') /\ PermitsOK(phase') /\ Busy(queue', phase') /\ Jobs(phase', job')
      /\ \A j \in JobIds :
           \/ phase'[j] = phase[j] /\ job'[j] = job[j]
           \/ /\ phase[j] = "queued" /\ phase'[j] = "calling"
              /\ job'[j].ns = job[j].ns /\ job'[j].used = job[j].used
  BY <1>1, <1>2, PumpEffect
<1>4. MoneyOK'
  <2>1. Covers(phase', job', usage, Net) /\ Within(phase', job', usage, Net, 0)
    BY <1>3, PumpCovers DEF EnhancementInv, MoneyOK
  <2>2. Covers(phase', job', saved, Net) /\ Within(phase', job', saved, Net, Slip)
    BY <1>3, PumpCovers DEF EnhancementInv, MoneyOK
  <2>3. Net' = Net /\ Slip' = Slip  BY <1>1 DEF Net, Slip
  <2>4. QED  BY <2>1, <2>2, <2>3, <1>1 DEF MoneyOK
<1>5. NoIdlePermit'  BY <1>3, NoIdleIf DEF NoIdlePermit, Running
<1>6. RowsOK'
  <2>1. building \in JobIds \cup {None}  BY DEF EnhancementInv, TypeOK
  <2>2. \A j \in JobIds : /\ phase'[j] # "none" => phase[j] # "none"
                          /\ job'[j].ns = job[j].ns
                          /\ job[j].status = "completed" => job'[j].status = "completed"
    BY <1>2, <1>3 DEF Jobs
  <2>3. QED  BY <2>1, <2>2, <1>1 DEF EnhancementInv, RowsOK
<1>7. TypeOK'
  <2>1. microtask' \in BOOLEAN  BY <1>1
  <2>2. QED
    BY <2>1, <1>1, <1>3 DEF EnhancementInv, TypeOK, Jobs, Fits, Phases, JobType, Statuses
<1>8. QED  BY <1>3, <1>4, <1>5, <1>6, <1>7 DEF EnhancementInv, QueueOK

\* Giving a permit back, with the pump that follows, keeps the invariant.
LEMMA ReleaseStep ==
  ASSUME EnhancementInv, NEW j \in JobIds, Release(j)
  PROVE  EnhancementInv'
<1> DEFINE s == job[j].ns
           cost == IF job[j].used = None THEN MaxTokens ELSE job[j].used
           r == [job[j] EXCEPT !.used = None]
           ph == [phase EXCEPT ![j] = "none"]
           jb == [job EXCEPT ![j] = r]
<1>1. /\ phase \in [JobIds -> Phases] /\ job \in [JobIds -> JobType] /\ job[j] \in JobType
      /\ usage \in [Sessions -> Int] /\ saved \in [Sessions -> Int]
      /\ Net \in [Sessions -> Int] /\ MaxTokens \in Nat /\ SessionTokens \in Nat
      /\ Excess \in Nat /\ MaxCharge = MaxTokens + Excess
  BY Types, NetType, ExcessType
<1>2. /\ phase[j] = "settled" /\ PumpWith(queue, ph, jb)
      /\ UNCHANGED <<up, next, microtask, cached, saved, row, older, building, spent, unseen, crashes>>
  BY <1>1 DEF Release
<1>3. s \in Sessions /\ Fits(queue, phase) /\ PermitsOK(phase) /\ Jobs(phase, job)
  BY <1>2 DEF EnhancementInv, Jobs, QueueOK
<1>4. cost \in 0..MaxCharge /\ SlackOf(phase[j], job[j].used) = MaxTokens - cost
  <2>1. job[j].used \in (0..MaxCharge) \cup {None}  BY <1>1 DEF JobType
  <2>2. QED  BY <2>1, <1>1, <1>2 DEF SlackOf
<1>5. usage' = [usage EXCEPT ![s] = @ + cost - MaxTokens]  BY DEF Release
<1>6. r \in JobType /\ r.ns = s /\ r.status = job[j].status  BY <1>1 DEF JobType
<1> HIDE DEF r
<1>7. /\ ph[j] = "none" /\ jb[j] = r
      /\ \A i \in JobIds \ {j} : ph[i] = phase[i] /\ jb[i] = job[i]
      /\ ph \in [JobIds -> Phases] /\ jb \in [JobIds -> JobType]
  BY <1>1, <1>6 DEF Phases
<1> HIDE DEF ph, jb
<1>8. Fits(queue, ph)
  <2>1. \A i \in JobIds : ph[i] = "queued" <=> phase[i] = "queued"  BY <1>2, <1>7
  <2>2. QED  BY <2>1, <1>3 DEF Fits
<1>9. PermitsOK(ph)
  <2>1. Holders(ph) \subseteq Holders(phase) /\ Holders(phase) \in SUBSET JobIds
    BY <1>7 DEF Holders
  <2>2. IsFiniteSet(Holders(phase)) /\ Cardinality(Holders(phase)) \in Nat
        /\ Cardinality(Holders(ph)) \in Nat
    BY <2>1, JobIdsFinite
  <2>3. Cardinality(Holders(ph)) <= Cardinality(Holders(phase))  BY <2>1, <2>2, FS_Subset
  <2>4. Permits \in Nat  BY EnhancementAssumption
  <2>5. QED  BY <2>2, <2>3, <2>4, <1>3 DEF PermitsOK
<1>10. Jobs(ph, jb)  BY <1>3, <1>6, <1>7 DEF Jobs
<1> HIDE DEF s, cost
<1>11. /\ usage' \in [Sessions -> Int] /\ usage'[s] = usage[s] + cost - MaxTokens
       /\ \A t \in Sessions \ {s} : usage'[t] = usage[t]
  <2>1. usage[s] + cost - MaxTokens \in Int  BY <1>1, <1>3, <1>4
  <2>2. QED  BY <2>1, <1>1, <1>3, <1>5
<1>12. /\ Net[s] <= usage'[s] + 0 /\ usage'[s] <= SessionTokens + Excess
       /\ Net[s] <= saved[s] + Slip /\ saved[s] <= SessionTokens + Excess
  <2>1. /\ Net[s] + SlackOf(phase[j], job[j].used) <= usage[s] /\ usage[s] <= SessionTokens
        /\ Net[s] + SlackOf(phase[j], job[j].used) <= saved[s] /\ saved[s] <= SessionTokens
    BY <1>2 DEF EnhancementInv, MoneyOK, Covers, s
  <2>2. usage[s] \in Int /\ saved[s] \in Int /\ Net[s] \in Int  BY <1>1, <1>3
  <2>3. Slip = Excess
    <3>1. phase[j] # "none"  BY <1>2
    <3>2. QED  BY <3>1 DEF EnhancementInv, RowsOK, Slip
  <2>4. Net[s] + (MaxTokens - cost) <= usage[s] /\ Net[s] + (MaxTokens - cost) <= saved[s]
    BY <2>1, <1>4
  <2>5. QED  BY <2>1, <2>2, <2>3, <2>4, <1>1, <1>4, <1>11
<1>13. \A i \in JobIds : ph[i] # "none" =>
         /\ phase[i] = ph[i] /\ jb[i] = job[i]
         /\ jb[i].ns # s /\ jb[i].ns \in Sessions
  BY <1>2, <1>3, <1>7 DEF Jobs, s
<1>14. /\ Covers(ph, jb, usage', Net) /\ Within(ph, jb, usage', Net, 0)
       /\ Covers(ph, jb, saved, Net) /\ Within(ph, jb, saved, Net, Slip)
  <2>1. \A i \in JobIds : ph[i] # "none" =>
          /\ Net[jb[i].ns] + SlackOf(ph[i], jb[i].used) <= usage[jb[i].ns]
          /\ usage[jb[i].ns] <= SessionTokens
          /\ Net[jb[i].ns] + SlackOf(ph[i], jb[i].used) <= saved[jb[i].ns]
          /\ saved[jb[i].ns] <= SessionTokens
    BY <1>13 DEF EnhancementInv, MoneyOK, Covers
  <2>2. Covers(ph, jb, usage', Net) /\ Covers(ph, jb, saved, Net)  BY <2>1, <1>11, <1>13 DEF Covers
  <2>3. \A t \in Sessions \ {s} : Rest(ph, jb, t) => Rest(phase, job, t)
    BY <1>7 DEF Rest, s
  <2>4. Within(phase, job, usage, Net, 0) /\ Within(phase, job, saved, Net, Slip)
    BY DEF EnhancementInv, MoneyOK
  <2>5. Within(ph, jb, usage', Net, 0)  BY <2>3, <2>4, <1>11, <1>12 DEF Within
  <2>6. Within(ph, jb, saved, Net, Slip)  BY <2>3, <2>4, <1>12 DEF Within
  <2>7. QED  BY <2>2, <2>5, <2>6
<1>15. /\ Fits(queue', phase') /\ PermitsOK(phase') /\ Busy(queue', phase') /\ Jobs(phase', job')
       /\ \A i \in JobIds :
            \/ phase'[i] = ph[i] /\ job'[i] = jb[i]
            \/ /\ ph[i] = "queued" /\ phase'[i] = "calling"
               /\ job'[i].ns = jb[i].ns /\ job'[i].used = jb[i].used
  BY <1>2, <1>8, <1>9, <1>10, PumpEffect
<1>16. MoneyOK'
  <2>1. Covers(phase', job', usage', Net) /\ Within(phase', job', usage', Net, 0)
    BY <1>14, <1>15, PumpCovers
  <2>2. Covers(phase', job', saved, Net) /\ Within(phase', job', saved, Net, Slip)
    BY <1>14, <1>15, PumpCovers
  <2>3. Net' = Net /\ Slip' = Slip  BY <1>2 DEF Net, Slip
  <2>4. QED  BY <2>1, <2>2, <2>3, <1>2 DEF MoneyOK
<1>17. NoIdlePermit'  BY <1>15, NoIdleIf DEF NoIdlePermit, Running
<1>18. RowsOK'
  <2>1. building \in JobIds \cup {None}  BY DEF EnhancementInv, TypeOK
  <2>2. \A i \in JobIds : /\ phase'[i] # "none" => phase[i] # "none"
                          /\ job'[i].ns = job[i].ns
                          /\ job[i].status = "completed" => job'[i].status = "completed"
    <3>1. TAKE i \in JobIds
    <3>2. ph[i] # "none" => phase[i] # "none"  BY <1>7
    <3>3. jb[i].ns = job[i].ns /\ jb[i].status = job[i].status  BY <1>6, <1>7 DEF s
    <3>4. ph[i] = "queued" => jb[i].status = "queued"  BY <1>10 DEF Jobs
    <3>5. QED  BY <3>2, <3>3, <3>4, <1>15
  <2>3. QED  BY <2>1, <2>2, <1>2 DEF EnhancementInv, RowsOK
<1>19. TypeOK'
  BY <1>2, <1>11, <1>15 DEF EnhancementInv, TypeOK, Jobs, Fits, Phases, JobType, Statuses
<1>20. QED  BY <1>15, <1>16, <1>17, <1>18, <1>19 DEF EnhancementInv, QueueOK

\* What an insert with its trim does to the rows.
LEMMA InsertEffect ==
  ASSUME EnhancementInv, NEW j \in JobIds, InsertRow(j)
  PROVE  /\ row' \in [JobIds -> {"none", "queued", "ready", "rejected"}]
         /\ older' \subseteq JobIds \X JobIds
         /\ \A i \in JobIds : row'[i] # "none" => row[i] # "none" \/ i = j
<1>1. row \in [JobIds -> {"none", "queued", "ready", "rejected"}] /\ older \subseteq JobIds \X JobIds
  BY Types
<1>2. row' = [k \in JobIds |-> CASE k \in Trimmed -> "none"
                                [] k = j /\ row[k] = "none" -> "queued"
                                [] OTHER -> row[k]]
  BY DEF InsertRow
<1>3. \A i \in JobIds : row'[i] = row[i] \/ row'[i] = "none" \/ (i = j /\ row'[i] = "queued")
  BY <1>2
<1>4. row' \in [JobIds -> {"none", "queued", "ready", "rejected"}]
  <2>1. \A i \in JobIds : row'[i] \in {"none", "queued", "ready", "rejected"}  BY <1>1, <1>3
  <2>2. QED  BY <2>1, <1>2
<1>5. older' \subseteq JobIds \X JobIds
  <2>1. Kept \subseteq JobIds  BY DEF Kept
  <2>2. older' = (older \cap (Kept \X Kept)) \cup (IF row[j] = "none" THEN Kept \X {j} ELSE {})
    BY DEF InsertRow
  <2>3. QED  BY <2>1, <2>2, <1>1
<1>6. QED  BY <1>3, <1>4, <1>5

\* A job that is submitted or refused keeps the invariant.
LEMMA PrepareStep ==
  ASSUME EnhancementInv, NEW ns \in Sessions, NEW source \in Sources, Prepare(ns, source)
  PROVE  EnhancementInv'
<1> DEFINE r == [ns |-> ns, source |-> source, status |-> "queued", used |-> None]
<1>1. /\ phase \in [JobIds -> Phases] /\ job \in [JobIds -> JobType]
      /\ usage \in [Sessions -> Int] /\ saved \in [Sessions -> Int]
      /\ Net \in [Sessions -> Int] /\ MaxTokens \in Nat /\ SessionTokens \in Nat
      /\ Excess \in Nat /\ Slip \in Nat
      /\ queue \in Seq(JobIds) /\ next \in Nat /\ JobIds \subseteq Nat
  BY Types, NetType, ExcessType DEF Slip
<1>2. /\ next \in JobIds /\ next' = next + 1
      /\ job' = [job EXCEPT ![next] = r] /\ phase' = [phase EXCEPT ![next] = "queued"]
      /\ queue' = Append(queue, next) /\ microtask' = TRUE
      /\ usage' = [usage EXCEPT ![ns] = @ + MaxTokens]
      /\ saved' = [saved EXCEPT ![ns] = usage[ns] + MaxTokens]
      /\ InsertRow(next) /\ up /\ building = None
      /\ UNCHANGED <<up, cached, building, spent, unseen, crashes>>
  BY DEF Prepare, Submit, Persist
<1>3. Active(ns) = {} /\ usage[ns] + MaxTokens <= SessionTokens
  BY DEF Prepare, Submit, Admits
<1>4. r \in JobType /\ r.ns = ns /\ r.status = "queued" /\ r.used = None
  BY DEF JobType, Statuses
<1> HIDE DEF r
<1>5. /\ phase'[next] = "queued" /\ job'[next] = r
      /\ \A i \in JobIds \ {next} : phase'[i] = phase[i] /\ job'[i] = job[i]
      /\ phase' \in [JobIds -> Phases] /\ job' \in [JobIds -> JobType]
  BY <1>1, <1>2, <1>4 DEF Phases
<1>6. phase[next] = "none" /\ Jobs(phase, job) /\ Fits(queue, phase)
  <2>1. ~(next < next)  BY <1>1
  <2>2. QED  BY <2>1, <1>2 DEF EnhancementInv, RowsOK, QueueOK
<1>7. \A i \in JobIds : phase[i] # "none" => job[i].ns # ns /\ i # next
  BY <1>3, <1>6 DEF Active, Pending
<1>8. Jobs(phase', job')
  <2>1. \A i \in JobIds : phase'[i] # "none" => job'[i].ns \in Sessions
    BY <1>4, <1>5, <1>6 DEF Jobs
  <2>2. \A i, k \in JobIds :
          (phase'[i] # "none" /\ phase'[k] # "none" /\ job'[i].ns = job'[k].ns) => i = k
    BY <1>4, <1>5, <1>6, <1>7 DEF Jobs
  <2>3. \A i \in JobIds : /\ phase'[i] = "queued" => job'[i].status = "queued"
                          /\ phase'[i] = "calling" => job'[i].status = "running"
    BY <1>4, <1>5, <1>6 DEF Jobs
  <2>4. QED  BY <2>1, <2>2, <2>3, <1>5 DEF Jobs
<1>9. QueueOK'
  <2>1. /\ queue' \in Seq(JobIds) /\ Len(queue') = Len(queue) + 1 /\ Len(queue) \in Nat
        /\ queue'[Len(queue) + 1] = next
        /\ \A i \in 1..Len(queue) : queue'[i] = queue[i]
    BY <1>1, <1>2
  <2>2. \A i \in 1..Len(queue) : queue[i] # next  BY <1>2, <1>6 DEF Fits
  <2>3. \A i, k \in 1..Len(queue') : queue'[i] = queue'[k] => i = k
    <3>1. TAKE i, k \in 1..Len(queue')
    <3>2. \A l \in 1..Len(queue') : l \in 1..Len(queue) \/ l = Len(queue) + 1  BY <2>1
    <3>3. QED  BY <3>2, <2>1, <2>2, <1>6 DEF Fits
  <2>4. \A j \in JobIds : phase'[j] = "queued" <=> \E i \in 1..Len(queue') : queue'[i] = j
    <3>1. TAKE j \in JobIds
    <3>2. (\E i \in 1..Len(queue') : queue'[i] = j)
            <=> (j = next \/ \E i \in 1..Len(queue) : queue[i] = j)
      <4>1. \A l \in 1..Len(queue') : l \in 1..Len(queue) \/ l = Len(queue) + 1  BY <2>1
      <4>2. \A l \in 1..Len(queue) : l \in 1..Len(queue')  BY <2>1
      <4>3. Len(queue) + 1 \in 1..Len(queue')  BY <2>1
      <4>4. QED  BY <4>1, <4>2, <4>3, <2>1
    <3>3. QED  BY <3>2, <1>5, <1>6 DEF Fits
  <2>5. Holders(phase') = Holders(phase)  BY <1>5, <1>6 DEF Holders
  <2>6. QED  BY <2>1, <2>3, <2>4, <2>5 DEF EnhancementInv, QueueOK, Fits, PermitsOK
<1>10. /\ usage' \in [Sessions -> Int] /\ saved' \in [Sessions -> Int]
       /\ usage'[ns] = usage[ns] + MaxTokens /\ saved'[ns] = usage[ns] + MaxTokens
       /\ \A t \in Sessions \ {ns} : usage'[t] = usage[t] /\ saved'[t] = saved[t]
  <2>1. usage[ns] + MaxTokens \in Int  BY <1>1
  <2>2. QED  BY <2>1, <1>1, <1>2
<1>11. MoneyOK'
  <2>1. Net' = Net /\ Slip' = Slip  BY <1>2 DEF Net, Slip
  <2>2. Rest(phase, job, ns)  BY <1>7 DEF Rest
  <2>3. Net[ns] <= usage[ns] + 0 /\ Net[ns] \in Int /\ usage[ns] \in Int
    BY <2>2, <1>1 DEF EnhancementInv, MoneyOK, Within
  <2>4. /\ Net[ns] + MaxTokens <= usage[ns] + MaxTokens
        /\ usage[ns] + MaxTokens <= SessionTokens + Excess
    BY <2>3, <1>1, <1>3
  <2>5. ~Rest(phase', job', ns)  BY <1>2, <1>4, <1>5 DEF Rest
  <2>6. \A t \in Sessions : Rest(phase', job', t) => Rest(phase, job, t)
    <3>1. \A i \in JobIds : phase[i] # "none" => phase'[i] # "none" /\ job'[i] = job[i]
      BY <1>5, <1>7
    <3>2. QED  BY <3>1 DEF Rest
  <2>7. Within(phase, job, usage, Net, 0) /\ Within(phase, job, saved, Net, Slip)
    BY DEF EnhancementInv, MoneyOK
  <2>8. Within(phase', job', usage', Net, 0)
    <3>1. SUFFICES ASSUME NEW t \in Sessions
                   PROVE  /\ usage'[t] <= SessionTokens + Excess
                          /\ Rest(phase', job', t) => Net[t] <= usage'[t] + 0
      BY DEF Within
    <3>2. CASE t = ns  BY <3>2, <2>4, <2>5, <1>10
    <3>3. CASE t # ns  BY <3>3, <2>6, <2>7, <1>10 DEF Within
    <3>4. QED  BY <3>2, <3>3
  <2>9. Within(phase', job', saved', Net, Slip)
    <3>1. SUFFICES ASSUME NEW t \in Sessions
                   PROVE  /\ saved'[t] <= SessionTokens + Excess
                          /\ Rest(phase', job', t) => Net[t] <= saved'[t] + Slip
      BY DEF Within
    <3>2. CASE t = ns  BY <3>2, <2>4, <2>5, <1>10
    <3>3. CASE t # ns  BY <3>3, <2>6, <2>7, <1>10 DEF Within
    <3>4. QED  BY <3>2, <3>3
  <2>10. ASSUME NEW i \in JobIds, phase'[i] # "none"
        PROVE  LET t == job'[i].ns
               IN /\ Net[t] + SlackOf(phase'[i], job'[i].used) <= usage'[t]
                  /\ usage'[t] <= SessionTokens
                  /\ Net[t] + SlackOf(phase'[i], job'[i].used) <= saved'[t]
                  /\ saved'[t] <= SessionTokens
    <3>1. CASE i = next
      <4>1. SlackOf(phase'[i], job'[i].used) = MaxTokens /\ job'[i].ns = ns
        BY <3>1, <1>4, <1>5 DEF SlackOf
      <4>2. QED  BY <4>1, <2>4, <1>3, <1>10
    <3>2. CASE i # next
      <4>1. phase'[i] = phase[i] /\ job'[i] = job[i] /\ phase[i] # "none"  BY <3>2, <2>10, <1>5
      <4>2. job[i].ns \in Sessions \ {ns}  BY <4>1, <1>6, <1>7 DEF Jobs
      <4>3. QED  BY <4>1, <4>2, <1>10 DEF EnhancementInv, MoneyOK, Covers
    <3>3. QED  BY <3>1, <3>2
  <2>11. Covers(phase', job', usage', Net) /\ Covers(phase', job', saved', Net)
    BY <2>10 DEF Covers
  <2>12. QED  BY <2>1, <2>8, <2>9, <2>11 DEF MoneyOK
<1>12. RowsOK'
  <2>1. \A i \in JobIds : i < next' <=> (i < next \/ i = next)  BY <1>1, <1>2
  <2>2. \A i \in JobIds : row'[i] # "none" => row[i] # "none" \/ i = next  BY <1>2, InsertEffect
  <2>3. \A i \in JobIds : (phase'[i] # "none" \/ row'[i] # "none") => i < next'
    BY <2>1, <2>2, <1>5 DEF EnhancementInv, RowsOK
  <2>4. \A i \in JobIds : i < next' => job'[i].ns \in Sessions
    BY <2>1, <1>4, <1>5 DEF EnhancementInv, RowsOK
  <2>5. \A k \in Sessions \X Sources : cached'[k] # None => cached'[k] < next'
    <3>1. TAKE k \in Sessions \X Sources
    <3>2. cached[k] \in JobIds \cup {None}  BY Types
    <3>3. QED  BY <3>2, <2>1, <1>2 DEF EnhancementInv, RowsOK
  <2>6. \A i \in JobIds : phase'[i] # "none" => up'  BY <1>2
  <2>7. QED  BY <2>3, <2>4, <2>5, <2>6, <1>2 DEF RowsOK
<1>13. NoIdlePermit'  BY <1>2 DEF NoIdlePermit
<1>14. TypeOK'
  <2>1. /\ row' \in [JobIds -> {"none", "queued", "ready", "rejected"}]
        /\ older' \subseteq JobIds \X JobIds
    BY <1>2, InsertEffect
  <2>2. next' \in Nat  BY <1>1, <1>2
  <2>3. microtask' \in BOOLEAN  BY <1>2
  <2>4. QED
    BY <2>1, <2>2, <2>3, <1>2, <1>8, <1>9, <1>10
    DEF EnhancementInv, TypeOK, Jobs, QueueOK, Fits, Phases, JobType, Statuses
<1>15. QED  BY <1>8, <1>9, <1>11, <1>12, <1>13, <1>14 DEF EnhancementInv

\* Saving the usage keeps the sessions covered.
LEMMA PersistKeeps ==
  ASSUME EnhancementInv, NEW ns \in Sessions, Persist(ns, usage[ns]),
         UNCHANGED <<up, job, phase, usage, spent, unseen, crashes>>
  PROVE  MoneyOK' /\ saved' \in [Sessions -> Int]
<1>1. /\ usage \in [Sessions -> Int] /\ saved \in [Sessions -> Int] /\ Net \in [Sessions -> Int]
      /\ Slip \in Nat
  BY Types, NetType, ExcessType DEF Slip
<1>2. /\ saved' \in [Sessions -> Int]
      /\ \A s \in Sessions : saved'[s] = IF s = ns THEN usage[s] ELSE saved[s]
  BY <1>1 DEF Persist
<1>3. Within(phase, job, saved', Net, Slip)
  <2>1. Within(phase, job, usage, Net, 0) /\ Within(phase, job, saved, Net, Slip)
    BY DEF EnhancementInv, MoneyOK
  <2>2. \A s \in Sessions : Rest(phase, job, s) => Net[s] <= usage[s] + Slip
    <3>1. \A s \in Sessions : Net[s] \in Int /\ usage[s] \in Int  BY <1>1
    <3>2. QED  BY <3>1, <2>1, <1>1 DEF Within
  <2>3. QED  BY <2>1, <2>2, <1>2 DEF Within
<1>4. Covers(phase, job, saved', Net)
  <2>1. \A j \in JobIds : phase[j] # "none" => job[j].ns \in Sessions
    BY DEF EnhancementInv, Jobs
  <2>2. QED  BY <2>1, <1>2 DEF EnhancementInv, MoneyOK, Covers
<1>5. Net' = Net /\ Slip' = Slip  BY DEF Net, Slip
<1>6. QED  BY <1>2, <1>3, <1>4, <1>5 DEF EnhancementInv, MoneyOK

\* Asking for a job that exists keeps the invariant.
LEMMA PrepareAgainStep ==
  ASSUME EnhancementInv, NEW ns \in Sessions, NEW source \in Sources, PrepareAgain(ns, source)
  PROVE  EnhancementInv'
<1>1. PICK j \in Existing(ns, source) : InsertRow(j)  BY DEF PrepareAgain
<1>2. /\ Persist(ns, usage[ns]) /\ building = None
      /\ UNCHANGED <<up, next, job, phase, queue, microtask, cached, usage, building, spent, unseen,
                     crashes>>
  BY DEF PrepareAgain
<1>3. cached \in [Sessions \X Sources -> JobIds \cup {None}]  BY Types
<1>4. j \in JobIds /\ j < next
  <2>1. CASE j \in {cached[<<ns, source>>]} \ {None}
    <3>1. <<ns, source>> \in Sessions \X Sources  OBVIOUS
    <3>2. QED  BY <3>1, <2>1, <1>3 DEF EnhancementInv, RowsOK
  <2>2. CASE j \in {i \in Active(ns) : job[i].source = source}
    BY <2>2 DEF Active, Pending, EnhancementInv, RowsOK
  <2>3. QED  BY <2>1, <2>2, <1>1 DEF Existing
<1>5. /\ row' \in [JobIds -> {"none", "queued", "ready", "rejected"}]
      /\ older' \subseteq JobIds \X JobIds
      /\ \A i \in JobIds : row'[i] # "none" => row[i] # "none" \/ i = j
  BY <1>1, <1>4, InsertEffect
<1>6. RowsOK'  BY <1>2, <1>4, <1>5 DEF EnhancementInv, RowsOK
<1>7. MoneyOK' /\ saved' \in [Sessions -> Int]  BY <1>2, PersistKeeps
<1>8. QueueOK' /\ Jobs(phase', job')  BY <1>2 DEF EnhancementInv, QueueOK
<1>9. NoIdlePermit'
  <2>1. Running' = Running  BY <1>2 DEF Running
  <2>2. QED  BY <2>1, <1>2 DEF EnhancementInv, NoIdlePermit
<1>10. TypeOK'  BY <1>2, <1>5, <1>7 DEF EnhancementInv, TypeOK
<1>11. QED  BY <1>6, <1>7, <1>8, <1>9, <1>10 DEF EnhancementInv

\* A cancel that marks rows of its session.
LEMMA CancelRows ==
  ASSUME EnhancementInv, NEW J \in SUBSET JobIds, NEW ns \in Sessions,
         \A j \in J : job[j].ns = ns,
         Cancel(J), Persist(ns, UsageAfterCancel(J)[ns]),
         row' \in [JobIds -> {"none", "queued", "ready", "rejected"}],
         \A i \in JobIds : row'[i] # "none" <=> row[i] # "none",
         \A i \in JobIds : row'[i] = row[i] \/ row'[i] = "rejected",
         building' = building \/ building' = None,
         UNCHANGED <<up, next, microtask, cached, older, spent, unseen, crashes>>
  PROVE  EnhancementInv'
<1>1. /\ QueueOK' /\ Jobs(phase', job') /\ MoneyOK' /\ NoIdlePermit'
      /\ usage' \in [Sessions -> Int] /\ saved' \in [Sessions -> Int]
      /\ \A j \in JobIds :
           /\ phase'[j] # "none" => phase[j] # "none"
           /\ job'[j].ns = job[j].ns
           /\ job[j].status = "completed" => job'[j].status = "completed"
  <2>1. UNCHANGED <<up, microtask, spent, unseen, crashes>>  OBVIOUS
  <2>2. QED  BY <2>1, CancelStep
<1>2. building \in JobIds \cup {None}  BY DEF EnhancementInv, TypeOK
<1>3. RowsOK'
  <2>1. /\ \A j \in JobIds : (phase'[j] # "none" \/ row'[j] # "none") => j < next'
        /\ \A j \in JobIds : j < next' => job'[j].ns \in Sessions
        /\ \A k \in Sessions \X Sources : cached'[k] # None => cached'[k] < next'
        /\ \A j \in JobIds : phase'[j] # "none" => up'
    BY <1>1 DEF EnhancementInv, RowsOK
  <2>2. building' # None => /\ job'[building'].status = "completed"
                            /\ row'[building'] \in {"queued", "rejected"}
    BY <1>1, <1>2 DEF EnhancementInv, RowsOK
  <2>3. QED  BY <2>1, <2>2 DEF RowsOK
<1>4. TypeOK'
  BY <1>1, <1>2 DEF EnhancementInv, TypeOK, Jobs, QueueOK, Fits, Phases, JobType, Statuses
<1>5. QED  BY <1>1, <1>3, <1>4 DEF EnhancementInv

\* Rejecting a row, with the cancellation of its job, keeps the invariant.
LEMMA RejectStep ==
  ASSUME EnhancementInv, NEW j \in JobIds, row[j] # "none", RejectEffects(j),
         building' = building \/ building' = None,
         UNCHANGED <<up, next, microtask, cached, spent, unseen, crashes>>
  PROVE  EnhancementInv'
<1>1. job[j].ns \in Sessions  BY DEF EnhancementInv, RowsOK
<1>2. row \in [JobIds -> {"none", "queued", "ready", "rejected"}]  BY Types
<1>3. /\ row' \in [JobIds -> {"none", "queued", "ready", "rejected"}] /\ older' = older
      /\ \A i \in JobIds : row'[i] # "none" <=> row[i] # "none"
      /\ \A i \in JobIds : row'[i] = row[i] \/ row'[i] = "rejected"
  BY <1>2 DEF RejectEffects, UpdateRow
<1>4. Cancel({j}) /\ Persist(job[j].ns, UsageAfterCancel({j})[job[j].ns])  BY DEF RejectEffects
<1>5. {j} \in SUBSET JobIds /\ \A i \in {j} : job[i].ns = job[j].ns  OBVIOUS
<1>6. QED  BY <1>1, <1>3, <1>4, <1>5, CancelRows

\* Invalidating the rows of a session keeps the invariant.
LEMMA InvalidateStep ==
  ASSUME EnhancementInv, NEW ns \in Sessions, Invalidate(ns)
  PROVE  EnhancementInv'
<1> DEFINE J == {j \in JobIds : job[j].ns = ns /\ row[j] = "queued"}
<1>1. row \in [JobIds -> {"none", "queued", "ready", "rejected"}]  BY Types
<1>2. /\ row' \in [JobIds -> {"none", "queued", "ready", "rejected"}] /\ older' = older
      /\ \A i \in JobIds : row'[i] # "none" <=> row[i] # "none"
      /\ \A i \in JobIds : row'[i] = row[i] \/ row'[i] = "rejected"
  BY <1>1 DEF Invalidate, RejectSession
<1>3. Cancel(J) /\ Persist(ns, UsageAfterCancel(J)[ns])  BY DEF Invalidate
<1>4. J \in SUBSET JobIds /\ \A i \in J : job[i].ns = ns  OBVIOUS
<1>5. /\ building' = building
      /\ UNCHANGED <<up, next, microtask, cached, spent, unseen, crashes>>
  BY DEF Invalidate
<1> HIDE DEF J
<1>6. QED  BY <1>2, <1>3, <1>4, <1>5, CancelRows

\* Asking for a candidate keeps the invariant.
LEMMA AskStep ==
  ASSUME EnhancementInv, NEW j \in JobIds, NEW same \in BOOLEAN, AskCandidate(j, same)
  PROVE  EnhancementInv'
<1>1. /\ row[j] # "none" /\ building = None
      /\ UNCHANGED <<up, next, microtask, cached, spent, unseen, crashes>>
  BY DEF AskCandidate
<1>2. CASE RejectEffects(j) /\ UNCHANGED building  BY <1>1, <1>2, RejectStep
<1>3. CASE /\ Persist(job[j].ns, usage[job[j].ns])
           /\ building' = IF job[j].status = "completed" THEN j ELSE None
           /\ row[j] = "queued" /\ UNCHANGED <<job, phase, queue, usage, row, older>>
  <2>1. job[j].ns \in Sessions  BY <1>1 DEF EnhancementInv, RowsOK
  <2>2. MoneyOK' /\ saved' \in [Sessions -> Int]  BY <2>1, <1>1, <1>3, PersistKeeps
  <2>3. QueueOK' /\ Jobs(phase', job')  BY <1>3 DEF EnhancementInv, QueueOK
  <2>4. NoIdlePermit'
    <3>1. Running' = Running  BY <1>3 DEF Running
    <3>2. QED  BY <3>1, <1>1, <1>3 DEF EnhancementInv, NoIdlePermit
  <2>5. RowsOK'  BY <1>1, <1>3 DEF EnhancementInv, RowsOK
  <2>6. TypeOK'  BY <2>2, <1>1, <1>3 DEF EnhancementInv, TypeOK
  <2>7. QED  BY <2>2, <2>3, <2>4, <2>5, <2>6 DEF EnhancementInv
<1>4. QED  BY <1>2, <1>3 DEF AskCandidate

\* A candidate that is built keeps the invariant.
LEMMA FinishStep ==
  ASSUME EnhancementInv, NEW better \in BOOLEAN, FinishCandidate(better)
  PROVE  EnhancementInv'
<1>1. /\ building \in JobIds /\ row[building] # "none" /\ building' = None
      /\ UNCHANGED <<up, next, microtask, cached, spent, unseen, crashes>>
  BY DEF FinishCandidate, EnhancementInv, TypeOK, RowsOK
<1>2. CASE RejectEffects(building)  BY <1>1, <1>2, RejectStep
<1>3. CASE UpdateRow(building, "ready") /\ UNCHANGED <<job, phase, queue, usage, saved>>
  <2>1. row \in [JobIds -> {"none", "queued", "ready", "rejected"}]  BY Types
  <2>2. /\ row' \in [JobIds -> {"none", "queued", "ready", "rejected"}] /\ older' = older
        /\ \A i \in JobIds : row'[i] # "none" <=> row[i] # "none"
    BY <2>1, <1>1, <1>3 DEF UpdateRow
  <2>3. QueueOK' /\ Jobs(phase', job') /\ MoneyOK'
    BY <1>1, <1>3 DEF EnhancementInv, QueueOK, MoneyOK, Net, Slip
  <2>4. NoIdlePermit'
    <3>1. Running' = Running  BY <1>3 DEF Running
    <3>2. QED  BY <3>1, <1>1, <1>3 DEF EnhancementInv, NoIdlePermit
  <2>5. RowsOK'  BY <2>2, <1>1, <1>3 DEF EnhancementInv, RowsOK
  <2>6. TypeOK'  BY <2>2, <1>1, <1>3 DEF EnhancementInv, TypeOK
  <2>7. QED  BY <2>3, <2>4, <2>5, <2>6 DEF EnhancementInv
<1>4. QED  BY <1>2, <1>3 DEF FinishCandidate

-----------------------------------------------------------------------------
(* The daemon's life *)

\* A session has at most one open call.
LEMMA OneOpen ==
  ASSUME EnhancementInv, NEW s \in Sessions
  PROVE  /\ OpenCalls(s) = 0 \/ OpenCalls(s) = 1
         /\ OpenCalls(s) = 1 => \E j \in JobIds : phase[j] \in {"calling", "leaving"} /\ job[j].ns = s
<1> DEFINE C == {j \in Calling : job[j].ns = s}
<1>1. C \in SUBSET JobIds  BY DEF Calling
<1>2. \A i, j \in C : i = j  BY <1>1 DEF EnhancementInv, Jobs, Calling
<1>3. OpenCalls(s) = Cardinality(C)  BY DEF OpenCalls
<1>4. CASE C = {}  BY <1>1, <1>2, <1>3, <1>4, AtMostOne
<1>5. CASE C # {}
  <2>1. OpenCalls(s) = 1  BY <1>1, <1>2, <1>3, <1>5, AtMostOne
  <2>2. QED  BY <2>1, <1>5 DEF Calling
<1>6. QED  BY <1>4, <1>5

\* What the end of a daemon may leave uncovered: a call that is open or settled costs its
\* reservation and its excess at most, one that is queued nothing; the usage in memory covers
\* the rest, after a dispose, too, and so does the one in meta.db, up to the excess of one call.
LEMMA EndCovered ==
  ASSUME EnhancementInv, NEW s \in Sessions, NEW c \in Nat, c <= MaxCharge * OpenCalls(s)
  PROVE  /\ Net[s] + c - Excess <= usage[s] /\ usage[s] <= SessionTokens + Excess
         /\ up => Net[s] + c - Excess <= saved[s]
         /\ saved[s] <= SessionTokens + Excess
         /\ Net[s] + c - Excess <= UsageAfterCancel(JobIds)[s]
         /\ (~\E j \in Running : job[j].ns = s) => Net[s] + c <= UsageAfterCancel(JobIds)[s]
         /\ UsageAfterCancel(JobIds)[s] <= SessionTokens + Excess
<1> DEFINE us == UsageAfterCancel(JobIds)
<1>1. /\ usage[s] \in Int /\ saved[s] \in Int /\ Net[s] \in Int /\ MaxTokens \in Nat
      /\ Excess \in Nat /\ SessionTokens \in Nat /\ MaxCharge = MaxTokens + Excess
  BY Types, NetType, ExcessType
<1>2. /\ Within(phase, job, usage, Net, 0) /\ Covers(phase, job, usage, Net)
      /\ Within(phase, job, saved, Net, Slip) /\ Covers(phase, job, saved, Net)
  BY DEF EnhancementInv, MoneyOK
<1>3. us \in [Sessions -> Int] /\ us[s] \in Int /\ us[s] <= SessionTokens + Excess
  BY RefundWithin DEF Within
<1>4. usage[s] <= SessionTokens + Excess /\ saved[s] <= SessionTokens + Excess  BY <1>2 DEF Within
<1> HIDE DEF us
<1>5. CASE OpenCalls(s) = 1
  <2>1. PICK j \in JobIds : phase[j] \in {"calling", "leaving"} /\ job[j].ns = s
    BY <1>5, OneOpen
  <2>2. SlackOf(phase[j], job[j].used) = MaxTokens  BY <2>1 DEF SlackOf
  <2>3. Net[s] + MaxTokens <= usage[s] /\ Net[s] + MaxTokens <= saved[s]
    BY <2>1, <2>2, <1>2 DEF Covers
  <2>4. us[s] = usage[s]
    <3>1. ~\E i \in Cancelled(JobIds) : job[i].ns = s /\ phase[i] = "queued"
      BY <2>1 DEF Cancelled, EnhancementInv, Jobs
    <3>2. QED  BY <3>1, Refund DEF us
  <2>5. c <= MaxTokens + Excess  BY <1>1, <1>5
  <2>6. j \in Running  BY <2>1 DEF Running
  <2>7. QED  BY <2>1, <2>3, <2>4, <2>5, <2>6, <1>1, <1>3, <1>4 DEF us
<1>6. CASE OpenCalls(s) = 0
  <2>1. c = 0  BY <1>1, <1>6
  <2>2. CASE Rest(phase, job, s)
    <3>1. us[s] = usage[s]
      <4>1. ~\E i \in Cancelled(JobIds) : job[i].ns = s /\ phase[i] = "queued"
        BY <2>2 DEF Cancelled, Rest
      <4>2. QED  BY <4>1, Refund DEF us
    <3>2. Net[s] <= usage[s] + 0 /\ Net[s] <= saved[s] + Slip  BY <2>2, <1>2 DEF Within
    <3>3. Net[s] + c <= us[s] /\ Net[s] + c - Excess <= usage[s] /\ Net[s] + c - Excess <= us[s]
      BY <3>1, <3>2, <2>1, <1>1
    <3>4. up => Net[s] + c - Excess <= saved[s]
      <4>1. up => Net[s] <= saved[s] + Excess  BY <3>2 DEF Slip
      <4>2. QED  BY <4>1, <2>1, <1>1
    <3>5. QED  BY <3>3, <3>4, <1>3, <1>4 DEF us
  <2>3. CASE ~Rest(phase, job, s)
    <3>1. PICK j \in JobIds : phase[j] # "none" /\ job[j].ns = s  BY <2>3 DEF Rest
    <3>2. SlackOf(phase[j], job[j].used) \in Int /\ 0 - Excess <= SlackOf(phase[j], job[j].used)
      <4>1. job[j].used \in (0..MaxCharge) \cup {None}  BY Types DEF JobType
      <4>2. QED  BY <4>1, SlackType
    <3>3. /\ Net[s] + SlackOf(phase[j], job[j].used) <= usage[s]
          /\ Net[s] + SlackOf(phase[j], job[j].used) <= saved[s]
      BY <3>1, <1>2 DEF Covers
    <3>4. Net[s] + c - Excess <= usage[s] /\ Net[s] + c - Excess <= saved[s]
      <4> DEFINE k == SlackOf(phase[j], job[j].used)
      <4>1. k \in Int /\ 0 - Excess <= k /\ Net[s] + k <= usage[s] /\ Net[s] + k <= saved[s]
        BY <3>2, <3>3
      <4> HIDE DEF k
      <4>2. QED  BY <4>1, <2>1, <1>1
    <3>5. CASE phase[j] = "queued"
      <4>1. Net[s] + MaxTokens <= usage[s]
        <5>1. SlackOf(phase[j], job[j].used) = MaxTokens  BY <3>5 DEF SlackOf
        <5>2. QED  BY <5>1, <3>3
      <4>2. us[s] = usage[s] \/ us[s] = usage[s] - MaxTokens  BY Refund DEF us
      <4>3. Net[s] + c <= us[s] /\ Net[s] + c - Excess <= us[s]  BY <4>1, <4>2, <2>1, <1>1
      <4>4. QED  BY <4>3, <3>4, <1>3, <1>4 DEF us
    <3>6. CASE phase[j] # "queued"
      <4>1. j \in Running  BY <3>1, <3>6 DEF Running
      <4>2. us[s] = usage[s]
        <5>1. ~\E i \in Cancelled(JobIds) : job[i].ns = s /\ phase[i] = "queued"
          BY <3>1, <3>6 DEF Cancelled, EnhancementInv, Jobs
        <5>2. QED  BY <5>1, Refund DEF us
      <4>3. QED  BY <4>1, <4>2, <3>1, <3>4, <1>3, <1>4 DEF us
    <3>7. QED  BY <3>5, <3>6
  <2>4. QED  BY <2>2, <2>3
<1>7. QED  BY <1>5, <1>6, OneOpen

\* A manager that is gone: no job is pending, and its open calls are charged.
LEMMA GoneStep ==
  ASSUME EnhancementInv, Gone, UNCHANGED <<next, row, older>>, crashes' \in Nat,
         usage' \in [Sessions -> Int], saved' \in [Sessions -> Int],
         spent' \in [Sessions -> Nat], unseen' \in [Sessions -> Nat],
         \A s \in Sessions :
           /\ Net'[s] <= usage'[s] + 0 /\ usage'[s] <= SessionTokens + Excess
           /\ Net'[s] <= saved'[s] + 0 /\ saved'[s] <= SessionTokens + Excess
  PROVE  EnhancementInv'
<1>2. /\ up' = FALSE /\ building' = None /\ microtask' = FALSE /\ queue' = <<>>
      /\ phase' = [j \in JobIds |-> "none"]
      /\ cached' = [s \in Sessions \X Sources |-> None]
      /\ job' = [j \in JobIds |-> [job[j] EXCEPT !.status = "none", !.used = None]]
  BY DEF Gone
<1>3. job \in [JobIds -> JobType]  BY Types
<1>4. \A j \in JobIds : job'[j] \in JobType /\ job'[j].ns = job[j].ns
  <2>1. TAKE j \in JobIds
  <2> DEFINE r == [job[j] EXCEPT !.status = "none", !.used = None]
  <2>2. job[j] \in JobType  BY <1>3
  <2>3. r \in JobType /\ r.ns = job[j].ns  BY <2>2 DEF JobType, Statuses
  <2>4. job'[j] = r  BY <1>2
  <2> HIDE DEF r
  <2>5. QED  BY <2>3, <2>4
<1>5. Jobs(phase', job')
  <2>1. job' \in [JobIds -> JobType]
    <3>1. job' = [j \in JobIds |-> job'[j]]  BY <1>2
    <3>2. QED  BY <3>1, <1>4
  <2>2. phase' \in [JobIds -> Phases] /\ \A j \in JobIds : phase'[j] = "none"
    BY <1>2 DEF Phases
  <2>3. QED  BY <2>1, <2>2 DEF Jobs
<1>6. QueueOK'
  <2>1. Holders(phase') = {}  BY <1>2 DEF Holders
  <2>2. PermitsOK(phase')  BY <2>1, FS_EmptySet, EnhancementAssumption DEF PermitsOK
  <2>3. Fits(queue', phase')
    <3>1. queue' \in Seq(JobIds) /\ Len(queue') = 0
      <4>1. queue' = <<>>  BY <1>2
      <4>2. QED  BY <4>1
    <3>2. \A j \in JobIds : phase'[j] # "queued"  BY <1>2
    <3>3. 1..Len(queue') = {}  BY <3>1
    <3>4. QED  BY <3>1, <3>2, <3>3 DEF Fits
  <2>4. QED  BY <2>2, <2>3 DEF QueueOK
<1>7. MoneyOK'
  <2>1. Slip' = 0  BY <1>2 DEF Slip
  <2>2. Within(phase', job', usage', Net', 0) /\ Within(phase', job', saved', Net', 0)
    BY DEF Within
  <2>3. Covers(phase', job', usage', Net') /\ Covers(phase', job', saved', Net')
    BY <1>2 DEF Covers
  <2>4. QED  BY <2>1, <2>2, <2>3 DEF MoneyOK
<1>8. RowsOK'  BY <1>2, <1>4 DEF EnhancementInv, RowsOK
<1>9. NoIdlePermit'  BY <1>2 DEF NoIdlePermit
<1>10. TypeOK'
  <2>1. up' \in BOOLEAN /\ microtask' \in BOOLEAN /\ building' \in JobIds \cup {None}
    BY <1>2
  <2>2. cached' \in [Sessions \X Sources -> JobIds \cup {None}]  BY <1>2
  <2>3. QED
    BY <2>1, <2>2, <1>5, <1>6
    DEF EnhancementInv, TypeOK, Jobs, QueueOK, Fits, Phases, JobType, Statuses
<1>11. QED  BY <1>5, <1>6, <1>7, <1>8, <1>9, <1>10 DEF EnhancementInv

\* What the calls that were open at a daemon's end are charged.
LEMMA GoneCharges ==
  ASSUME EnhancementInv, Gone
  PROVE  \E c \in [Sessions -> Nat] :
           /\ spent' = [s \in Sessions |-> spent[s] + c[s]] /\ spent' \in [Sessions -> Nat]
           /\ \A s \in Sessions : c[s] <= MaxCharge * OpenCalls(s)
<1>1. PICK c \in [Sessions -> 0..(MaxCharge * Permits)] :
        /\ \A s \in Sessions : c[s] <= MaxCharge * OpenCalls(s)
        /\ spent' = [s \in Sessions |-> spent[s] + c[s]]
  BY DEF Gone
<1>2. \A s \in Sessions : c[s] \in Nat /\ spent[s] \in Nat
  <2>1. \A s \in Sessions : c[s] \in 0..(MaxCharge * Permits)  BY <1>1
  <2>2. spent \in [Sessions -> Nat]  BY Types
  <2>3. QED  BY <2>1, <2>2
<1>3. c \in [Sessions -> Nat]  BY <1>1, <1>2
<1>4. spent' \in [Sessions -> Nat]  BY <1>1, <1>2
<1>5. QED  BY <1>1, <1>3, <1>4

\* Closing the coordinator keeps the invariant.
LEMMA CloseStep ==
  ASSUME EnhancementInv, Close
  PROVE  EnhancementInv'
<1> DEFINE us == UsageAfterCancel(JobIds)
           m == [s \in Sessions |-> IF \E j \in Running : job[j].ns = s THEN Excess ELSE 0]
<1>1. /\ Gone /\ usage' = us /\ saved' = us /\ UNCHANGED <<next, row, older>> /\ crashes' = crashes
      /\ unseen' = [s \in Sessions |-> unseen[s] + m[s]]
  BY DEF Close
<1>2. us \in [Sessions -> Int]  BY RefundWithin
<1>3. PICK c \in [Sessions -> Nat] :
        /\ spent' = [s \in Sessions |-> spent[s] + c[s]] /\ spent' \in [Sessions -> Nat]
        /\ \A s \in Sessions : c[s] <= MaxCharge * OpenCalls(s)
  BY <1>1, GoneCharges
<1>4. /\ spent \in [Sessions -> Nat] /\ unseen \in [Sessions -> Nat] /\ crashes \in Nat
      /\ Net \in [Sessions -> Int] /\ Excess \in Nat
  BY Types, NetType, ExcessType
<1>5. \A s \in Sessions : m[s] \in Nat /\ m[s] = IF \E j \in Running : job[j].ns = s THEN Excess ELSE 0
  BY <1>4
<1> HIDE DEF us, m
<1>6. unseen' \in [Sessions -> Nat]
  <2>1. \A s \in Sessions : unseen[s] + m[s] \in Nat  BY <1>4, <1>5
  <2>2. QED  BY <2>1, <1>1
<1>7. ASSUME NEW s \in Sessions
      PROVE  Net'[s] <= us[s] + 0 /\ us[s] <= SessionTokens + Excess
  <2>1. Net'[s] = Net[s] + c[s] - m[s]
    <3> DEFINE x == Excess * crashes
    <3>1. Net[s] = spent[s] - unseen[s] - x /\ x \in Nat  BY <1>4, NetType
    <3>2. Net'[s] = spent'[s] - unseen'[s] - x  BY <1>1 DEF Net
    <3> HIDE DEF x
    <3>3. spent'[s] = spent[s] + c[s] /\ unseen'[s] = unseen[s] + m[s]  BY <1>1, <1>3
    <3>4. spent[s] \in Nat /\ unseen[s] \in Nat /\ c[s] \in Nat /\ m[s] \in Nat  BY <1>3, <1>4, <1>5
    <3>5. QED  BY <3>1, <3>2, <3>3, <3>4
  <2>2. c[s] \in Nat /\ c[s] <= MaxCharge * OpenCalls(s)  BY <1>3
  <2>3. /\ Net[s] + c[s] - Excess <= us[s] /\ us[s] <= SessionTokens + Excess
        /\ (~\E j \in Running : job[j].ns = s) => Net[s] + c[s] <= us[s]
    BY <2>2, EndCovered DEF us
  <2>4. Net[s] \in Int /\ us[s] \in Int  BY <1>2, <1>4
  <2>5. CASE \E j \in Running : job[j].ns = s
    <3>1. m[s] = Excess  BY <2>5, <1>5
    <3>2. QED  BY <3>1, <2>1, <2>2, <2>3, <2>4, <1>4
  <2>6. CASE ~\E j \in Running : job[j].ns = s
    <3>1. m[s] = 0  BY <2>6, <1>5
    <3>2. QED  BY <3>1, <2>1, <2>2, <2>3, <2>4, <2>6, <1>4
  <2>7. QED  BY <2>5, <2>6
<1>8. crashes' \in Nat  BY <1>1, <1>4
<1>9. QED  BY <1>1, <1>2, <1>3, <1>6, <1>7, <1>8, GoneStep

\* A crash keeps the invariant: the saved row covers what was spent, but for the excess of
\* one call.
LEMMA CrashStep ==
  ASSUME EnhancementInv, Crash
  PROVE  EnhancementInv'
<1>1. /\ Gone /\ up /\ usage' = usage /\ saved' = saved /\ UNCHANGED <<next, row, older>>
      /\ unseen' = unseen /\ crashes' = crashes + 1
  BY DEF Crash, Gone
<1>2. /\ usage \in [Sessions -> Int] /\ saved \in [Sessions -> Int]
      /\ spent \in [Sessions -> Nat] /\ unseen \in [Sessions -> Nat] /\ crashes \in Nat
      /\ Net \in [Sessions -> Int] /\ Excess \in Nat
  BY Types, NetType, ExcessType
<1>3. PICK c \in [Sessions -> Nat] :
        /\ spent' = [s \in Sessions |-> spent[s] + c[s]] /\ spent' \in [Sessions -> Nat]
        /\ \A s \in Sessions : c[s] <= MaxCharge * OpenCalls(s)
  BY <1>1, GoneCharges
<1>4. ASSUME NEW s \in Sessions
      PROVE  /\ Net'[s] <= usage[s] + 0 /\ usage[s] <= SessionTokens + Excess
             /\ Net'[s] <= saved[s] + 0 /\ saved[s] <= SessionTokens + Excess
  <2>1. Net'[s] = Net[s] + c[s] - Excess
    <3> DEFINE x == Excess * crashes
               y == Excess * (crashes + 1)
    <3>1. Net[s] = spent[s] - unseen[s] - x /\ x \in Nat  BY <1>2, NetType
    <3>2. Net'[s] = spent'[s] - unseen[s] - y  BY <1>1 DEF Net
    <3>3. y = x + Excess  BY <1>2
    <3> HIDE DEF x, y
    <3>4. spent'[s] = spent[s] + c[s]  BY <1>3
    <3>5. spent[s] \in Nat /\ unseen[s] \in Nat /\ c[s] \in Nat  BY <1>2, <1>3
    <3>6. QED  BY <3>1, <3>2, <3>3, <3>4, <3>5, <1>2
  <2>2. c[s] \in Nat /\ c[s] <= MaxCharge * OpenCalls(s)  BY <1>3
  <2>3. /\ Net[s] + c[s] - Excess <= usage[s] /\ usage[s] <= SessionTokens + Excess
        /\ Net[s] + c[s] - Excess <= saved[s] /\ saved[s] <= SessionTokens + Excess
    BY <2>2, <1>1, EndCovered
  <2>4. usage[s] \in Int /\ saved[s] \in Int /\ Net[s] \in Int /\ c[s] \in Nat  BY <1>2, <2>2
  <2>5. QED  BY <2>1, <2>3, <2>4, <1>2
<1>5. crashes' \in Nat  BY <1>1, <1>2
<1>6. QED  BY <1>1, <1>2, <1>3, <1>4, <1>5, GoneStep

\* A start keeps the invariant.
LEMMA StartStep ==
  ASSUME EnhancementInv, Start
  PROVE  EnhancementInv'
<1>1. /\ up' = TRUE /\ usage' = saved
      /\ row' = [j \in JobIds |-> IF row[j] = "queued" THEN "rejected" ELSE row[j]]
      /\ ~up /\ UNCHANGED <<next, job, phase, queue, microtask, cached, saved, older, building, spent,
                             unseen, crashes>>
  BY DEF Start, RestoreUsage
<1>2. row \in [JobIds -> {"none", "queued", "ready", "rejected"}]  BY Types
<1>3. /\ row' \in [JobIds -> {"none", "queued", "ready", "rejected"}]
      /\ \A i \in JobIds : row'[i] # "none" <=> row[i] # "none"
      /\ \A i \in JobIds : row'[i] = row[i] \/ row'[i] = "rejected"
  BY <1>1, <1>2
<1>4. QueueOK' /\ Jobs(phase', job') /\ MoneyOK'
  <2>1. QueueOK' /\ Jobs(phase', job')  BY <1>1 DEF EnhancementInv, QueueOK
  <2>2. Net' = Net /\ Slip = 0 /\ Slip' = Excess /\ Excess \in Nat
    BY <1>1, ExcessType DEF Net, Slip
  <2>3. Within(phase, job, saved, Net, 0) /\ Covers(phase, job, saved, Net)
    BY <2>2 DEF EnhancementInv, MoneyOK
  <2>4. Within(phase, job, saved, Net, Excess)
    <3>1. \A s \in Sessions : saved[s] \in Int /\ Net[s] \in Int  BY Types, NetType
    <3>2. QED  BY <3>1, <2>2, <2>3 DEF Within
  <2>5. QED  BY <2>1, <2>2, <2>3, <2>4, <1>1 DEF MoneyOK
<1>5. RowsOK'
  <2>1. building \in JobIds \cup {None}  BY DEF EnhancementInv, TypeOK
  <2>2. QED  BY <2>1, <1>1, <1>3 DEF EnhancementInv, RowsOK
<1>6. NoIdlePermit'
  <2>1. Running' = Running  BY <1>1 DEF Running
  <2>2. QED  BY <2>1, <1>1 DEF EnhancementInv, NoIdlePermit
<1>7. TypeOK'
  <2>1. up' \in BOOLEAN  BY <1>1
  <2>2. QED  BY <2>1, <1>1, <1>3 DEF EnhancementInv, TypeOK
<1>8. QED  BY <1>4, <1>5, <1>6, <1>7 DEF EnhancementInv

-----------------------------------------------------------------------------
(* The theorems *)

\* Every step of the manager, the coordinator and the daemon's life keeps the invariant.
LEMMA StepInv == EnhancementInv /\ [Next]_vars => EnhancementInv'
<1> SUFFICES ASSUME EnhancementInv, [Next]_vars  PROVE EnhancementInv'  OBVIOUS
<1>1. CASE UNCHANGED vars
  <2>1. UNCHANGED <<up, next, job, phase, queue, microtask, cached, usage, saved, row, older,
                    building, spent, unseen, crashes>>
    BY <1>1 DEF vars
  <2>2. QueueOK' /\ Jobs(phase', job') /\ MoneyOK' /\ RowsOK'
    BY <2>1 DEF EnhancementInv, QueueOK, MoneyOK, RowsOK, Net, Slip
  <2>3. TypeOK' /\ NoIdlePermit'
    BY <2>1 DEF EnhancementInv, TypeOK, NoIdlePermit, Running
  <2>4. QED  BY <2>2, <2>3 DEF EnhancementInv
<1>2. ASSUME NEW ns \in Sessions, NEW source \in Sources,
             Prepare(ns, source) \/ PrepareAgain(ns, source)
      PROVE  EnhancementInv'
  BY <1>2, PrepareStep, PrepareAgainStep
<1>3. ASSUME NEW j \in JobIds, RunStep(j)  PROVE EnhancementInv'
  <2>1. ASSUME NEW known \in BOOLEAN, NEW n \in 0..MaxCharge,
               Leave(j, known, n) \/ \E good \in BOOLEAN : Answer(j, good, known, n)
        PROVE  EnhancementInv'
    <3>1. CASE Leave(j, known, n)
      <4>1. TRUE \in BOOLEAN  OBVIOUS
      <4>2. QED  BY <3>1, <4>1, AnswerStep
    <3>2. ASSUME NEW good \in BOOLEAN, Answer(j, good, known, n)  PROVE EnhancementInv'
      BY <3>2, AnswerStep
    <3>3. QED  BY <2>1, <3>1, <3>2
  <2>2. QED  BY <1>3, <2>1, DecideStep, TimeoutStep, ReleaseStep DEF RunStep
<1>4. ASSUME NEW j \in JobIds, NEW same \in BOOLEAN, AskCandidate(j, same)  PROVE EnhancementInv'
  BY <1>4, AskStep
<1>5. CASE \/ Pump \/ (\E better \in BOOLEAN : FinishCandidate(better))
           \/ (\E ns \in Sessions : Invalidate(ns)) \/ Close \/ Crash \/ Start
  BY <1>5, PumpStep, FinishStep, InvalidateStep, CloseStep, CrashStep, StartStep
<1>6. QED  BY <1>1, <1>2, <1>3, <1>4, <1>5 DEF Next

(* The inductive invariant holds for any numbers of sessions, jobs, permits and
   crashes, any budget and any charge of a call: the queue holds the waiting
   jobs once each, a session has one job under way, and its usage, in memory as
   in meta.db, covers what the provider has charged and may still charge, up to
   the excess no ledger has seen (enhancement.ts). *)
THEOREM EnhancementCorrect == Spec => []EnhancementInv
<1>1. Init => EnhancementInv  BY InitInv
<1>2. EnhancementInv /\ [Next]_vars => EnhancementInv'  BY StepInv
<1>3. QED  BY <1>1, <1>2, PTL DEF Spec

(* What a session costs, the open calls counted at their ceiling, exceeds its
   lifetime budget by the excess of one call at most, and by what no ledger has
   seen: reservations are taken, saved, refunded and restored so that late
   answers, timeouts, cancels, restarts and crashes cannot exceed it, and a call
   that took more than its ceiling is charged what it took. *)
THEOREM AlwaysWithinBudget == Spec => []LifetimeBudget
<1>1. EnhancementInv => LifetimeBudget
  <2> SUFFICES ASSUME EnhancementInv, NEW s \in Sessions
               PROVE  spent[s] + MaxTokens * OpenCalls(s)
                        <= SessionTokens + Excess * (1 + crashes) + unseen[s]
    BY DEF LifetimeBudget
  <2> DEFINE x == Excess * crashes
             y == Excess * (1 + crashes)
             o == MaxTokens * OpenCalls(s)
  <2>1. /\ spent[s] \in Nat /\ unseen[s] \in Nat /\ usage[s] \in Int /\ SessionTokens \in Nat
        /\ crashes \in Nat /\ Excess \in Nat /\ MaxTokens \in Nat /\ MaxCharge = MaxTokens + Excess
    BY Types, ExcessType
  <2>2. x \in Nat /\ y = x + Excess  BY <2>1
  <2>3. Net[s] = spent[s] - unseen[s] - x
    <3>1. spent \in [Sessions -> Nat] /\ unseen \in [Sessions -> Nat] /\ crashes \in Nat  BY Types
    <3>2. QED  BY <3>1, NetType
  <2>4. o \in Nat /\ Net[s] + o <= SessionTokens + Excess
    <3>1. CASE OpenCalls(s) = 1
      <4>1. PICK j \in JobIds : phase[j] \in {"calling", "leaving"} /\ job[j].ns = s
        BY <3>1, OneOpen
      <4>2. SlackOf(phase[j], job[j].used) = MaxTokens  BY <4>1 DEF SlackOf
      <4>3. Net[s] + MaxTokens <= usage[s] /\ usage[s] <= SessionTokens
        BY <4>1, <4>2 DEF EnhancementInv, MoneyOK, Covers
      <4>4. o = MaxTokens  BY <3>1, <2>1
      <4>5. Net[s] \in Int  BY <2>1, <2>2, <2>3
      <4> HIDE DEF o
      <4>6. QED  BY <4>3, <4>4, <4>5, <2>1
    <3>2. CASE OpenCalls(s) = 0
      <4>1. o = 0  BY <3>2, <2>1
      <4>2. Net[s] \in Int  BY <2>1, <2>2, <2>3
      <4>3. CASE Rest(phase, job, s)
        <5>1. Net[s] <= usage[s] + 0 /\ usage[s] <= SessionTokens + Excess
          BY <4>3 DEF EnhancementInv, MoneyOK, Within
        <5> HIDE DEF o
        <5>2. QED  BY <5>1, <4>1, <4>2, <2>1
      <4>4. CASE ~Rest(phase, job, s)
        <5>1. PICK j \in JobIds : phase[j] # "none" /\ job[j].ns = s  BY <4>4 DEF Rest
        <5> DEFINE k == SlackOf(phase[j], job[j].used)
        <5>2. Net[s] + k <= usage[s] /\ usage[s] <= SessionTokens
          BY <5>1 DEF EnhancementInv, MoneyOK, Covers
        <5>3. k \in Int /\ 0 - Excess <= k
          <6>1. job[j].used \in (0..MaxCharge) \cup {None}  BY Types DEF JobType
          <6>2. QED  BY <6>1, SlackType
        <5> HIDE DEF k, o
        <5>4. QED  BY <5>2, <5>3, <4>1, <4>2, <2>1
      <4>5. QED  BY <4>3, <4>4
    <3>3. QED  BY <3>1, <3>2, OneOpen
  <2> HIDE DEF x, y, o
  <2>5. spent[s] + o <= SessionTokens + y + unseen[s]  BY <2>1, <2>2, <2>3, <2>4
  <2>6. QED  BY <2>5 DEF y, o
<1>2. QED  BY <1>1, EnhancementCorrect, PTL

(* The provider never has more open calls than there are permits, nor two for one
   session: an aborted call keeps both until it has settled. *)
THEOREM ProviderNeverOverloaded == Spec => []ProviderLoad
<1>1. EnhancementInv => ProviderLoad
  <2> SUFFICES ASSUME EnhancementInv  PROVE ProviderLoad  OBVIOUS
  <2>1. Calling \subseteq Holders(phase) /\ Calling \in SUBSET JobIds
        /\ Holders(phase) \in SUBSET JobIds
    BY DEF Calling, Holders
  <2>2. IsFiniteSet(Holders(phase)) /\ Cardinality(Holders(phase)) \in Nat
        /\ Cardinality(Calling) \in Nat
    BY <2>1, JobIdsFinite
  <2>3. Cardinality(Calling) <= Cardinality(Holders(phase))  BY <2>1, <2>2, FS_Subset
  <2>4. Cardinality(Holders(phase)) <= Permits /\ Permits \in Nat
    BY EnhancementAssumption DEF EnhancementInv, QueueOK, PermitsOK
  <2>5. Cardinality(Calling) <= Permits  BY <2>2, <2>3, <2>4
  <2>6. \A s \in Sessions : Cardinality({j \in Calling : job[j].ns = s}) <= 1
    BY OneOpen DEF OpenCalls
  <2>7. QED  BY <2>5, <2>6 DEF ProviderLoad
<1>2. QED  BY <1>1, EnhancementCorrect, PTL

(* No job waits beside a free permit: release and cancel pump at once, and a
   submit has its pump scheduled. *)
THEOREM NeverIdle == Spec => []NoIdlePermit
<1>1. EnhancementInv => NoIdlePermit  BY DEF EnhancementInv
<1>2. QED  BY <1>1, EnhancementCorrect, PTL

\* What a step does to the row of a job.
LEMMA RowStep ==
  ASSUME EnhancementInv, [Next]_vars, NEW j \in JobIds
  PROVE  /\ row[j] = "rejected" =>
              \/ row'[j] = "rejected"
              \/ row'[j] = "none" /\ Cardinality(Newer(j)) >= KeptRows
         /\ (row[j] # "ready" /\ row'[j] = "ready") =>
              row[j] = "queued" /\ job[j].status = "completed"
<1>1. row \in [JobIds -> {"none", "queued", "ready", "rejected"}]  BY Types
<1>2. CASE row' = row  BY <1>2
<1>3. ASSUME NEW i, InsertRow(i)
      PROVE  \/ row'[j] = row[j]
             \/ row[j] = "none" /\ row'[j] = "queued"
             \/ row'[j] = "none" /\ Cardinality(Newer(j)) >= KeptRows
  BY <1>1, <1>3 DEF InsertRow, Trimmed
<1>4. ASSUME NEW i, RejectEffects(i)  PROVE row'[j] = row[j] \/ row'[j] = "rejected"
  BY <1>1, <1>4 DEF RejectEffects, UpdateRow
<1>5. ASSUME NEW ns \in Sessions, NEW source \in Sources,
             Prepare(ns, source) \/ PrepareAgain(ns, source)
      PROVE  \/ row'[j] = row[j]
             \/ row[j] = "none" /\ row'[j] = "queued"
             \/ row'[j] = "none" /\ Cardinality(Newer(j)) >= KeptRows
  BY <1>3, <1>5 DEF Prepare, PrepareAgain
<1>6. ASSUME NEW i \in JobIds, NEW same \in BOOLEAN, AskCandidate(i, same)
      PROVE  row'[j] = row[j] \/ row'[j] = "rejected"
  BY <1>4, <1>6 DEF AskCandidate
<1>7. ASSUME NEW better \in BOOLEAN, FinishCandidate(better)
      PROVE  \/ row'[j] = row[j]
             \/ row'[j] = "rejected"
             \/ row[j] = "queued" /\ job[j].status = "completed"
  <2>1. building # None => /\ job[building].status = "completed"
                           /\ row[building] \in {"queued", "rejected"}
    BY DEF EnhancementInv, RowsOK
  <2>2. CASE RejectEffects(building)  BY <2>2, <1>4
  <2>3. CASE row[building] # "rejected" /\ UpdateRow(building, "ready")
    <3>1. CASE j = building  BY <3>1, <2>1, <2>3, <1>7 DEF FinishCandidate
    <3>2. CASE j # building  BY <3>2, <2>3, <1>1 DEF UpdateRow
    <3>3. QED  BY <3>1, <3>2
  <2>4. QED  BY <2>2, <2>3, <1>7 DEF FinishCandidate
<1>8. ASSUME NEW ns \in Sessions, Invalidate(ns)  PROVE row'[j] = row[j] \/ row'[j] = "rejected"
  BY <1>8 DEF Invalidate, RejectSession
<1>9. CASE Start
  <2>1. row'[j] = row[j] \/ row'[j] = "rejected"  BY <1>9 DEF Start
  <2>2. QED  BY <2>1
<1>10. ASSUME NEW i \in JobIds, RunStep(i)  PROVE row' = row
  BY <1>10 DEF RunStep, Leave, Answer, Decide, Timeout, Release
<1>11. CASE Pump \/ Close \/ Crash \/ UNCHANGED vars
  <2>1. row' = row  BY <1>11 DEF Pump, Close, Crash, vars
  <2>2. QED  BY <2>1
<1>12. QED  BY <1>5, <1>6, <1>7, <1>8, <1>9, <1>10, <1>11 DEF Next

(* A rejected job never becomes ready while its row is kept, and only a completed
   one does: the row is looked at again when the evidence has been read, and a
   restart, an invalidation or a second request never brings a rejected row
   back; the trim takes it only when enough newer rows of ended jobs are there. *)
THEOREM RejectionIsFinal == Spec => RejectedStaysRejected
<1>1. EnhancementInv /\ [Next]_vars
        => [\A j \in JobIds :
              /\ row[j] = "rejected" =>
                   \/ row'[j] = "rejected"
                   \/ row'[j] = "none" /\ Cardinality(Newer(j)) >= KeptRows
              /\ (row[j] # "ready" /\ row'[j] = "ready") =>
                   row[j] = "queued" /\ job[j].status = "completed"]_vars
  BY RowStep
<1>2. QED  BY <1>1, EnhancementCorrect, PTL DEF Spec, RejectedStaysRejected
=============================================================================
