---------------------------- MODULE Enhancement ----------------------------
(***************************************************************************)
(* Background summaries: the EnhancementManager (enhancement.ts), which    *)
(* runs at most two provider calls, one for a session, within a lifetime   *)
(* budget of tokens for each session, and the coordinator around it        *)
(* (enhancement-integration.ts) with its rows in meta.db, which survive a  *)
(* restart.  Tokens are counted on one axis; input and output are alike.   *)
(***************************************************************************)
EXTENDS Integers, FiniteSets, SequencesExt

CONSTANTS Sessions, Sources,   \* a source is the history hash a summary is made for
          JobIds,              \* ids handed out in order: 1, 2, ...
          MaxTokens,           \* the ceiling of one request
          MaxCharge,           \* bound on what one call is charged, which may be more
          SessionTokens,       \* the lifetime budget of a session
          QueueCap,            \* jobs waiting for a permit
          Permits,             \* provider calls at a time
          KeptRows,            \* rows of jobs that have ended kept in meta.db: 256
          MaxCrashes,          \* bound on crashes
          None

ASSUME EnhancementAssumption ==
  /\ JobIds = 1..Cardinality(JobIds) /\ IsFiniteSet(JobIds)
  /\ MaxTokens \in Nat \ {0} /\ SessionTokens \in Nat
  /\ MaxCharge \in Nat /\ MaxTokens <= MaxCharge
  /\ QueueCap \in Nat /\ Permits \in Nat \ {0} /\ KeptRows \in Nat /\ MaxCrashes \in Nat
  /\ None \notin JobIds \cup (0..MaxCharge)

VARIABLES up,        \* a daemon is running and its manager is not disposed
          next,      \* the next job id
          job,       \* what a job is for, and its status in the manager's jobs map
          phase,     \* where run() is for a job; "none" when it is not pending
          queue,     \* jobs without a permit, in order
          microtask, \* a pump that submit has scheduled
          cached,    \* the completed job of a source, in the manager's cache
          usage,     \* tokens a session has used or reserved, in memory
          saved,     \* the same in meta.db: summary_usage
          row,       \* the status of a job in meta.db: enhancement_jobs
          older,     \* the pairs <<i, j>> of rows of which i was inserted before j
          building,  \* the job whose candidate is being built, or None
          spent,     \* history: tokens the provider has really charged a session
          unseen,    \* history: what a session's calls may have cost above the ceiling that
                     \* no ledger has seen
          crashes

vars == <<up, next, job, phase, queue, microtask, cached, usage, saved, row, older,
          building, spent, unseen, crashes>>

\* A job has failed when it ended without a summary: rejected, failed or cancelled, which
\* nothing tells apart later.
NoJob == [ns |-> None, source |-> None, status |-> "none", used |-> None]
Pending(j) == phase[j] # "none"
Running == {j \in JobIds : phase[j] \notin {"none", "queued"}}
\* The provider has not settled its promise.
Calling == {j \in JobIds : phase[j] \in {"calling", "leaving"}}
Active(ns) == {j \in JobIds : Pending(j) /\ job[j].ns = ns}

Init ==
  /\ up = TRUE /\ next = 1
  /\ job = [j \in JobIds |-> NoJob]
  /\ phase = [j \in JobIds |-> "none"]
  /\ queue = <<>> /\ microtask = FALSE
  /\ cached = [s \in Sessions \X Sources |-> None]
  /\ usage = [s \in Sessions |-> 0] /\ saved = [s \in Sessions |-> 0]
  /\ row = [j \in JobIds |-> "none"] /\ older = {}
  /\ building = None
  /\ spent = [s \in Sessions |-> 0] /\ unseen = [s \in Sessions |-> 0] /\ crashes = 0

-----------------------------------------------------------------------------
(* submit, called by the coordinator's prepare in the same callback. *)

\* Refusals have no effect: a busy session, a full queue, no budget left.
Admits(ns) ==
  /\ Active(ns) = {} /\ Len(queue) < QueueCap
  /\ usage[ns] + MaxTokens <= SessionTokens

\* The full ceiling is reserved.
Submit(ns, source) ==
  /\ next \in JobIds /\ cached[<<ns, source>>] = None /\ Admits(ns)
  /\ next' = next + 1
  /\ job' = [job EXCEPT ![next] = [ns |-> ns, source |-> source, status |-> "queued", used |-> None]]
  /\ phase' = [phase EXCEPT ![next] = "queued"]
  /\ queue' = Append(queue, next) /\ microtask' = TRUE
  /\ usage' = [usage EXCEPT ![ns] = @ + MaxTokens]

\* persist: the row of the session's usage.
Persist(ns, used) == saved' = [saved EXCEPT ![ns] = used]

\* The rows of jobs that have ended which are newer than a row.
Newer(j) == {k \in JobIds : row[k] \in {"ready", "rejected"} /\ <<j, k>> \in older}
\* What the DELETE after an insert takes: of the rows that have ended, all but the newest.
Trimmed == {j \in JobIds : row[j] \in {"ready", "rejected"} /\ Cardinality(Newer(j)) >= KeptRows}
Kept == {j \in JobIds : row[j] # "none"} \ Trimmed

\* saveEnhancementJob: an insert that leaves a row which is there as it is, and the trim.
InsertRow(j) ==
  /\ row' = [k \in JobIds |-> CASE k \in Trimmed -> "none"
                                [] k = j /\ row[k] = "none" -> "queued"
                                [] OTHER -> row[k]]
  /\ older' = (older \cap (Kept \X Kept)) \cup (IF row[j] = "none" THEN Kept \X {j} ELSE {})
UpdateRow(j, status) == row' = [row EXCEPT ![j] = IF @ = "none" THEN @ ELSE status] /\ UNCHANGED older

\* The reservation is saved before the provider is called.
Prepare(ns, source) ==
  /\ up /\ building = None
  /\ Submit(ns, source) /\ Persist(ns, usage[ns] + MaxTokens) /\ InsertRow(next)
  /\ UNCHANGED <<up, cached, building, spent, unseen, crashes>>

\* The job a source already has: completed and cached, or under way.
Existing(ns, source) ==
  ({cached[<<ns, source>>]} \ {None}) \cup {j \in Active(ns) : job[j].source = source}

\* submit returns that job: prepare saves the usage, and its insert leaves the row as it is.
PrepareAgain(ns, source) ==
  /\ up /\ building = None
  /\ \E j \in Existing(ns, source) : InsertRow(j)
  /\ Persist(ns, usage[ns])
  /\ UNCHANGED <<up, next, job, phase, queue, microtask, cached, usage, building, spent, unseen, crashes>>

\* Mutant: an aborted call counts no more.
PumpOverAborted(q, ph, jb) ==
  LET free == Permits - Cardinality({j \in JobIds : ph[j] \notin {"none", "queued", "leaving"}})
      started == {q[i] : i \in {k \in DOMAIN q : k <= free}}
  IN /\ queue' = SubSeq(q, free + 1, Len(q))
     /\ phase' = [j \in JobIds |-> IF j \in started THEN "calling" ELSE ph[j]]
     /\ job' = [j \in JobIds |-> IF j \in started THEN [jb[j] EXCEPT !.status = "running"] ELSE jb[j]]

\* pump: free permits go to the jobs that wait longest.  It runs in a microtask after submit,
\* and at the end of release and of the cancel of a queued job.  Here it is applied to the
\* queue q, the phases ph and the jobs jb which its caller has left.
PumpWith(q, ph, jb) ==
  LET free == Permits - Cardinality({j \in JobIds : ph[j] \notin {"none", "queued"}})
      started == {q[i] : i \in {k \in DOMAIN q : k <= free}}
  IN /\ queue' = SubSeq(q, free + 1, Len(q))
     /\ phase' = [j \in JobIds |-> IF j \in started THEN "calling" ELSE ph[j]]
     /\ job' = [j \in JobIds |-> IF j \in started THEN [jb[j] EXCEPT !.status = "running"] ELSE jb[j]]

Pump ==
  /\ up /\ microtask /\ microtask' = FALSE
  /\ PumpWith(queue, phase, job)
  /\ UNCHANGED <<up, next, cached, usage, saved, row, older, building, spent, unseen, crashes>>

-----------------------------------------------------------------------------
(* run *)

\* What one call may cost above the ceiling of its request.
Excess == MaxCharge - MaxTokens

\* The provider's promise settles: it charges the session, more than the ceiling perhaps,
\* and may say how much.
Settle(j, known, n) ==
  /\ spent' = [spent EXCEPT ![job[j].ns] = @ + n]
  /\ unseen' = IF known \/ n <= MaxTokens THEN unseen
                ELSE [unseen EXCEPT ![job[j].ns] = @ + (n - MaxTokens)]
  /\ job' = [job EXCEPT ![j].used = IF known THEN n ELSE None]

\* The provider settled first; the continuation of the race is a microtask.
Answer(j, good, known, n) ==
  /\ phase[j] = "calling" /\ Settle(j, known, n)
  /\ phase' = [phase EXCEPT ![j] = IF good THEN "answered" ELSE "refused"]
  /\ UNCHANGED <<up, next, queue, microtask, cached, usage, saved, row, older, building, crashes>>

\* After a cancel the answer is dropped; otherwise valid entries complete the job, unless
\* the provider used more than the ceiling.
Decide(j, valid) ==
  /\ phase[j] \in {"answered", "refused"}
  /\ LET live == job[j].status = "running"
         within == job[j].used = None \/ job[j].used <= MaxTokens
         good == live /\ phase[j] = "answered" /\ valid /\ within
     IN /\ job' = [job EXCEPT ![j].status = IF good THEN "completed" ELSE IF live THEN "failed" ELSE @]
        /\ cached' = IF good THEN [cached EXCEPT ![<<job[j].ns, job[j].source>>] = j] ELSE cached
  /\ phase' = [phase EXCEPT ![j] = "settled"]
  /\ UNCHANGED <<up, next, queue, microtask, usage, saved, row, older, building, spent, unseen, crashes>>

\* The timer: the job has failed, the call is aborted but not over.
Timeout(j) ==
  /\ phase[j] = "calling"
  /\ job' = [job EXCEPT ![j].status = "failed"]
  /\ phase' = [phase EXCEPT ![j] = "leaving"]
  /\ UNCHANGED <<up, next, queue, microtask, cached, usage, saved, row, older, building, spent, unseen, crashes>>

\* An aborted call settles at last.
Leave(j, known, n) ==
  /\ phase[j] = "leaving" /\ Settle(j, known, n)
  /\ phase' = [phase EXCEPT ![j] = "settled"]
  /\ UNCHANGED <<up, next, queue, microtask, cached, usage, saved, row, older, building, crashes>>

\* Mutant: a session is charged its ceiling at most.
ReleaseAtCeiling(j) ==
  /\ phase[j] = "settled"
  /\ usage' = [usage EXCEPT ![job[j].ns] =
                 @ + (IF job[j].used = None \/ job[j].used > MaxTokens THEN MaxTokens ELSE job[j].used)
                   - MaxTokens]
  /\ PumpWith(queue, [phase EXCEPT ![j] = "none"], [job EXCEPT ![j].used = None])
  /\ UNCHANGED <<up, next, microtask, cached, saved, row, older, building, spent, unseen, crashes>>

\* Mutant: nobody is started in the place that is free.
ReleaseWithoutPump(j) ==
  /\ phase[j] = "settled"
  /\ usage' = [usage EXCEPT ![job[j].ns] =
                 @ + (IF job[j].used = None THEN MaxTokens ELSE job[j].used) - MaxTokens]
  /\ phase' = [phase EXCEPT ![j] = "none"] /\ job' = [job EXCEPT ![j].used = None]
  /\ UNCHANGED <<up, next, queue, microtask, cached, saved, row, older, building, spent, unseen, crashes>>

\* The end of the finally clause: the reservation gives way to what the provider says it
\* used, be it more; unknown usage keeps it; permit and session are free.
Release(j) ==
  /\ phase[j] = "settled"
  /\ usage' = [usage EXCEPT ![job[j].ns] =
                 @ + (IF job[j].used = None THEN MaxTokens ELSE job[j].used) - MaxTokens]
  /\ PumpWith(queue, [phase EXCEPT ![j] = "none"],
              [job EXCEPT ![j].used = None])     \* the usage is telemetry from here on
  /\ UNCHANGED <<up, next, microtask, cached, saved, row, older, building, spent, unseen, crashes>>

-----------------------------------------------------------------------------
(* cancel of a set of jobs.  A completed job stays so; a queued one gives its *)
(* reservation back; a running one is aborted and keeps permit and session.   *)

Cancelled(J) == {j \in J : Pending(j) /\ job[j].status # "completed"}
StatusAfterCancel(J) ==
  [j \in JobIds |-> IF j \in Cancelled(J) THEN [job[j] EXCEPT !.status = "failed"] ELSE job[j]]
PhaseAfterCancel(J) ==
  [j \in JobIds |->
     CASE j \in Cancelled(J) /\ phase[j] = "queued" -> "none"
       [] j \in Cancelled(J) /\ phase[j] = "calling" -> "leaving"
       [] OTHER -> phase[j]]
UsageAfterCancel(J) ==
  [s \in Sessions |->
     usage[s] - MaxTokens * Cardinality({j \in Cancelled(J) : phase[j] = "queued" /\ job[j].ns = s})]
\* One job of the set waits at most: the set is of one session, which has one active job.
QueueAfterCancel(J) == RemoveFirstMatch(queue, LAMBDA j : j \in Cancelled(J))
Cancel(J) ==
  /\ usage' = UsageAfterCancel(J)
  /\ IF QueueAfterCancel(J) # queue
       THEN PumpWith(QueueAfterCancel(J), PhaseAfterCancel(J), StatusAfterCancel(J))
       ELSE /\ job' = StatusAfterCancel(J) /\ phase' = PhaseAfterCancel(J)
            /\ UNCHANGED queue

\* reject: the source changed, the job ended badly, or its evidence is gone.
RejectEffects(j) ==
  /\ Cancel({j})
  /\ UpdateRow(j, "rejected")
  /\ Persist(job[j].ns, UsageAfterCancel({j})[job[j].ns])

\* candidate, up to its first await.  The caller's digests show whether the source is the same.
AskCandidate(j, same) ==
  /\ up /\ building = None /\ row[j] # "none"
  /\ \/ /\ ~same \/ (row[j] = "queued" /\ job[j].status \notin {"queued", "running", "completed"})
        /\ RejectEffects(j)
        /\ UNCHANGED building
     \/ /\ same /\ row[j] = "queued" /\ job[j].status \in {"queued", "running", "completed"}
        /\ Persist(job[j].ns, usage[job[j].ns])
        /\ building' = IF job[j].status = "completed" THEN j ELSE None
        /\ UNCHANGED <<job, phase, queue, usage, row, older>>
  /\ UNCHANGED <<up, next, microtask, cached, spent, unseen, crashes>>

\* Mutant: the row is not looked at again.
FinishUnchecked(better) ==
  /\ up /\ building # None
  /\ IF ~better
       THEN RejectEffects(building)
       ELSE /\ UpdateRow(building, "ready")
            /\ UNCHANGED <<job, phase, queue, usage, saved>>
  /\ building' = None
  /\ UNCHANGED <<up, next, microtask, cached, spent, unseen, crashes>>

\* The evidence has been read.  The row is looked at again before anything is published.
FinishCandidate(better) ==
  /\ up /\ building # None
  /\ IF row[building] = "rejected" \/ ~better
       THEN RejectEffects(building)
       ELSE /\ UpdateRow(building, "ready")
            /\ UNCHANGED <<job, phase, queue, usage, saved>>
  /\ building' = None
  /\ UNCHANGED <<up, next, microtask, cached, spent, unseen, crashes>>

\* Every row of the session, the ready ones included.
RejectSession(ns) ==
  /\ row' = [j \in JobIds |-> IF row[j] # "none" /\ job[j].ns = ns THEN "rejected" ELSE row[j]]
  /\ UNCHANGED older

\* clearView: rejects every row of the session and cancels its queued and running jobs.
Invalidate(ns) ==
  /\ up
  /\ LET open == {j \in JobIds : job[j].ns = ns /\ row[j] = "queued"}
     IN Cancel(open) /\ RejectSession(ns) /\ Persist(ns, UsageAfterCancel(open)[ns])
  /\ UNCHANGED <<up, next, microtask, cached, building, spent, unseen, crashes>>

-----------------------------------------------------------------------------
(* The daemon's life.  What a manager that is gone had asked for still ends    *)
(* and is charged, but nothing reads that manager's memory any more.           *)

OpenCalls(s) == Cardinality({j \in Calling : job[j].ns = s})
Gone ==
  /\ up /\ up' = FALSE /\ building' = None
  /\ \E charged \in [Sessions -> 0..(MaxCharge * Permits)] :
       /\ \A s \in Sessions : charged[s] <= MaxCharge * OpenCalls(s)
       /\ spent' = [s \in Sessions |-> spent[s] + charged[s]]
  /\ job' = [j \in JobIds |-> [job[j] EXCEPT !.status = "none", !.used = None]]
  /\ phase' = [j \in JobIds |-> "none"] /\ queue' = <<>> /\ microtask' = FALSE
  /\ cached' = [s \in Sessions \X Sources |-> None]

\* close: dispose cancels everything, which refunds what was queued; the usage is saved.
Close ==
  /\ Gone
  /\ saved' = UsageAfterCancel(JobIds)
  /\ usage' = UsageAfterCancel(JobIds)
  /\ unseen' = [s \in Sessions |->
                  unseen[s] + IF \E j \in Running : job[j].ns = s THEN Excess ELSE 0]
  /\ UNCHANGED <<next, row, older, crashes>>

\* What was released since the last save is lost, too: of one call, for a session's next
\* request saves it.
Crash ==
  /\ crashes < MaxCrashes /\ crashes' = crashes + 1
  /\ Gone
  /\ UNCHANGED <<next, usage, saved, row, older, unseen>>

\* restoreUsage, for every session with a row.
RestoreUsage == usage' = saved

\* A new daemon rejects what was under way and takes the usage up from meta.db.
Start ==
  /\ ~up /\ up' = TRUE
  /\ row' = [j \in JobIds |-> IF row[j] = "queued" THEN "rejected" ELSE row[j]]
  /\ RestoreUsage
  /\ UNCHANGED <<next, job, phase, queue, microtask, cached, saved, older, building, spent, unseen,
                 crashes>>

-----------------------------------------------------------------------------
RunStep(j) ==
  \/ \E known \in BOOLEAN, n \in 0..MaxCharge :
       Leave(j, known, n) \/ \E good \in BOOLEAN : Answer(j, good, known, n)
  \/ \E valid \in BOOLEAN : Decide(j, valid)
  \/ Timeout(j) \/ Release(j)

Next ==
  \/ \E ns \in Sessions, source \in Sources : Prepare(ns, source) \/ PrepareAgain(ns, source)
  \/ Pump
  \/ \E j \in JobIds : RunStep(j) \/ \E same \in BOOLEAN : AskCandidate(j, same)
  \/ \E better \in BOOLEAN : FinishCandidate(better)
  \/ \E ns \in Sessions : Invalidate(ns)
  \/ Close \/ Crash \/ Start

Spec == Init /\ [][Next]_vars

-----------------------------------------------------------------------------
(* Properties *)

TypeOK ==
  /\ up \in BOOLEAN
  /\ next \in Nat
  /\ job \in [JobIds -> [ns : Sessions \cup {None}, source : Sources \cup {None},
                        status : {"none", "queued", "running", "completed", "failed"},
                        used : (0..MaxCharge) \cup {None}]]
  /\ phase \in [JobIds -> {"none", "queued", "calling", "answered", "refused", "leaving",
                           "settled"}]
  /\ queue \in Seq(JobIds) /\ microtask \in BOOLEAN
  /\ cached \in [Sessions \X Sources -> JobIds \cup {None}]
  /\ usage \in [Sessions -> Int] /\ saved \in [Sessions -> Int] /\ spent \in [Sessions -> Nat]
  /\ unseen \in [Sessions -> Nat]
  /\ row \in [JobIds -> {"none", "queued", "ready", "rejected"}]
  /\ older \subseteq JobIds \X JobIds
  /\ building \in JobIds \cup {None} /\ crashes \in Nat

(* A session never costs more than its lifetime budget, the calls under way at
   their ceiling included, apart from what single calls took above the ceiling
   of their request: and of what such a call reported, only the last one counts,
   since the excess is charged to the session and the next request refused.
   What else may be missing is the excess of calls that never said what they
   used, or were cut off by the end of a daemon, and of one call of a session
   for a crash: the reservation itself is saved before the provider is called
   and no late answer, timeout, cancel, restart or crash gives it back twice. *)
LifetimeBudget ==
  \A s \in Sessions :
    spent[s] + MaxTokens * OpenCalls(s) <= SessionTokens + Excess * (1 + crashes) + unseen[s]

(* At most two calls are open at the provider, and one for a session, also
   while jobs are cancelled or time out: an aborted call keeps its permit until
   the provider has let go of it (the finally clause of run). *)
ProviderLoad ==
  /\ Cardinality(Calling) <= Permits
  /\ \A s \in Sessions : Cardinality({j \in Calling : job[j].ns = s}) <= 1

(* A job that was rejected, by an invalidation, a changed source or a restart,
   never becomes a ready candidate while its row is kept: not by a late answer,
   not by a candidate that was being built at the time, not by a new request for
   its source.  Its row goes only when there are newer ones enough (256) of jobs
   that have ended, and then nobody gets a candidate by it.  A row becomes ready
   for a completed job only. *)
RejectedStaysRejected ==
  [][\A j \in JobIds :
       /\ row[j] = "rejected" =>
            \/ row'[j] = "rejected"
            \/ row'[j] = "none" /\ Cardinality(Newer(j)) >= KeptRows
       /\ (row[j] # "ready" /\ row'[j] = "ready") =>
            row[j] = "queued" /\ job[j].status = "completed"]_vars

(* No job is left waiting beside a free permit: whenever a call is released or
   a queued job is taken away, the next job in the queue is started at once,
   and a job that was just queued has its pump scheduled. *)
NoIdlePermit ==
  (queue # <<>> /\ Cardinality(Running) < Permits) => microtask
=============================================================================
