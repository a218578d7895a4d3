--------------------------- MODULE RtkClientProofs ---------------------------
(***************************************************************************)
(* Proofs about RtkClient for every value of its constants: type           *)
(* correctness, the life cycle of the child (one child, one recovery       *)
(* owner, nothing left behind by shutdown), and the requests (exact        *)
(* budgets, answers that go where they belong, late ones told from         *)
(* corruption).                                                            *)
(***************************************************************************)
EXTENDS RtkClient, FiniteSetTheorems, SequenceTheorems, TLAPS

\* Children are numbered; all but the last are gone, the ones to come unborn.
ChildrenInOrder ==
  \A p \in Procs : /\ p < spawns => child[p] = "reaped"
                   /\ p > spawns => child[p] = "unborn"

\* The current child is the last one spawned and its exit is unnoticed.
ProcIsLast ==
  proc # None => /\ proc = spawns /\ ~shuttingDown
                 /\ child[proc] \in {"alive", "exited"}

\* Without a current child the last one is gone, unless shutdown awaits it.
LastIsGone ==
  proc = None /\ spawns # 0 =>
    \/ child[spawns] = "reaped" /\ ~Spawning
    \/ shuttingDown /\ ~closed /\ child[spawns] \in {"alive", "exited"}

\* A spawn under way is its owner's, and the probes go on while one of theirs is.
SpawnHasOwner ==
  /\ Spawning => /\ created => owner \in {"restart", "probe"}
                 /\ ~created => owner = "create"
                 /\ owner = "probe" => probeTimer \/ shuttingDown
  /\ created \/ Spawning => spawns # 0
  /\ handshake = "greeted" => ~shuttingDown
  /\ ready => created /\ proc # None /\ ~Spawning

\* Before create() resolves there is only its own spawn.
BeforeCreated ==
  ~created => /\ ~restartTimer /\ ~probeTimer /\ ~breakerOpen
              /\ spawns # 0 => (Spawning # shuttingDown) /\ ~(shuttingDown /\ proc # None)

\* What shutdown leaves at once, and what it leaves when it has resolved.
AfterShutdown ==
  /\ shuttingDown => ~restartTimer /\ ~probeTimer /\ proc = None /\ pending = {}
  /\ closed => shuttingDown /\ ~Spawning /\ (spawns # 0 => child[spawns] = "reaped")

\* No request is pending while there is no child that could answer it.
PendingNeedsReady == pending # {} => ready

LifecycleInv ==
  /\ ChildrenInOrder /\ ProcIsLast /\ LastIsGone /\ SpawnHasOwner
  /\ BeforeCreated /\ AfterShutdown /\ PendingNeedsReady /\ OneRecoveryOwner

-----------------------------------------------------------------------------
(***************************************************************************)
(* Sequences of ids.                                                       *)
(***************************************************************************)

\* Splicing an id out of a sequence of ids leaves a sequence of ids.
LEMMA WithoutType ==
  ASSUME NEW X, NEW s \in Seq(X), NEW c
  PROVE  Without(s, c) \in Seq(X)
<1>1. CASE c \in Seqs!ToSet(s)
  <2> DEFINE i == CHOOSE j \in DOMAIN s : s[j] = c
  <2>1. i \in 1..Len(s)
    BY <1>1 DEF Seqs!ToSet
  <2> HIDE DEF i
  <2>2. /\ Len(s) \in Nat /\ \A j \in 1..Len(s) : s[j] \in X
        /\ \A j \in 1..(i - 1) : s[j] \in X
        /\ \A j \in (i + 1)..Len(s) : s[j] \in X
    BY <2>1, ElementOfSeq
  <2>3. SubSeq(s, 1, i - 1) \in Seq(X)
    <3>1. 1 \in Int /\ i - 1 \in Int BY <2>1
    <3> QED BY <2>2, <3>1, SubSeqProperties
  <2>4. SubSeq(s, i + 1, Len(s)) \in Seq(X)
    <3>1. i + 1 \in Int /\ Len(s) \in Int BY <2>1, <2>2
    <3> QED BY <2>2, <3>1, SubSeqProperties
  <2> QED
    BY <1>1, <2>3, <2>4, ConcatProperties DEF Without, Seqs!RemoveAt, i
<1>2. CASE c \notin Seqs!ToSet(s)
  BY <1>2 DEF Without
<1> QED
  BY <1>1, <1>2

\* The ring of late replies stays a sequence of ids.
LEMMA RingType ==
  ASSUME TypeOK, NEW c \in Calls
  PROVE  RememberLateReply(c) \in Seq(Calls)
<1>1. lateReplyIds \in Seq(Calls) /\ Append(lateReplyIds, c) \in Seq(Calls)
  BY AppendProperties DEF TypeOK, ClientOK
<1>2. ASSUME NEW ids \in Seq(Calls), Len(ids) > LateReplyRing
      PROVE  Tail(ids) \in Seq(Calls)
  <2>1. ids # <<>>
    BY <1>2, RtkClientAssumption
  <2> QED
    BY <2>1, HeadTailProperties
<1> QED
  BY <1>1, <1>2 DEF RememberLateReply

\* settle() keeps the types of what it touches.
LEMMA SettleType ==
  ASSUME TypeOK, NEW c \in Calls, NEW why, DegradeFrom(why) \in Outcomes,
         Settle(c, why)
  PROVE  /\ pending' \subseteq Calls /\ queue' \in Seq(Calls)
         /\ outcome' \in [Calls -> Outcomes] /\ drain' \in BOOLEAN
<1>1. pending \subseteq Calls /\ queue \in Seq(Calls) /\ outcome \in [Calls -> Outcomes]
  BY DEF TypeOK, ClientOK
<1>2. queue' \in Seq(Calls)
  BY <1>1, WithoutType DEF Settle
<1> QED
  BY <1>1, <1>2 DEF Settle

\* So does settling everything.
LEMMA SettleAllType ==
  ASSUME TypeOK, NEW why, DegradeFrom(why) \in Outcomes, SettleAll(why)
  PROVE  /\ pending' \subseteq Calls /\ queue' \in Seq(Calls)
         /\ outcome' \in [Calls -> Outcomes] /\ drain' \in BOOLEAN
<1>1. pending \subseteq Calls /\ outcome \in [Calls -> Outcomes]
  BY DEF TypeOK, ClientOK
<1>2. drain' \in BOOLEAN
  BY DEF SettleAll
<1> QED
  BY <1>1, <1>2 DEF SettleAll

-----------------------------------------------------------------------------
(***************************************************************************)
(* Type correctness.                                                       *)
(***************************************************************************)

\* spawnAndGreet() keeps the types of the child's state.
LEMMA SpawnChildOK ==
  ASSUME TypeOK, NEW who, SpawnAndGreet(who)
  PROVE  ChildOK'
<1>1. spawns' \in 0..MaxSpawns
  BY RtkClientAssumption DEF TypeOK, ChildOK, SpawnAndGreet
<1>2. child' \in [Procs -> {"unborn", "alive", "exited", "reaped"}]
  BY DEF TypeOK, ChildOK, SpawnAndGreet
<1>3. signal' = signal /\ noise' = noise /\ inbox' \in SUBSET Calls /\ stdout' = <<>>
  BY DEF SpawnAndGreet
<1>4. stdout' \in Seq([kind : FrameKinds, id : Calls \cup {None}])
  BY <1>3
<1> QED
  BY <1>1, <1>2, <1>3, <1>4 DEF TypeOK, ChildOK

\* A step that leaves the child's state alone keeps its types.
LEMMA SameChildOK ==
  ASSUME TypeOK, UNCHANGED children
  PROVE  ChildOK'
BY DEF TypeOK, ChildOK, children, pipes

\* scheduleRestart() keeps the attempt counter within its budget, the breaker
\* and the timers Boolean.
LEMMA ScheduleType ==
  ASSUME TypeOK, NEW armed \in BOOLEAN, ScheduleRestart(armed)
  PROVE  /\ restartAttempt' \in 0..MaxRestartAttempts
         /\ breakerOpen' \in BOOLEAN /\ probeTimer' \in BOOLEAN /\ restartTimer' \in BOOLEAN
<1>1. restartAttempt' \in 0..MaxRestartAttempts
  BY RtkClientAssumption DEF TypeOK, ClientOK, ScheduleRestart, Trips
<1>2. breakerOpen' \in BOOLEAN /\ probeTimer' \in BOOLEAN /\ restartTimer' \in BOOLEAN
  BY DEF ScheduleRestart, ProbesStarted, TypeOK, FlagsOK
<1> QED
  BY <1>1, <1>2

\* So does what follows a failed spawn.
LEMMA SpawnFailedType ==
  ASSUME TypeOK, NEW who, NEW armed \in BOOLEAN, SpawnFailed(who, armed)
  PROVE  /\ restartAttempt' \in 0..MaxRestartAttempts
         /\ handshake' = "none" /\ owner' = "none"
         /\ shuttingDown' \in BOOLEAN /\ closed' \in BOOLEAN
         /\ breakerOpen' \in BOOLEAN /\ probeTimer' \in BOOLEAN /\ restartTimer' \in BOOLEAN
<1>1. CASE Reschedules(who)
  BY <1>1, ScheduleType DEF SpawnFailed, TypeOK, FlagsOK
<1>2. CASE ~Reschedules(who)
  BY <1>2 DEF SpawnFailed, TypeOK, FlagsOK, ClientOK
<1> QED
  BY <1>1, <1>2

\* And a spawn, whether it fails or not.
LEMMA SpawnType ==
  ASSUME TypeOK, NEW who \in {"create", "restart", "probe"}, NEW armed \in BOOLEAN,
         Spawn(who, armed)
  PROVE  /\ proc' \in Procs \cup {None}
         /\ handshake' \in {"none", "waiting"}
         /\ owner' \in {"none", "create", "restart", "probe"}
         /\ restartAttempt' \in 0..MaxRestartAttempts
         /\ shuttingDown' \in BOOLEAN /\ closed' \in BOOLEAN
         /\ breakerOpen' \in BOOLEAN /\ probeTimer' \in BOOLEAN /\ restartTimer' \in BOOLEAN
         /\ saidHello' \in BOOLEAN /\ helloDone' \in BOOLEAN
         /\ ChildOK'
<1>1. CASE SpawnAndGreet(who) /\ restartTimer' = armed
           /\ UNCHANGED <<shuttingDown, closed, restartAttempt, breakerOpen, probeTimer>>
  <2>1. proc' \in Procs
    BY <1>1, RtkClientAssumption DEF SpawnAndGreet, TypeOK, ChildOK, Procs
  <2>2. ChildOK'
    BY <1>1, SpawnChildOK
  <2> QED
    BY <1>1, <2>1, <2>2 DEF SpawnAndGreet, TypeOK, FlagsOK, ClientOK
<1>2. CASE SpawnFailed(who, armed) /\ UNCHANGED <<proc, children>>
  BY <1>2, SpawnFailedType, SameChildOK DEF children, pipes, TypeOK, FlagsOK, ClientOK
<1> QED
  BY <1>1, <1>2 DEF Spawn

\* A frame's effects keep the types of the client's state.
LEMMA FrameClientOK ==
  ASSUME TypeOK, ReadFrame
  PROVE  ClientOK' /\ drain' \in BOOLEAN
<1> DEFINE f == Head(stdout)
<1>1. f \in [kind : FrameKinds, id : Calls \cup {None}]
  BY HeadTailProperties DEF TypeOK, ChildOK, ReadFrame
<1> HIDE DEF f
<1>2. /\ UNCHANGED <<proc, owner, restartAttempt, issued>>
      /\ IF helloDone THEN OnFrame(f) ELSE ConsumeHello(f)
  BY DEF ReadFrame, recovery, f
<1>3. CASE ConsumeHello(f)
  BY <1>2, <1>3 DEF TypeOK, FlagsOK, ClientOK, ConsumeHello, RejectHandshake, settling,
     corruption, issued
<1>4. CASE OnFrame(f)
  <2>1. /\ handshake' = handshake /\ protocolStreak' \in Nat
    BY <1>4, RtkClientAssumption
       DEF TypeOK, ClientOK, OnFrame, Strike, NoStrike
  <2>2. lateReplyIds' \in Seq(Calls)
    BY <1>4, WithoutType DEF TypeOK, ClientOK, OnFrame
  <2>3. inFlight' \in Calls \cup {None} /\ stalledTimer' \in Calls \cup {None}
    BY <1>4 DEF TypeOK, ClientOK, OnFrame, FreeSlot
  <2>4. ASSUME NEW why, DegradeFrom(why) \in Outcomes, Deliver(f, why)
        PROVE  /\ pending' \subseteq Calls /\ queue' \in Seq(Calls)
               /\ outcome' \in [Calls -> Outcomes] /\ drain' \in BOOLEAN
    <3>1. CASE f.id \in pending
      BY <2>4, <3>1, SettleType DEF Deliver, Waiter, TypeOK, ClientOK
    <3>2. CASE f.id \notin pending
      BY <2>4, <3>2 DEF Deliver, Waiter, TypeOK, FlagsOK, ClientOK
    <3> QED
      BY <3>1, <3>2
  <2>5. f.id \notin pending /\ Deliver(f, "none") =>
          /\ pending' \subseteq Calls /\ queue' \in Seq(Calls)
          /\ outcome' \in [Calls -> Outcomes] /\ drain' \in BOOLEAN
    BY DEF Deliver, Waiter, TypeOK, FlagsOK, ClientOK
  <2>6. \A why \in {"ok", "serverError", "protocol"} : DegradeFrom(why) \in Outcomes
    BY DEF DegradeFrom, Outcomes
  <2>7. /\ pending' \subseteq Calls /\ queue' \in Seq(Calls)
        /\ outcome' \in [Calls -> Outcomes] /\ drain' \in BOOLEAN
    <3>1. CASE UNCHANGED settling
      BY <3>1 DEF settling, TypeOK, FlagsOK, ClientOK
    <3>2. CASE Deliver(f, "serverError")
      BY <3>2, <2>4, <2>6
    <3>3. CASE f.id \notin pending /\ Deliver(f, "none")
      BY <3>3, <2>5
    <3>4. CASE Deliver(f, "protocol")
      BY <3>4, <2>4, <2>6
    <3>5. CASE Deliver(f, "ok")
      BY <3>5, <2>4, <2>6
    <3> QED
      BY <1>4, <3>1, <3>2, <3>3, <3>4, <3>5 DEF OnFrame, Waiter
  <2> QED
    BY <1>2, <2>1, <2>2, <2>3, <2>7 DEF TypeOK, ClientOK, issued
<1> QED
  BY <1>2, <1>3, <1>4

\* Every variable keeps its type, for every value of the constants.
THEOREM TypeCorrect == Spec => []TypeOK
<1>1. Init => TypeOK
  <2>1. Init => FlagsOK
    BY DEF Init, FlagsOK
  <2>2. Init => ClientOK
    BY RtkClientAssumption DEF Init, ClientOK, None, Calls, Outcomes
  <2>3. Init => ChildOK
    BY RtkClientAssumption DEF Init, ChildOK
  <2> QED
    BY <2>1, <2>2, <2>3 DEF TypeOK
<1>2. TypeOK /\ [Next]_vars => TypeOK'
  <2> SUFFICES ASSUME TypeOK, [Next]_vars PROVE TypeOK'
    OBVIOUS
  <2>1. CASE Create
    <3>1. Spawn("create", FALSE) /\ UNCHANGED <<created, ready, requests>>
      BY <2>1 DEF Create
    <3> QED
      BY <3>1, SpawnType DEF TypeOK, FlagsOK, ClientOK, requests, settling,
         corruption, issued
  <2>2. ASSUME NEW b \in FrameBytes, Request(b) PROVE TypeOK'
    <3>1. FlagsOK'
      BY <2>2 DEF TypeOK, FlagsOK, Request, lifecycle, recovery, requests,
         settling, corruption, issued, children, pipes
    <3>2. ClientOK'
      BY <2>2, RtkClientAssumption DEF TypeOK, ClientOK, None, Procs, Calls,
         Request, lifecycle, recovery, requests, settling, corruption, issued,
         children, pipes
    <3>3. ChildOK'
      BY <2>2, RtkClientAssumption DEF TypeOK, ChildOK, FrameKinds, Request,
         lifecycle, recovery, requests, settling, corruption, issued,
         children, pipes
    <3> QED
      BY <3>1, <3>2, <3>3 DEF TypeOK
  <2>3. CASE DrainQueue
    <3>1. /\ pending' \subseteq Calls /\ queue' \in Seq(Calls)
          /\ outcome' \in [Calls -> Outcomes] /\ drain' \in BOOLEAN
      <4>1. CASE queue # <<>> /\ \E why \in GiveUpReasons(Head(queue)) : Settle(Head(queue), why)
        <5>1. PICK why \in GiveUpReasons(Head(queue)) : Settle(Head(queue), why)
          BY <4>1
        <5>2. Head(queue) \in Calls
          BY <4>1, HeadTailProperties DEF TypeOK, ClientOK
        <5>3. DegradeFrom(why) \in Outcomes
          BY <5>1 DEF GiveUpReasons, DegradeFrom, Outcomes
        <5> QED
          BY <5>1, <5>2, <5>3, SettleType
      <4>2. CASE queue # <<>> /\ SendJob(Head(queue))
        <5>1. Tail(queue) \in Seq(Calls)
          BY <4>2, HeadTailProperties DEF TypeOK, ClientOK
        <5> QED
          BY <4>2, <5>1 DEF SendJob, TypeOK, FlagsOK, ClientOK
      <4>3. CASE drain' = FALSE /\ UNCHANGED <<pending, queue, outcome>>
        BY <4>3 DEF TypeOK, ClientOK
      <4> QED
        BY <2>3, <4>1, <4>2, <4>3 DEF DrainQueue
    <3>2. inFlight' \in Calls \cup {None}
      <4>1. queue # <<>> => Head(queue) \in Calls
        BY HeadTailProperties DEF TypeOK, ClientOK
      <4> QED
        BY <2>3, <4>1 DEF DrainQueue, SendJob, TypeOK, ClientOK
    <3>3. inbox' \in SUBSET Calls
      <4>1. queue # <<>> => Head(queue) \in Calls
        BY HeadTailProperties DEF TypeOK, ClientOK
      <4> QED
        BY <2>3, <4>1 DEF DrainQueue, SendJob, TypeOK, ChildOK
    <3>4. UNCHANGED <<lifecycle, stalledTimer, corruption, issued, spawns, child,
                      signal, saidHello, helloDone, stdout, noise>>
      BY <2>3 DEF DrainQueue
    <3>5. FlagsOK'
      BY <3>1, <3>4 DEF TypeOK, FlagsOK, lifecycle, recovery
    <3>6. ClientOK'
      BY <3>1, <3>2, <3>4 DEF TypeOK, ClientOK, lifecycle, recovery, corruption, issued
    <3>7. ChildOK'
      BY <3>3, <3>4 DEF TypeOK, ChildOK
    <3> QED
      BY <3>5, <3>6, <3>7 DEF TypeOK
  <2>4. ASSUME NEW c \in Calls, Timeout(c) PROVE TypeOK'
    <3>1. DegradeFrom("timeout") \in Outcomes
      BY DEF DegradeFrom, Outcomes
    <3>2. /\ pending' \subseteq Calls /\ queue' \in Seq(Calls)
          /\ outcome' \in [Calls -> Outcomes] /\ drain' \in BOOLEAN
      BY <2>4, <3>1, SettleType DEF Timeout
    <3>3. lateReplyIds' \in Seq(Calls) /\ stalledTimer' \in Calls \cup {None}
      BY <2>4, RingType DEF Timeout, TypeOK, ClientOK
    <3>4. UNCHANGED <<lifecycle, children, inFlight, protocolStreak, issued>>
      BY <2>4 DEF Timeout
    <3>5. FlagsOK'
      BY <3>2, <3>4 DEF TypeOK, FlagsOK, lifecycle, recovery, children, pipes
    <3>6. ClientOK'
      BY <3>2, <3>3, <3>4 DEF TypeOK, ClientOK, lifecycle, recovery, issued
    <3>7. ChildOK'
      BY <3>4, SameChildOK
    <3> QED
      BY <3>5, <3>6, <3>7 DEF TypeOK
  <2>5. CASE StallTimerFires
    <3>1. FlagsOK'
      BY <2>5 DEF TypeOK, FlagsOK, StallTimerFires, Kill, lifecycle, recovery,
         requests, settling, corruption, issued, children, pipes
    <3>2. ClientOK'
      BY <2>5, RtkClientAssumption DEF TypeOK, ClientOK, None, Procs, Calls,
         StallTimerFires, Kill, lifecycle, recovery, requests, settling,
         corruption, issued, children, pipes
    <3>3. ChildOK'
      BY <2>5, RtkClientAssumption DEF TypeOK, ChildOK, FrameKinds,
         StallTimerFires, Kill, lifecycle, recovery, requests, settling,
         corruption, issued, children, pipes
    <3> QED
      BY <3>1, <3>2, <3>3 DEF TypeOK
  <2>6. CASE RestartTimerFires
    <3>1. UNCHANGED <<created, ready, requests>>
      BY <2>6 DEF RestartTimerFires
    <3>2. CASE Spawn("restart", FALSE)
      BY <3>1, <3>2, SpawnType DEF TypeOK, FlagsOK, ClientOK, requests, settling,
         corruption, issued
    <3>3. CASE UNCHANGED <<proc, shuttingDown, closed, handshake, owner, children>>
      <4>1. /\ restartAttempt' \in 0..MaxRestartAttempts
            /\ breakerOpen' \in BOOLEAN /\ probeTimer' \in BOOLEAN
            /\ restartTimer' \in BOOLEAN
        <5>1. CASE ScheduleRestart(FALSE)
          BY <5>1, ScheduleType
        <5>2. CASE restartTimer' = FALSE /\ UNCHANGED <<restartAttempt, breakerOpen, probeTimer>>
          BY <5>2 DEF TypeOK, FlagsOK, ClientOK
        <5>3. CASE Spawn("restart", FALSE)
          BY <5>3, SpawnType
        <5> QED
          BY <2>6, <5>1, <5>2, <5>3 DEF RestartTimerFires
      <4>2. ChildOK'
        BY <3>3, SameChildOK
      <4>3. FlagsOK'
        BY <3>1, <3>3, <4>1 DEF TypeOK, FlagsOK, children, pipes, requests, settling
      <4>4. ClientOK'
        BY <3>1, <3>3, <4>1 DEF TypeOK, ClientOK, requests, settling, corruption, issued
      <4> QED
        BY <4>2, <4>3, <4>4 DEF TypeOK
    <3> QED
      BY <2>6, <3>2, <3>3 DEF RestartTimerFires
  <2>7. CASE ProbeTimerFires
    <3>1. Spawn("probe", restartTimer) /\ UNCHANGED <<created, ready, requests>>
      BY <2>7 DEF ProbeTimerFires
    <3>2. restartTimer \in BOOLEAN
      BY DEF TypeOK, FlagsOK
    <3> QED
      BY <3>1, <3>2, SpawnType DEF TypeOK, FlagsOK, ClientOK, requests, settling,
         corruption, issued
  <2>8. CASE HandshakeTimesOut
    <3>1. FlagsOK'
      BY <2>8 DEF TypeOK, FlagsOK, HandshakeTimesOut, RejectHandshake,
         lifecycle, recovery, requests, settling, corruption, issued,
         children, pipes
    <3>2. ClientOK'
      BY <2>8, RtkClientAssumption DEF TypeOK, ClientOK, None, Procs, Calls,
         HandshakeTimesOut, RejectHandshake, lifecycle, recovery, requests,
         settling, corruption, issued, children, pipes
    <3>3. ChildOK'
      BY <2>8, RtkClientAssumption DEF TypeOK, ChildOK, FrameKinds,
         HandshakeTimesOut, RejectHandshake, lifecycle, recovery, requests,
         settling, corruption, issued, children, pipes
    <3> QED
      BY <3>1, <3>2, <3>3 DEF TypeOK
  <2>9. CASE GraceExpires
    <3>1. FlagsOK'
      BY <2>9 DEF TypeOK, FlagsOK, GraceExpires, Kill, lifecycle, recovery,
         requests, settling, corruption, issued, children, pipes
    <3>2. ClientOK'
      BY <2>9, RtkClientAssumption DEF TypeOK, ClientOK, None, Procs, Calls,
         GraceExpires, Kill, lifecycle, recovery, requests, settling,
         corruption, issued, children, pipes
    <3>3. ChildOK'
      BY <2>9, RtkClientAssumption DEF TypeOK, ChildOK, FrameKinds,
         GraceExpires, Kill, lifecycle, recovery, requests, settling,
         corruption, issued, children, pipes
    <3> QED
      BY <3>1, <3>2, <3>3 DEF TypeOK
  <2>10. CASE HandshakeAccepted
    <3>1. FlagsOK'
      BY <2>10 DEF TypeOK, FlagsOK, HandshakeAccepted, lifecycle, recovery,
         requests, settling, corruption, issued, children, pipes
    <3>2. ClientOK'
      BY <2>10, RtkClientAssumption DEF TypeOK, ClientOK, None, Procs, Calls,
         HandshakeAccepted, lifecycle, recovery, requests, settling,
         corruption, issued, children, pipes
    <3>3. ChildOK'
      BY <2>10, RtkClientAssumption DEF TypeOK, ChildOK, FrameKinds,
         HandshakeAccepted, lifecycle, recovery, requests, settling,
         corruption, issued, children, pipes
    <3> QED
      BY <3>1, <3>2, <3>3 DEF TypeOK
  <2>11. CASE ReadFrame
    <3>1. ClientOK' /\ drain' \in BOOLEAN
      BY <2>11, FrameClientOK
    <3>2. FlagsOK'
      BY <2>11, <3>1 DEF ReadFrame, OnFrame, ConsumeHello, TypeOK, FlagsOK, recovery
    <3>3. signal' \in [Procs -> {"none", "term", "kill"}]
      BY <2>11 DEF ReadFrame, OnFrame, ConsumeHello, RejectHandshake, Strike, NoStrike,
         Kill, TypeOK, ChildOK
    <3>4. stdout' \in Seq([kind : FrameKinds, id : Calls \cup {None}])
      BY <2>11, HeadTailProperties DEF ReadFrame, TypeOK, ChildOK
    <3>5. ChildOK'
      BY <2>11, <3>3, <3>4 DEF ReadFrame, TypeOK, ChildOK
    <3> QED
      BY <3>1, <3>2, <3>5 DEF TypeOK
  <2>12. CASE ExitNoticed
    <3>1. DegradeFrom("crash") \in Outcomes
      BY DEF DegradeFrom, Outcomes
    <3>2. /\ pending' \subseteq Calls /\ queue' \in Seq(Calls)
          /\ outcome' \in [Calls -> Outcomes] /\ drain' \in BOOLEAN
      <4>1. CASE UNCHANGED settling
        BY <4>1 DEF settling, TypeOK, FlagsOK, ClientOK
      <4>2. CASE SettleAll("crash")
        BY <3>1, <4>2, SettleAllType
      <4> QED
        BY <2>12, <4>1, <4>2 DEF ExitNoticed
    <3>3. /\ restartAttempt' \in 0..MaxRestartAttempts
          /\ handshake' \in {"none", handshake} /\ owner' \in {"none", owner}
          /\ shuttingDown' \in BOOLEAN /\ closed' \in BOOLEAN
          /\ breakerOpen' \in BOOLEAN /\ probeTimer' \in BOOLEAN /\ restartTimer' \in BOOLEAN
      <4>1. restartTimer \in BOOLEAN
        BY DEF TypeOK, FlagsOK
      <4>2. CASE SpawnFailed(owner, restartTimer)
        BY <4>1, <4>2, SpawnFailedType
      <4>3. CASE closed' = TRUE /\ UNCHANGED <<shuttingDown, handshake, owner, recovery>>
        BY <4>3 DEF TypeOK, FlagsOK, ClientOK, recovery
      <4>4. CASE ScheduleRestart(restartTimer)
                 /\ UNCHANGED <<shuttingDown, closed, handshake, owner>>
        BY <4>1, <4>4, ScheduleType DEF TypeOK, FlagsOK
      <4> QED
        BY <2>12, <4>2, <4>3, <4>4 DEF ExitNoticed
    <3>4. /\ UNCHANGED <<created, corruption, issued, spawns, signal, pipes>>
          /\ ready' \in {ready, FALSE} /\ proc' \in {proc, None}
          /\ inFlight' \in {inFlight, None} /\ stalledTimer' \in {stalledTimer, None}
      BY <2>12 DEF ExitNoticed
    <3>6. FlagsOK'
      BY <3>2, <3>3, <3>4 DEF TypeOK, FlagsOK, pipes
    <3>7. ClientOK'
      BY <3>2, <3>3, <3>4 DEF TypeOK, ClientOK, corruption, issued
    <3>5. ChildOK'
      BY <2>12 DEF ExitNoticed, TypeOK, ChildOK, pipes
    <3> QED
      BY <3>5, <3>6, <3>7 DEF TypeOK
  <2>13. CASE Shutdown
    <3>1. DegradeFrom("shutdown") \in Outcomes
      BY DEF DegradeFrom, Outcomes
    <3>2. /\ pending' \subseteq Calls /\ queue' \in Seq(Calls)
          /\ outcome' \in [Calls -> Outcomes] /\ drain' \in BOOLEAN
      BY <2>13, <3>1, SettleAllType DEF Shutdown
    <3>3. FlagsOK'
      BY <2>13, <3>2 DEF Shutdown, NothingToReap, TypeOK, FlagsOK, pipes
    <3>4. ClientOK'
      BY <2>13, <3>2 DEF Shutdown, TypeOK, ClientOK, corruption, issued, None
    <3>5. ChildOK'
      BY <2>13 DEF Shutdown, TypeOK, ChildOK, pipes
    <3> QED
      BY <3>3, <3>4, <3>5 DEF TypeOK
  <2>14. CASE ServerHello
    <3>1. FlagsOK'
      BY <2>14 DEF TypeOK, FlagsOK, ServerHello, ChildUnchanged, lifecycle,
         recovery, requests, settling, corruption, issued, children, pipes
    <3>2. ClientOK'
      BY <2>14, RtkClientAssumption DEF TypeOK, ClientOK, None, Procs, Calls,
         ServerHello, ChildUnchanged, lifecycle, recovery, requests, settling,
         corruption, issued, children, pipes
    <3>3. ChildOK'
      BY <2>14, RtkClientAssumption DEF TypeOK, ChildOK, FrameKinds,
         ServerHello, ChildUnchanged, lifecycle, recovery, requests, settling,
         corruption, issued, children, pipes
    <3> QED
      BY <3>1, <3>2, <3>3 DEF TypeOK
  <2>15. ASSUME NEW c \in Calls, ServerReply(c) PROVE TypeOK'
    <3>1. FlagsOK'
      BY <2>15 DEF TypeOK, FlagsOK, ServerReply, ChildUnchanged, lifecycle,
         recovery, requests, settling, corruption, issued, children, pipes
    <3>2. ClientOK'
      BY <2>15, RtkClientAssumption DEF TypeOK, ClientOK, None, Procs, Calls,
         ServerReply, ChildUnchanged, lifecycle, recovery, requests, settling,
         corruption, issued, children, pipes
    <3>3. ChildOK'
      BY <2>15, RtkClientAssumption DEF TypeOK, ChildOK, FrameKinds,
         ServerReply, ChildUnchanged, lifecycle, recovery, requests, settling,
         corruption, issued, children, pipes
    <3> QED
      BY <3>1, <3>2, <3>3 DEF TypeOK
  <2>16. CASE ServerNoise
    <3>1. FlagsOK'
      BY <2>16 DEF TypeOK, FlagsOK, ServerNoise, ChildUnchanged, lifecycle,
         recovery, requests, settling, corruption, issued, children, pipes
    <3>2. ClientOK'
      BY <2>16, RtkClientAssumption DEF TypeOK, ClientOK, None, Procs, Calls,
         ServerNoise, ChildUnchanged, lifecycle, recovery, requests, settling,
         corruption, issued, children, pipes
    <3>3. ChildOK'
      BY <2>16, RtkClientAssumption DEF TypeOK, ChildOK, FrameKinds,
         ServerNoise, ChildUnchanged, lifecycle, recovery, requests, settling,
         corruption, issued, children, pipes
    <3> QED
      BY <3>1, <3>2, <3>3 DEF TypeOK
  <2>17. CASE ChildExits
    <3>1. FlagsOK'
      BY <2>17 DEF TypeOK, FlagsOK, ChildExits, ChildUnchanged, lifecycle,
         recovery, requests, settling, corruption, issued, children, pipes
    <3>2. ClientOK'
      BY <2>17, RtkClientAssumption DEF TypeOK, ClientOK, None, Procs, Calls,
         ChildExits, ChildUnchanged, lifecycle, recovery, requests, settling,
         corruption, issued, children, pipes
    <3>3. ChildOK'
      BY <2>17, RtkClientAssumption DEF TypeOK, ChildOK, FrameKinds,
         ChildExits, ChildUnchanged, lifecycle, recovery, requests, settling,
         corruption, issued, children, pipes
    <3> QED
      BY <3>1, <3>2, <3>3 DEF TypeOK
  <2>18. CASE UNCHANGED vars
    BY <2>18 DEF TypeOK, FlagsOK, ClientOK, ChildOK, vars, lifecycle,
       recovery, requests, settling, corruption, issued, children, pipes
  <2> QED
    BY <2>1, <2>2, <2>3, <2>4, <2>5, <2>6, <2>7, <2>8, <2>9, <2>10, <2>11,
       <2>12, <2>13, <2>14, <2>15, <2>16, <2>17, <2>18 DEF Next
<1> QED
  BY <1>1, <1>2, PTL DEF Spec
-----------------------------------------------------------------------------
(***************************************************************************)
(* The life cycle of the child.                                            *)
(***************************************************************************)

\* A step that leaves the life cycle and the children alone, and admits no
\* request, keeps the invariant.
LEMMA QuietStep ==
  ASSUME LifecycleInv, pending' \subseteq pending,
         UNCHANGED <<created, proc, ready, shuttingDown, closed, handshake, owner,
                     breakerOpen, restartTimer, probeTimer, spawns, child>>
  PROVE  LifecycleInv'
<1>1. ChildrenInOrder' /\ ProcIsLast' /\ LastIsGone'
  BY DEF LifecycleInv, ChildrenInOrder, ProcIsLast, LastIsGone, Spawning
<1>2. SpawnHasOwner' /\ BeforeCreated' /\ OneRecoveryOwner'
  BY DEF LifecycleInv, SpawnHasOwner, BeforeCreated, OneRecoveryOwner, Spawning
<1>3. AfterShutdown' /\ PendingNeedsReady'
  BY DEF LifecycleInv, AfterShutdown, PendingNeedsReady, Spawning
<1> QED
  BY <1>1, <1>2, <1>3 DEF LifecycleInv

\* scheduleRestart() leaves exactly one of the two timers armed, the probe
\* interval exactly when the breaker is open.
LEMMA ScheduleOutcome ==
  ASSUME FlagsOK, ~shuttingDown, probeTimer = breakerOpen, ScheduleRestart(FALSE)
  PROVE  probeTimer' = breakerOpen' /\ restartTimer' = ~probeTimer'
<1>1. CASE breakerOpen
  BY <1>1 DEF FlagsOK, ScheduleRestart, ProbesStarted
<1>2. CASE ~breakerOpen /\ Trips(restartAttempt + 1)
  BY <1>2 DEF FlagsOK, ScheduleRestart, ProbesStarted
<1>3. CASE ~breakerOpen /\ ~Trips(restartAttempt + 1)
  BY <1>3 DEF FlagsOK, ScheduleRestart, ProbesStarted
<1> QED
  BY <1>1, <1>2, <1>3 DEF FlagsOK

\* create(), a restart and a probe spawn only when no child is left, and what
\* follows a spawn that fails leaves one owner of the recovery.
LEMMA SpawnStep ==
  ASSUME TypeOK, LifecycleInv, ~SpawnBlocked,
         NEW who \in {"create", "restart", "probe"},
         who = "create" <=> ~created, ~created => spawns = 0,
         who = "probe" => probeTimer,
         Spawn(who, FALSE), UNCHANGED <<created, ready, requests>>
  PROVE  LifecycleInv'
<1> USE RtkClientAssumption DEF TypeOK, FlagsOK, ClientOK, ChildOK, None, Procs, LifecycleInv,
       ChildrenInOrder, ProcIsLast, LastIsGone, SpawnHasOwner, BeforeCreated,
       AfterShutdown, PendingNeedsReady, OneRecoveryOwner, Spawning, SpawnBlocked
<1>1. ~ready /\ pending = {}
  OBVIOUS
<1>2. /\ UNCHANGED <<created, ready, pending>>
  BY DEF requests, settling
<1>3. CASE SpawnAndGreet(who) /\ restartTimer' = FALSE
           /\ UNCHANGED <<shuttingDown, closed, restartAttempt, breakerOpen, probeTimer>>
  <2>1. ChildrenInOrder'
    BY <1>1, <1>2, <1>3 DEF SpawnAndGreet
  <2>2. ProcIsLast'
    BY <1>1, <1>2, <1>3 DEF SpawnAndGreet
  <2>3. LastIsGone'
    BY <1>1, <1>2, <1>3 DEF SpawnAndGreet
  <2>4. SpawnHasOwner'
    BY <1>1, <1>2, <1>3 DEF SpawnAndGreet
  <2>5. BeforeCreated'
    BY <1>1, <1>2, <1>3 DEF SpawnAndGreet
  <2>6. AfterShutdown'
    BY <1>1, <1>2, <1>3 DEF SpawnAndGreet
  <2>7. PendingNeedsReady'
    BY <1>1, <1>2, <1>3 DEF SpawnAndGreet
  <2>8. OneRecoveryOwner'
    BY <1>1, <1>2, <1>3 DEF SpawnAndGreet
  <2> QED
    BY <2>1, <2>2, <2>3, <2>4, <2>5, <2>6, <2>7, <2>8 DEF LifecycleInv
<1>4. CASE SpawnFailed(who, FALSE) /\ UNCHANGED <<proc, children>>
  <2>1. ChildrenInOrder'
    BY <1>1, <1>2, <1>4 DEF SpawnFailed, Reschedules, children
  <2>2. ProcIsLast'
    BY <1>1, <1>2, <1>4 DEF SpawnFailed, Reschedules, children
  <2>3. LastIsGone'
    BY <1>1, <1>2, <1>4 DEF SpawnFailed, Reschedules, children
  <2>4. SpawnHasOwner'
    BY <1>1, <1>2, <1>4 DEF SpawnFailed, Reschedules, children
  <2>5. BeforeCreated'
    <3>1. CASE created
      BY <1>2, <3>1
    <3>2. CASE ~created
      <4>1. who = "create" /\ spawns = 0 /\ spawns' = spawns
        BY <1>4, <3>2 DEF children
      <4>2. restartTimer' = FALSE /\ UNCHANGED <<breakerOpen, probeTimer>>
        BY <1>4, <4>1 DEF SpawnFailed, Reschedules
      <4> QED
        BY <3>2, <4>1, <4>2
    <3> QED
      BY <3>1, <3>2
  <2>6. AfterShutdown'
    BY <1>1, <1>2, <1>4 DEF SpawnFailed, Reschedules, children
  <2>7. PendingNeedsReady'
    BY <1>1, <1>2, <1>4 DEF SpawnFailed, Reschedules, children
  <2>8. OneRecoveryOwner'
    <3>1. CASE who = "restart"
      <4>1. created /\ ~shuttingDown /\ probeTimer = breakerOpen /\ proc' = None
        BY <1>4, <3>1
      <4>2. ScheduleRestart(FALSE) /\ handshake' = "none"
        BY <1>4, <3>1 DEF SpawnFailed, Reschedules
      <4>3. probeTimer' = breakerOpen' /\ restartTimer' = ~probeTimer'
        BY <4>1, <4>2, ScheduleOutcome
      <4> QED
        BY <4>1, <4>2, <4>3
    <3>2. CASE who # "restart"
      BY <1>1, <1>2, <1>4, <3>2 DEF SpawnFailed, Reschedules
    <3> QED
      BY <3>1, <3>2
  <2> QED
    BY <2>1, <2>2, <2>3, <2>4, <2>5, <2>6, <2>7, <2>8 DEF LifecycleInv
<1> QED
  BY <1>3, <1>4 DEF Spawn

\* proc.exited resolving keeps the invariant.
LEMMA ExitStep ==
  ASSUME TypeOK, LifecycleInv, ExitNoticed
  PROVE  LifecycleInv'
<1> USE RtkClientAssumption DEF TypeOK, FlagsOK, ClientOK, ChildOK, None, Procs, LifecycleInv,
       ChildrenInOrder, ProcIsLast, LastIsGone, SpawnHasOwner, BeforeCreated,
       AfterShutdown, PendingNeedsReady, OneRecoveryOwner, Spawning
<1>1. ChildrenInOrder'
  BY DEF ExitNoticed, SpawnFailed, Reschedules, ScheduleRestart, ProbesStarted,
     SettleAll, settling, recovery
<1>2. ProcIsLast'
  BY DEF ExitNoticed, SpawnFailed, Reschedules, ScheduleRestart, ProbesStarted,
     SettleAll, settling, recovery
<1>3. LastIsGone'
  BY DEF ExitNoticed, SpawnFailed, Reschedules, ScheduleRestart, ProbesStarted,
     SettleAll, settling, recovery
<1>4. SpawnHasOwner'
  BY DEF ExitNoticed, SpawnFailed, Reschedules, ScheduleRestart, ProbesStarted,
     SettleAll, settling, recovery
<1>5. BeforeCreated'
  BY DEF ExitNoticed, SpawnFailed, Reschedules, ScheduleRestart, ProbesStarted,
     SettleAll, settling, recovery
<1>6. AfterShutdown'
  BY DEF ExitNoticed, SpawnFailed, Reschedules, ScheduleRestart, ProbesStarted,
     SettleAll, settling, recovery
<1>7. PendingNeedsReady'
  BY DEF ExitNoticed, SpawnFailed, Reschedules, ScheduleRestart, ProbesStarted,
     SettleAll, settling, recovery
<1>8. OneRecoveryOwner'
  <2>1. SUFFICES ASSUME created', ~shuttingDown'
               PROVE  OneRecoveryOwner'
    OBVIOUS
  <2>2. /\ created /\ ~shuttingDown /\ proc = spawns /\ proc' = None /\ ready' = FALSE
        /\ ~restartTimer /\ probeTimer = breakerOpen
    BY <2>1 DEF ExitNoticed, SpawnFailed
  <2>3. handshake' = "none"
    BY <2>1, <2>2 DEF ExitNoticed, SpawnFailed
  <2>4. probeTimer' = breakerOpen' /\ restartTimer' = ~probeTimer'
    <3>1. CASE Spawning /\ owner = "probe"
      BY <2>1, <2>2, <3>1 DEF ExitNoticed, SpawnFailed, Reschedules
    <3>2. CASE Spawning /\ owner # "probe"
      <4>1. SpawnFailed("restart", FALSE)
        BY <2>1, <2>2, <3>2 DEF ExitNoticed
      <4> QED
        BY <2>2, <4>1, ScheduleOutcome DEF SpawnFailed, Reschedules
    <3>3. CASE ~Spawning
      <4>1. ScheduleRestart(FALSE)
        BY <2>1, <2>2, <3>3 DEF ExitNoticed
      <4> QED
        BY <2>2, <4>1, ScheduleOutcome
    <3> QED
      BY <3>1, <3>2, <3>3
  <2> QED
    BY <2>2, <2>3, <2>4
<1> QED
  BY <1>1, <1>2, <1>3, <1>4, <1>5, <1>6, <1>7, <1>8 DEF LifecycleInv

\* Every step keeps the invariant.
LEMMA LifecycleStep ==
  ASSUME TypeOK, LifecycleInv, [Next]_vars
  PROVE  LifecycleInv'
<1> USE RtkClientAssumption DEF TypeOK, FlagsOK, ClientOK, ChildOK, None, Procs, LifecycleInv,
       ChildrenInOrder, ProcIsLast, LastIsGone, SpawnHasOwner, BeforeCreated,
       AfterShutdown, PendingNeedsReady, OneRecoveryOwner, Spawning
<1>1. CASE Create
  <2>1. ~created /\ ~SpawnBlocked
    BY <1>1 DEF Create, SpawnBlocked
  <2> HIDE DEF LifecycleInv, TypeOK
  <2> QED
    BY <1>1, <2>1, SpawnStep DEF Create
<1>2. CASE RestartTimerFires
  <2>1. created /\ ~probeTimer /\ ~SpawnBlocked
    BY <1>2 DEF RestartTimerFires, SpawnBlocked
  <2> HIDE DEF LifecycleInv, TypeOK
  <2> QED
    BY <1>2, <2>1, SpawnStep DEF RestartTimerFires
<1>3. CASE ProbeTimerFires
  <2>1. created /\ ~restartTimer
    BY <1>3 DEF ProbeTimerFires, SpawnBlocked
  <2>2. Spawn("probe", FALSE)
    BY <1>3, <2>1 DEF ProbeTimerFires
  <2> HIDE DEF LifecycleInv, TypeOK
  <2> QED
    BY <1>3, <2>1, <2>2, SpawnStep DEF ProbeTimerFires
<1>4. CASE HandshakeTimesOut
  <2>1. ChildrenInOrder'
    BY <1>4 DEF HandshakeTimesOut, RejectHandshake, recovery, requests, settling
  <2>2. ProcIsLast'
    BY <1>4 DEF HandshakeTimesOut, RejectHandshake, recovery, requests, settling
  <2>3. LastIsGone'
    BY <1>4 DEF HandshakeTimesOut, RejectHandshake, recovery, requests, settling
  <2>4. SpawnHasOwner'
    BY <1>4 DEF HandshakeTimesOut, RejectHandshake, recovery, requests, settling
  <2>5. BeforeCreated'
    BY <1>4 DEF HandshakeTimesOut, RejectHandshake, recovery, requests, settling
  <2>6. AfterShutdown'
    BY <1>4 DEF HandshakeTimesOut, RejectHandshake, recovery, requests, settling
  <2>7. PendingNeedsReady'
    BY <1>4 DEF HandshakeTimesOut, RejectHandshake, recovery, requests, settling
  <2>8. OneRecoveryOwner'
    BY <1>4 DEF HandshakeTimesOut, RejectHandshake, recovery, requests, settling
  <2> QED
    BY <2>1, <2>2, <2>3, <2>4, <2>5, <2>6, <2>7, <2>8 DEF LifecycleInv
<1>5. CASE HandshakeAccepted
  <2>1. ChildrenInOrder'
    BY <1>5 DEF HandshakeAccepted, settling, children
  <2>2. ProcIsLast'
    BY <1>5 DEF HandshakeAccepted, settling, children
  <2>3. LastIsGone'
    BY <1>5 DEF HandshakeAccepted, settling, children
  <2>4. SpawnHasOwner'
    BY <1>5 DEF HandshakeAccepted, settling, children
  <2>5. BeforeCreated'
    BY <1>5 DEF HandshakeAccepted, settling, children
  <2>6. AfterShutdown'
    BY <1>5 DEF HandshakeAccepted, settling, children
  <2>7. PendingNeedsReady'
    BY <1>5 DEF HandshakeAccepted, settling, children
  <2>8. OneRecoveryOwner'
    BY <1>5 DEF HandshakeAccepted, settling, children
  <2> QED
    BY <2>1, <2>2, <2>3, <2>4, <2>5, <2>6, <2>7, <2>8 DEF LifecycleInv
<1>6. CASE ReadFrame /\ ~helloDone
  <2>1. ChildrenInOrder'
    BY <1>6 DEF ReadFrame, ConsumeHello, RejectHandshake, recovery, settling
  <2>2. ProcIsLast'
    BY <1>6 DEF ReadFrame, ConsumeHello, RejectHandshake, recovery, settling
  <2>3. LastIsGone'
    BY <1>6 DEF ReadFrame, ConsumeHello, RejectHandshake, recovery, settling
  <2>4. SpawnHasOwner'
    BY <1>6 DEF ReadFrame, ConsumeHello, RejectHandshake, recovery, settling
  <2>5. BeforeCreated'
    BY <1>6 DEF ReadFrame, ConsumeHello, RejectHandshake, recovery, settling
  <2>6. AfterShutdown'
    BY <1>6 DEF ReadFrame, ConsumeHello, RejectHandshake, recovery, settling
  <2>7. PendingNeedsReady'
    BY <1>6 DEF ReadFrame, ConsumeHello, RejectHandshake, recovery, settling
  <2>8. OneRecoveryOwner'
    BY <1>6 DEF ReadFrame, ConsumeHello, RejectHandshake, recovery, settling
  <2> QED
    BY <2>1, <2>2, <2>3, <2>4, <2>5, <2>6, <2>7, <2>8 DEF LifecycleInv
<1>7. CASE ReadFrame /\ helloDone
  <2>1. /\ OnFrame(Head(stdout))
        /\ UNCHANGED <<created, proc, ready, shuttingDown, closed, owner, breakerOpen,
                       restartTimer, probeTimer, spawns, child>>
    BY <1>7 DEF ReadFrame, recovery
  <2>2. pending' \subseteq pending /\ handshake' = handshake
    BY <2>1 DEF OnFrame, Deliver, Settle, settling
  <2> QED
    BY <2>1, <2>2, QuietStep
<1>8. CASE ExitNoticed
  BY <1>8, ExitStep
<1>9. CASE Shutdown
  <2>1. ChildrenInOrder'
    BY <1>9 DEF Shutdown, SettleAll, NothingToReap
  <2>2. ProcIsLast'
    BY <1>9 DEF Shutdown, SettleAll, NothingToReap
  <2>3. LastIsGone'
    BY <1>9 DEF Shutdown, SettleAll, NothingToReap
  <2>4. SpawnHasOwner'
    BY <1>9 DEF Shutdown, SettleAll, NothingToReap
  <2>5. BeforeCreated'
    BY <1>9 DEF Shutdown, SettleAll, NothingToReap
  <2>6. AfterShutdown'
    BY <1>9 DEF Shutdown, SettleAll, NothingToReap
  <2>7. PendingNeedsReady'
    BY <1>9 DEF Shutdown, SettleAll, NothingToReap
  <2>8. OneRecoveryOwner'
    BY <1>9 DEF Shutdown, SettleAll, NothingToReap
  <2> QED
    BY <2>1, <2>2, <2>3, <2>4, <2>5, <2>6, <2>7, <2>8 DEF LifecycleInv
<1>10. CASE ChildExits
  <2>1. ChildrenInOrder'
    BY <1>10 DEF ChildExits, ChildUnchanged, Alive, lifecycle, recovery, requests,
       settling
  <2>2. ProcIsLast'
    BY <1>10 DEF ChildExits, ChildUnchanged, Alive, lifecycle, recovery, requests,
       settling
  <2>3. LastIsGone'
    BY <1>10 DEF ChildExits, ChildUnchanged, Alive, lifecycle, recovery, requests,
       settling
  <2>4. SpawnHasOwner'
    BY <1>10 DEF ChildExits, ChildUnchanged, Alive, lifecycle, recovery, requests,
       settling
  <2>5. BeforeCreated'
    BY <1>10 DEF ChildExits, ChildUnchanged, Alive, lifecycle, recovery, requests,
       settling
  <2>6. AfterShutdown'
    BY <1>10 DEF ChildExits, ChildUnchanged, Alive, lifecycle, recovery, requests,
       settling
  <2>7. PendingNeedsReady'
    BY <1>10 DEF ChildExits, ChildUnchanged, Alive, lifecycle, recovery, requests,
       settling
  <2>8. OneRecoveryOwner'
    BY <1>10 DEF ChildExits, ChildUnchanged, Alive, lifecycle, recovery, requests,
       settling
  <2> QED
    BY <2>1, <2>2, <2>3, <2>4, <2>5, <2>6, <2>7, <2>8 DEF LifecycleInv
<1>11. ASSUME NEW b \in FrameBytes, Request(b) PROVE LifecycleInv'
  <2>1. ChildrenInOrder'
    BY <1>11 DEF Request, Available, lifecycle, recovery, children
  <2>2. ProcIsLast'
    BY <1>11 DEF Request, Available, lifecycle, recovery, children
  <2>3. LastIsGone'
    BY <1>11 DEF Request, Available, lifecycle, recovery, children
  <2>4. SpawnHasOwner'
    BY <1>11 DEF Request, Available, lifecycle, recovery, children
  <2>5. BeforeCreated'
    BY <1>11 DEF Request, Available, lifecycle, recovery, children
  <2>6. AfterShutdown'
    BY <1>11 DEF Request, Available, lifecycle, recovery, children
  <2>7. PendingNeedsReady'
    BY <1>11 DEF Request, Available, lifecycle, recovery, children
  <2>8. OneRecoveryOwner'
    BY <1>11 DEF Request, Available, lifecycle, recovery, children
  <2> QED
    BY <2>1, <2>2, <2>3, <2>4, <2>5, <2>6, <2>7, <2>8 DEF LifecycleInv
<1>12. CASE DrainQueue
  BY <1>12, QuietStep DEF DrainQueue, Settle, SendJob, lifecycle, recovery
<1>13. ASSUME NEW c \in Calls, Timeout(c) PROVE LifecycleInv'
  BY <1>13, QuietStep DEF Timeout, Settle, lifecycle, recovery, children
<1>14. CASE StallTimerFires
  BY <1>14, QuietStep DEF StallTimerFires, settling, lifecycle, recovery
<1>15. CASE GraceExpires
  BY <1>15, QuietStep DEF GraceExpires, lifecycle, recovery, requests, settling
<1>16. CASE ServerHello \/ ServerNoise \/ \E c \in Calls : ServerReply(c)
  BY <1>16, QuietStep
     DEF ServerHello, ServerNoise, ServerReply, ChildUnchanged, lifecycle, recovery,
         requests, settling
<1>17. CASE UNCHANGED vars
  BY <1>17, QuietStep DEF vars, lifecycle, recovery, requests, settling, children
<1> QED
  BY <1>1, <1>2, <1>3, <1>4, <1>5, <1>6, <1>7, <1>8, <1>9, <1>10, <1>11, <1>12,
     <1>13, <1>14, <1>15, <1>16, <1>17 DEF Next

\* The life cycle's inductive invariant holds in every reachable state.
THEOREM LifecycleCorrect == Spec => []LifecycleInv
<1>1. Init => LifecycleInv
  BY RtkClientAssumption DEF Init, LifecycleInv, ChildrenInOrder, ProcIsLast, LastIsGone,
     SpawnHasOwner, BeforeCreated, AfterShutdown, PendingNeedsReady, OneRecoveryOwner,
     Spawning, None, Procs
<1> QED
  BY <1>1, TypeCorrect, LifecycleStep, PTL DEF Spec

\* There is never a second server process, whatever the order in which exits,
\* handshakes, restarts and probes happen (spawnAndGreet, trySpawn, onChildExit).
THEOREM OneChildHolds == Spec => []OneChild
<1>1. TypeOK /\ LifecycleInv => OneChild
  BY DEF TypeOK, ChildOK, LifecycleInv, ChildrenInOrder, OneChild, Procs
<1> QED
  BY <1>1, TypeCorrect, LifecycleCorrect, PTL

\* A client that is down has exactly one thing that will bring it back, and one
\* that is up has no restart armed (onChildExit, scheduleRestart, tripBreaker).
THEOREM OneRecoveryOwnerHolds == Spec => []OneRecoveryOwner
<1>1. LifecycleInv => OneRecoveryOwner
  BY DEF LifecycleInv
<1> QED
  BY <1>1, LifecycleCorrect, PTL

\* When shutdown() has resolved there is no process, no waiter and no timer left
\* (doShutdown, terminateChild).
THEOREM ShutdownReapsHolds == Spec => []ShutdownReaps
<1>1. TypeOK /\ LifecycleInv => ShutdownReaps
  BY DEF TypeOK, ChildOK, LifecycleInv, ChildrenInOrder, AfterShutdown, ShutdownReaps,
     Procs
<1> QED
  BY <1>1, TypeCorrect, LifecycleCorrect, PTL

-----------------------------------------------------------------------------
(***************************************************************************)
(* The sum of the frames' bytes.  BytesOf is a fold over a set in an order *)
(* that CHOOSE picks; these lemmas say that the order does not matter.     *)
(***************************************************************************)

\* The bytes that the requests req give the calls of S.
Weigh(req, S) == Sets!MapThenSumSet(LAMBDA c : req[c].bytes, S)

\* The element of s that the fold takes first.
Pick(s) == CHOOSE x \in s : TRUE

\* h[s] is the fold of req over s, for the members s of the family F.
Folds(req, F, h) ==
  h = [s \in F |-> IF s = {} THEN 0 ELSE req[Pick(s)].bytes + h[s \ {Pick(s)}]]

\* The subsets of S with up to n members.
UpTo(S, n) == {s \in SUBSET S : Cardinality(s) <= n}

\* The bytes of every call of S are known.
Weighed(req, S) == \A c \in S : req[c].bytes \in Nat

\* The fold takes a member.
LEMMA PickIn ==
  ASSUME NEW s, s # {}
  PROVE  Pick(s) \in s
BY DEF Pick

\* A property of numbers that has a counterexample has a least one.
LEMMA LeastNumber ==
  ASSUME NEW S, S \subseteq Nat, S # {}
  PROVE  \E x \in S : \A y \in S : x <= y
<1> DEFINE R == {p \in Nat \X Nat : p[1] < p[2]}
<1>1. IsWellFoundedOn(R, Nat)  BY NatLessThanWellFounded DEF OpToRel
<1>2. \A y, z \in Nat : y < z => <<y, z>> \in R  OBVIOUS
<1> HIDE DEF R
<1>3. PICK x \in S : \A y \in S : ~(<<y, x>> \in R)  BY <1>1, WFMin
<1>4. ASSUME NEW y \in S  PROVE x <= y
  <2>1. y \in Nat /\ x \in Nat  OBVIOUS
  <2>2. ~(y < x)  BY <2>1, <1>2, <1>3
  <2>3. QED  BY <2>1, <2>2
<1>5. QED  BY <1>4

\* The sizes of a finite set's subsets.
LEMMA Sizes ==
  ASSUME NEW S, IsFiniteSet(S), NEW s \in SUBSET S
  PROVE  /\ IsFiniteSet(s) /\ Cardinality(s) \in Nat /\ Cardinality(s) <= Cardinality(S)
         /\ Cardinality(s) = 0 <=> s = {}
         /\ \A x \in s : Cardinality(s \ {x}) = Cardinality(s) - 1
<1>1. IsFiniteSet(s) /\ Cardinality(s) <= Cardinality(S)  BY FS_Subset
<1>2. Cardinality(s) \in Nat  BY <1>1, FS_CardinalityType
<1>3. Cardinality(s) = 0 <=> s = {}  BY <1>1, FS_EmptySet
<1>4. \A x \in s : Cardinality(s \ {x}) = Cardinality(s) - 1  BY <1>1, FS_RemoveElement
<1>5. QED  BY <1>1, <1>2, <1>3, <1>4

\* The fold over the subsets of up to n calls exists, whatever n.
LEMMA FoldUpTo ==
  ASSUME NEW req, NEW S, IsFiniteSet(S), NEW m \in Nat
  PROVE  \E h : Folds(req, UpTo(S, m), h)
<1> DEFINE F(n) == UpTo(S, n)
           Bad == {n \in Nat : ~\E h : Folds(req, F(n), h)}
<1>1. SUFFICES ASSUME Bad # {}  PROVE FALSE  OBVIOUS
<1>2. PICK n \in Bad : \A k \in Bad : n <= k
  <2> HIDE DEF Bad
  <2>1. Bad \subseteq Nat  BY DEF Bad
  <2>2. QED  BY <1>1, <2>1, LeastNumber
<1>3. n \in Nat  OBVIOUS
<1>4. CASE n = 0
  <2> DEFINE h == [s \in F(0) |-> 0]
  <2>1. \A s \in F(0) : s = {}
    <3>1. ASSUME NEW s \in F(0)  PROVE s = {}
      <4>1. s \in SUBSET S /\ Cardinality(s) <= 0  BY DEF UpTo
      <4>2. Cardinality(s) \in Nat /\ (Cardinality(s) = 0 <=> s = {})  BY <4>1, Sizes
      <4>3. QED  BY <4>1, <4>2
    <3>2. QED  BY <3>1
  <2> HIDE DEF F
  <2>2. Folds(req, F(0), h)  BY <2>1 DEF Folds
  <2>3. QED  BY <2>2, <1>4
<1>5. CASE n # 0
  <2>1. n - 1 \in Nat /\ n - 1 \notin Bad
    <3> HIDE DEF Bad
    <3>1. n - 1 \in Nat /\ ~(n <= n - 1)  BY <1>3, <1>5
    <3>2. QED  BY <3>1, <1>2
  <2>2. PICK g : Folds(req, F(n - 1), g)  BY <2>1
  <2> DEFINE h == [s \in F(n) |-> IF s = {} THEN 0 ELSE req[Pick(s)].bytes + g[s \ {Pick(s)}]]
  <2>3. \A s \in F(n - 1) : s \in F(n)
    <3>1. ASSUME NEW s \in F(n - 1)  PROVE s \in F(n)
      <4>1. s \in SUBSET S /\ Cardinality(s) <= n - 1  BY DEF UpTo
      <4>2. Cardinality(s) \in Nat  BY <4>1, Sizes
      <4>3. Cardinality(s) <= n  BY <4>1, <4>2, <1>3
      <4>4. QED  BY <4>1, <4>3 DEF UpTo
    <3>2. QED  BY <3>1
  <2>4. \A s \in F(n) : s # {} => s \ {Pick(s)} \in F(n - 1)
    <3>1. ASSUME NEW s \in F(n), s # {}  PROVE s \ {Pick(s)} \in F(n - 1)
      <4>1. s \in SUBSET S /\ Cardinality(s) <= n  BY DEF UpTo
      <4>2. Pick(s) \in s  BY <3>1, PickIn
      <4>3. Cardinality(s \ {Pick(s)}) = Cardinality(s) - 1 /\ Cardinality(s) \in Nat
        BY <4>1, <4>2, Sizes
      <4>4. Cardinality(s \ {Pick(s)}) <= n - 1  BY <4>1, <4>3, <1>3
      <4>5. QED  BY <4>1, <4>4 DEF UpTo
    <3>2. QED  BY <3>1
  <2> HIDE DEF F
  <2>5. \A s \in F(n - 1) : h[s] = g[s]
    BY <2>2, <2>3 DEF Folds
  <2>6. \A s \in F(n) : h[s] = IF s = {} THEN 0 ELSE req[Pick(s)].bytes + h[s \ {Pick(s)}]
    BY <2>4, <2>5
  <2>7. Folds(req, F(n), h)
    <3>1. h = [s \in F(n) |-> h[s]]  OBVIOUS
    <3> HIDE DEF h
    <3>2. QED  BY <3>1, <2>6 DEF Folds
  <2>8. QED  BY <2>7
<1>6. QED  BY <1>4, <1>5

\* So what BytesOf computes is such a fold.
LEMMA WeighFolds ==
  ASSUME NEW req, NEW S, IsFiniteSet(S)
  PROVE  \E h : Folds(req, SUBSET S, h) /\ Weigh(req, S) = h[S]
<1> DEFINE h == CHOOSE g : Folds(req, SUBSET S, g)
<1>1. \E g : Folds(req, SUBSET S, g)
  <2>1. Cardinality(S) \in Nat  BY FS_CardinalityType
  <2>2. UpTo(S, Cardinality(S)) = SUBSET S  BY FS_Subset DEF UpTo
  <2>3. \E g : Folds(req, UpTo(S, Cardinality(S)), g)  BY <2>1, FoldUpTo
  <2>4. QED  BY <2>2, <2>3
<1>2. Folds(req, SUBSET S, h)  BY <1>1
<1>3. Weigh(req, S) = h[S]
  BY DEF Weigh, Folds, Pick, Sets!MapThenSumSet, Sets!MapThenFoldSet
<1>4. QED  BY <1>2, <1>3

\* What the fold does at one set.
LEMMA FoldAt ==
  ASSUME NEW req, NEW S, NEW h, Folds(req, SUBSET S, h), NEW s \in SUBSET S
  PROVE  /\ s = {} => h[s] = 0
         /\ s # {} => /\ Pick(s) \in s
                      /\ h[s] = req[Pick(s)].bytes + h[s \ {Pick(s)}]
<1>1. h[s] = IF s = {} THEN 0 ELSE req[Pick(s)].bytes + h[s \ {Pick(s)}]  BY DEF Folds
<1>2. QED  BY <1>1, PickIn

\* No calls weigh nothing.
LEMMA FoldEmpty ==
  ASSUME NEW req, NEW S, NEW h, Folds(req, SUBSET S, h)
  PROVE  h[{}] = 0
<1>1. {} \in SUBSET S  OBVIOUS
<1>2. QED  BY <1>1, FoldAt

\* Two folds agree on a set whose calls weigh the same in both.
LEMMA FoldsAgree ==
  ASSUME NEW req1, NEW req2, NEW S1, NEW S2, IsFiniteSet(S1), NEW h1, NEW h2,
         Folds(req1, SUBSET S1, h1), Folds(req2, SUBSET S2, h2),
         NEW T, T \subseteq S1, T \subseteq S2, \A c \in T : req1[c].bytes = req2[c].bytes
  PROVE  h1[T] = h2[T]
<1> DEFINE Bad == {n \in Nat : \E s \in SUBSET T : Cardinality(s) = n /\ h1[s] # h2[s]}
<1>1. Bad = {}
  <2>1. SUFFICES ASSUME Bad # {}  PROVE FALSE  OBVIOUS
  <2>2. PICK n \in Bad : \A k \in Bad : n <= k
    <3> HIDE DEF Bad
    <3>1. Bad \subseteq Nat  BY DEF Bad
    <3>2. QED  BY <2>1, <3>1, LeastNumber
  <2>3. PICK s \in SUBSET T : Cardinality(s) = n /\ h1[s] # h2[s]  OBVIOUS
  <2>4. s # {}
    <3>1. h1[{}] = 0 /\ h2[{}] = 0  BY FoldEmpty
    <3> HIDE DEF Bad
    <3>2. QED  BY <2>3, <3>1
  <2>5. /\ Pick(s) \in s
        /\ h1[s] = req1[Pick(s)].bytes + h1[s \ {Pick(s)}]
        /\ h2[s] = req2[Pick(s)].bytes + h2[s \ {Pick(s)}]
    <3>1. s \in SUBSET S1 /\ s \in SUBSET S2  OBVIOUS
    <3> HIDE DEF Bad
    <3>2. Pick(s) \in s  BY <2>4, PickIn
    <3>3. \A u \in SUBSET S1 : u # {} => h1[u] = req1[Pick(u)].bytes + h1[u \ {Pick(u)}]
      BY FoldAt
    <3>4. \A u \in SUBSET S2 : u # {} => h2[u] = req2[Pick(u)].bytes + h2[u \ {Pick(u)}]
      BY FoldAt
    <3>5. QED  BY <2>4, <3>1, <3>2, <3>3, <3>4
  <2>6. h1[s \ {Pick(s)}] # h2[s \ {Pick(s)}]  BY <2>3, <2>5
  <2>7. /\ Cardinality(s) \in Nat /\ Cardinality(s \ {Pick(s)}) = Cardinality(s) - 1
        /\ Cardinality(s \ {Pick(s)}) \in Nat
    <3>1. s \in SUBSET S1 /\ s \ {Pick(s)} \in SUBSET S1  OBVIOUS
    <3>2. QED  BY <3>1, <2>5, Sizes
  <2>8. n - 1 \in Bad  BY <2>3, <2>6, <2>7
  <2>9. QED  BY <2>2, <2>8
<1>2. Cardinality(T) \in Nat  BY Sizes
<1>3. QED  BY <1>1, <1>2

\* The fold is a number.
LEMMA FoldType ==
  ASSUME NEW req, NEW S, IsFiniteSet(S), Weighed(req, S), NEW h, Folds(req, SUBSET S, h)
  PROVE  \A s \in SUBSET S : h[s] \in Nat
<1> DEFINE Bad == {n \in Nat : \E s \in SUBSET S : Cardinality(s) = n /\ h[s] \notin Nat}
<1>1. Bad = {}
  <2>1. SUFFICES ASSUME Bad # {}  PROVE FALSE  OBVIOUS
  <2>2. PICK n \in Bad : \A k \in Bad : n <= k
    <3> HIDE DEF Bad
    <3>1. Bad \subseteq Nat  BY DEF Bad
    <3>2. QED  BY <2>1, <3>1, LeastNumber
  <2>3. PICK s \in SUBSET S : Cardinality(s) = n /\ h[s] \notin Nat  OBVIOUS
  <2>4. s # {}  BY <2>3, FoldAt
  <2>5. Pick(s) \in s /\ h[s] = req[Pick(s)].bytes + h[s \ {Pick(s)}]
    <3> HIDE DEF Bad
    <3>1. QED  BY <2>4, FoldAt
  <2>6. h[s \ {Pick(s)}] \notin Nat  BY <2>3, <2>5 DEF Weighed
  <2>7. Cardinality(s) \in Nat /\ Cardinality(s \ {Pick(s)}) = Cardinality(s) - 1
    BY <2>5, Sizes
  <2>8. Cardinality(s \ {Pick(s)}) \in Nat
    <3>1. s \ {Pick(s)} \in SUBSET S  OBVIOUS
    <3>2. QED  BY <3>1, Sizes
  <2>9. n - 1 \in Bad  BY <2>3, <2>6, <2>7, <2>8
  <2>10. QED  BY <2>2, <2>9
<1>2. \A s \in SUBSET S : Cardinality(s) \in Nat  BY Sizes
<1>3. QED  BY <1>1, <1>2

\* Any member may be taken first.
LEMMA FoldAny ==
  ASSUME NEW req, NEW S, IsFiniteSet(S), Weighed(req, S), NEW h, Folds(req, SUBSET S, h)
  PROVE  \A s \in SUBSET S : \A x \in s : h[s] = req[x].bytes + h[s \ {x}]
<1>0. ASSUME NEW s \in SUBSET S, s # {}
      PROVE  Pick(s) \in s /\ h[s] = req[Pick(s)].bytes + h[s \ {Pick(s)}]
  BY <1>0, FoldAt
<1> DEFINE Wrong(s, x) == h[s] # req[x].bytes + h[s \ {x}]
           Bad == {n \in Nat : \E s \in SUBSET S : \E x \in s : Cardinality(s) = n /\ Wrong(s, x)}
<1>1. Bad = {}
  <2>1. SUFFICES ASSUME Bad # {}  PROVE FALSE  OBVIOUS
  <2>2. PICK n \in Bad : \A k \in Bad : n <= k
    <3> HIDE DEF Bad
    <3>1. Bad \subseteq Nat  BY DEF Bad
    <3>2. QED  BY <2>1, <3>1, LeastNumber
  <2>3. PICK s \in SUBSET S : \E x \in s : Cardinality(s) = n /\ Wrong(s, x)  OBVIOUS
  <2>4. PICK x \in s : Cardinality(s) = n /\ Wrong(s, x)  BY <2>3
  <2> DEFINE y == Pick(s)
  <2>5. y \in s /\ h[s] = req[y].bytes + h[s \ {y}]
    <3>1. s # {}  OBVIOUS
    <3> HIDE DEF Bad, Wrong
    <3>2. QED  BY <3>1, <1>0
  <2> HIDE DEF y
  <2>6. x # y  BY <2>4, <2>5
  <2>7. /\ s \ {y} \in SUBSET S /\ s \ {x} \in SUBSET S
        /\ x \in s \ {y} /\ y \in s \ {x}
    BY <2>5, <2>6
  <2>8. /\ Cardinality(s) \in Nat
        /\ Cardinality(s \ {y}) = n - 1 /\ Cardinality(s \ {x}) = n - 1
        /\ Cardinality(s \ {y}) \in Nat
    BY <2>4, <2>5, <2>7, Sizes
  <2>9. n - 1 \in Nat /\ n - 1 \notin Bad
    <3> HIDE DEF Bad, Wrong
    <3>1. n - 1 \in Nat /\ ~(n <= n - 1)  BY <2>4, <2>8
    <3>2. QED  BY <3>1, <2>2
  <2>10. ~Wrong(s \ {y}, x) /\ ~Wrong(s \ {x}, y)
    <3> HIDE DEF Wrong
    <3>1. QED  BY <2>7, <2>8, <2>9
  <2>11. (s \ {y}) \ {x} = (s \ {x}) \ {y} /\ (s \ {x}) \ {y} \in SUBSET S  BY <2>7
  <2>12. h[(s \ {x}) \ {y}] \in Nat /\ req[x].bytes \in Nat /\ req[y].bytes \in Nat
    BY <2>4, <2>5, <2>11, FoldType DEF Weighed
  <2>13. h[s] = req[x].bytes + h[s \ {x}]
    <3>1. /\ h[s \ {y}] = req[x].bytes + h[(s \ {x}) \ {y}]
          /\ h[s \ {x}] = req[y].bytes + h[(s \ {x}) \ {y}]
      BY <2>10, <2>11
    <3> HIDE DEF Bad, Wrong
    <3>2. QED  BY <3>1, <2>5, <2>12
  <2>14. QED  BY <2>4, <2>13
<1>2. \A s \in SUBSET S : Cardinality(s) \in Nat  BY Sizes
<1>3. ASSUME NEW s \in SUBSET S, NEW x \in s, Wrong(s, x)  PROVE FALSE
  <2>1. Cardinality(s) \in Bad  BY <1>2, <1>3
  <2>2. QED  BY <2>1, <1>1
<1>4. QED  BY <1>3

\* What the sum of bytes is for no call, and how one call changes it.
LEMMA WeighIs ==
  ASSUME NEW req, NEW S, IsFiniteSet(S), Weighed(req, S)
  PROVE  /\ Weigh(req, S) \in Nat /\ Weigh(req, {}) = 0
         /\ \A x \in S : Weigh(req, S) = req[x].bytes + Weigh(req, S \ {x})
<1>1. PICK h : Folds(req, SUBSET S, h) /\ Weigh(req, S) = h[S]  BY WeighFolds
<1>2. Weigh(req, S) \in Nat  BY <1>1, FoldType
<1>3. Weigh(req, {}) = 0
  <2>1. IsFiniteSet({})  BY FS_EmptySet
  <2>2. PICK g : Folds(req, SUBSET {}, g) /\ Weigh(req, {}) = g[{}]  BY <2>1, WeighFolds
  <2>3. QED  BY <2>2, FoldAt
<1>4. ASSUME NEW x \in S  PROVE Weigh(req, S) = req[x].bytes + Weigh(req, S \ {x})
  <2>1. IsFiniteSet(S \ {x})  BY FS_RemoveElement
  <2>2. PICK g : Folds(req, SUBSET (S \ {x}), g) /\ Weigh(req, S \ {x}) = g[S \ {x}]
    BY <2>1, WeighFolds
  <2>3. h[S \ {x}] = g[S \ {x}]
    <3> DEFINE T == S \ {x}
    <3>1. Folds(req, SUBSET S, h) /\ Folds(req, SUBSET T, g) /\ T \subseteq S
      BY <1>1, <2>2
    <3> HIDE DEF T
    <3>2. h[T] = g[T]  BY <3>1, FoldsAgree
    <3>3. QED  BY <3>2 DEF T
  <2>4. h[S] = req[x].bytes + h[S \ {x}]  BY <1>1, FoldAny
  <2>5. QED  BY <1>1, <2>2, <2>3, <2>4
<1>5. QED  BY <1>2, <1>3, <1>4

\* The sum depends on the bytes of its calls only.
LEMMA WeighSame ==
  ASSUME NEW req1, NEW req2, NEW S, IsFiniteSet(S), \A c \in S : req1[c].bytes = req2[c].bytes
  PROVE  Weigh(req1, S) = Weigh(req2, S)
<1>1. PICK h1 : Folds(req1, SUBSET S, h1) /\ Weigh(req1, S) = h1[S]  BY WeighFolds
<1>2. PICK h2 : Folds(req2, SUBSET S, h2) /\ Weigh(req2, S) = h2[S]  BY WeighFolds
<1>3. h1[S] = h2[S]  BY <1>1, <1>2, FoldsAgree
<1>4. QED  BY <1>1, <1>2, <1>3

-----------------------------------------------------------------------------
(***************************************************************************)
(* Requests: what the queue, the slot, the pipes, the ring and the budgets *)
(* have to do with one another.                                            *)
(***************************************************************************)

\* No id is in a sequence twice.
Distinct(s) == \A i, j \in 1..Len(s) : s[i] = s[j] => i = j

\* The queue holds pending requests once each; the rest of them is in flight.
QueueOK ==
  /\ Distinct(queue) /\ Queued \subseteq pending
  /\ pending \subseteq Queued \cup {inFlight} /\ inFlight \notin Queued

\* A pending request is unsettled and was made for the current child.
PendingOK ==
  /\ \A c \in pending : c < nextCall /\ outcome[c] = "none" /\ request[c].proc = proc
  /\ \A c \in Calls : c >= nextCall => outcome[c] = "none"

\* The slot is taken by a request that was made, and only while the client is up.
SlotOK == inFlight # None => inFlight < nextCall /\ (ready \/ shuttingDown)

\* The current child owes at most one answer, the one to the request in flight,
\* and it is either still to be written or once in the pipe.
OneAnswerOwed ==
  proc # None =>
    /\ inbox \subseteq {inFlight}
    /\ \A i \in 1..Len(stdout) : stdout[i].id # None => stdout[i].id = inFlight /\ inbox = {}
    /\ \A i, j \in 1..Len(stdout) : stdout[i].id # None /\ stdout[j].id # None => i = j

\* The ring keeps its size, and a request that timed out in the slot is in it.
LateKnown ==
  /\ Len(lateReplyIds) <= LateReplyRing
  /\ proc # None /\ inFlight # None /\ inFlight \notin pending =>
       inFlight \in Seqs!ToSet(lateReplyIds)

\* The budgets are those of the pending requests and are kept.
BudgetOK ==
  /\ queuedBytes = BytesOf(pending) /\ queuedBytes <= MaxQueuedBytes
  /\ Cardinality(pending) <= MaxPending

\* What makes the properties of the requests inductive.
RequestInv == QueueOK /\ PendingOK /\ SlotOK /\ OneAnswerOwed /\ LateKnown /\ BudgetOK

\* Ids are numbers and none is the absent one.
LEMMA CallsAre ==
  Calls \subseteq Nat /\ None \notin Calls /\ IsFiniteSet(Calls)
<1>1. MaxCalls \in Nat  BY RtkClientAssumption
<1>2. QED  BY <1>1, FS_Interval DEF Calls, None

\* The members of a sequence.
LEMMA MembersOf ==
  ASSUME NEW X, NEW s \in Seq(X)
  PROVE  /\ Len(s) \in Nat /\ DOMAIN s = 1..Len(s)
         /\ \A c : c \in Seqs!ToSet(s) <=> \E i \in 1..Len(s) : s[i] = c
         /\ Seqs!ToSet(s) \subseteq X
<1>1. Len(s) \in Nat /\ DOMAIN s = 1..Len(s)  OBVIOUS
<1>2. \A c : c \in Seqs!ToSet(s) <=> \E i \in 1..Len(s) : s[i] = c
  BY <1>1 DEF Seqs!ToSet
<1>3. \A i \in 1..Len(s) : s[i] \in X  BY ElementOfSeq
<1>4. QED  BY <1>1, <1>2, <1>3

\* Splicing an id out of ids that are all different leaves the others.
LEMMA WithoutIs ==
  ASSUME NEW X, NEW s \in Seq(X), NEW c
  PROVE  \A r : r = Without(s, c) =>
           /\ r \in Seq(X) /\ Len(r) <= Len(s)
           /\ c \notin Seqs!ToSet(s) => r = s
           /\ Distinct(s) => /\ Distinct(r)
                             /\ Seqs!ToSet(r) = Seqs!ToSet(s) \ {c}
<1>1. CASE c \notin Seqs!ToSet(s)  BY <1>1, MembersOf DEF Without
<1>2. CASE c \in Seqs!ToSet(s)
  <2> DEFINE k == CHOOSE j \in DOMAIN s : s[j] = c
             a == SubSeq(s, 1, k - 1)
             b == SubSeq(s, k + 1, Len(s))
             r == a \o b
  <2>1. k \in 1..Len(s) /\ s[k] = c /\ Len(s) \in Nat
    BY <1>2, MembersOf DEF Seqs!ToSet
  <2>2. Without(s, c) = r  BY <1>2 DEF Without, Seqs!RemoveAt
  <2> HIDE DEF k
  <2>3. \A i \in 1..Len(s) : s[i] \in X  BY ElementOfSeq
  <2>4. a \in Seq(X) /\ Len(a) = k - 1 /\ \A i \in 1..(k - 1) : a[i] = s[i]
    <3>1. 1 \in Int /\ k - 1 \in Int /\ \A i \in 1..(k - 1) : s[i] \in X  BY <2>1, <2>3
    <3>2. QED  BY <2>1, <3>1, SubSeqProperties
  <2>5. b \in Seq(X) /\ Len(b) = Len(s) - k /\ \A i \in 1..(Len(s) - k) : b[i] = s[k + i]
    <3>1. k + 1 \in Int /\ Len(s) \in Int /\ \A i \in (k + 1)..Len(s) : s[i] \in X
      BY <2>1, <2>3
    <3>2. QED  BY <2>1, <3>1, SubSeqProperties
  <2> HIDE DEF a, b
  <2>6. /\ r \in Seq(X) /\ Len(r) = Len(s) - 1
        /\ \A i \in 1..Len(r) : r[i] = IF i < k THEN s[i] ELSE s[i + 1]
    <3>1. r \in Seq(X) /\ Len(r) = Len(a) + Len(b)
      BY <2>4, <2>5, ConcatProperties
    <3>2. \A i \in 1..Len(r) : r[i] = IF i <= Len(a) THEN a[i] ELSE b[i - Len(a)]
      BY <2>4, <2>5, ConcatProperties
    <3>3. Len(r) = Len(s) - 1  BY <3>1, <2>1, <2>4, <2>5
    <3> HIDE DEF r
    <3>4. ASSUME NEW i \in 1..Len(r)  PROVE r[i] = IF i < k THEN s[i] ELSE s[i + 1]
      <4>1. CASE i < k
        <5>1. i <= Len(a) /\ i \in 1..(k - 1)  BY <4>1, <2>1, <2>4, <3>3
        <5>2. QED  BY <4>1, <5>1, <2>4, <3>2
      <4>2. CASE ~(i < k)
        <5>1. /\ ~(i <= Len(a)) /\ i - Len(a) \in 1..(Len(s) - k)
              /\ k + (i - Len(a)) = i + 1
          BY <4>2, <2>1, <2>4, <3>3
        <5>2. QED  BY <4>2, <5>1, <2>5, <3>2
      <4>3. QED  BY <4>1, <4>2
    <3>5. QED  BY <3>1, <3>3, <3>4
  <2> HIDE DEF r
  <2>7. ASSUME Distinct(s)  PROVE Distinct(r) /\ Seqs!ToSet(r) = Seqs!ToSet(s) \ {c}
    <3>1. Distinct(r)
      <4>1. SUFFICES ASSUME NEW i \in 1..Len(r), NEW j \in 1..Len(r), r[i] = r[j]
                     PROVE  i = j
        BY DEF Distinct
      <4> DEFINE p == IF i < k THEN i ELSE i + 1
                 q == IF j < k THEN j ELSE j + 1
      <4>2. p \in 1..Len(s) /\ q \in 1..Len(s) /\ s[p] = s[q]  BY <4>1, <2>1, <2>6
      <4>3. p = q  BY <4>2, <2>7 DEF Distinct
      <4>4. QED  BY <4>3, <2>1, <2>6
    <3>2. ASSUME NEW x \in Seqs!ToSet(r)  PROVE x \in Seqs!ToSet(s) /\ x # c
      <4>1. PICK i \in 1..Len(r) : r[i] = x  BY <2>6, MembersOf
      <4> DEFINE p == IF i < k THEN i ELSE i + 1
      <4>2. p \in 1..Len(s) /\ p # k /\ s[p] = x  BY <4>1, <2>1, <2>6
      <4>3. s[p] # s[k]  BY <4>2, <2>1, <2>7 DEF Distinct
      <4>4. QED  BY <4>2, <4>3, <2>1, MembersOf
    <3>3. ASSUME NEW x \in Seqs!ToSet(s), x # c  PROVE x \in Seqs!ToSet(r)
      <4>1. PICK i \in 1..Len(s) : s[i] = x  BY MembersOf
      <4>2. i # k  BY <4>1, <3>3, <2>1
      <4> DEFINE p == IF i < k THEN i ELSE i - 1
      <4>3. p \in 1..Len(r) /\ r[p] = x  BY <4>1, <4>2, <2>1, <2>6
      <4>4. QED  BY <4>3, <2>6, MembersOf
    <3>4. QED  BY <3>1, <3>2, <3>3
  <2>8. QED  BY <1>2, <2>1, <2>2, <2>6, <2>7
<1>3. QED  BY <1>1, <1>2

\* Taking the head off ids that are all different leaves the others.
LEMMA TailIs ==
  ASSUME NEW X, NEW s \in Seq(X), s # <<>>
  PROVE  /\ Head(s) \in X /\ Tail(s) \in Seq(X) /\ Head(s) \in Seqs!ToSet(s)
         /\ Len(Tail(s)) = Len(s) - 1 /\ \A i \in 1..(Len(s) - 1) : Tail(s)[i] = s[i + 1]
         /\ Len(s) >= 1 /\ Head(s) = s[1]
         /\ Distinct(s) => /\ Distinct(Tail(s))
                           /\ Seqs!ToSet(Tail(s)) = Seqs!ToSet(s) \ {Head(s)}
<1> DEFINE t == Tail(s)
<1>1. /\ Head(s) \in X /\ t \in Seq(X) /\ Len(t) = Len(s) - 1
      /\ \A i \in 1..(Len(s) - 1) : t[i] = s[i + 1]
  BY HeadTailProperties
<1>2. Len(s) \in Nat /\ Len(s) >= 1 /\ Head(s) = s[1]
  BY EmptySeq
<1> HIDE DEF t
<1>3. Head(s) \in Seqs!ToSet(s)  BY <1>2, MembersOf
<1>4. ASSUME Distinct(s)  PROVE Distinct(t) /\ Seqs!ToSet(t) = Seqs!ToSet(s) \ {Head(s)}
  <2>1. Distinct(t)
    <3>1. SUFFICES ASSUME NEW i \in 1..Len(t), NEW j \in 1..Len(t), t[i] = t[j]
                   PROVE  i = j
      BY DEF Distinct
    <3>2. i + 1 \in 1..Len(s) /\ j + 1 \in 1..Len(s) /\ s[i + 1] = s[j + 1]
      BY <3>1, <1>1, <1>2
    <3>3. i + 1 = j + 1  BY <3>2, <1>4 DEF Distinct
    <3>4. QED  BY <3>3
  <2>2. ASSUME NEW x \in Seqs!ToSet(t)  PROVE x \in Seqs!ToSet(s) /\ x # Head(s)
    <3>1. PICK i \in 1..Len(t) : t[i] = x  BY <1>1, MembersOf
    <3>2. i + 1 \in 1..Len(s) /\ i + 1 # 1 /\ s[i + 1] = x /\ 1 \in 1..Len(s)
      BY <3>1, <1>1, <1>2
    <3>3. s[i + 1] # s[1]  BY <3>2, <1>4 DEF Distinct
    <3>4. QED  BY <3>2, <3>3, <1>2, MembersOf
  <2>3. ASSUME NEW x \in Seqs!ToSet(s), x # Head(s)  PROVE x \in Seqs!ToSet(t)
    <3>1. PICK i \in 1..Len(s) : s[i] = x  BY MembersOf
    <3>2. i # 1  BY <3>1, <2>3, <1>2
    <3>3. i - 1 \in 1..Len(t) /\ t[i - 1] = x  BY <3>1, <3>2, <1>1, <1>2
    <3>4. QED  BY <3>3, <1>1, MembersOf
  <2>4. QED  BY <2>1, <2>2, <2>3
<1>5. QED  BY <1>1, <1>2, <1>3, <1>4 DEF t

\* An id that is new may be appended.
LEMMA AppendIs ==
  ASSUME NEW X, NEW s \in Seq(X), NEW c \in X
  PROVE  /\ Append(s, c) \in Seq(X) /\ Len(Append(s, c)) = Len(s) + 1
         /\ Seqs!ToSet(Append(s, c)) = Seqs!ToSet(s) \cup {c}
         /\ Distinct(s) /\ c \notin Seqs!ToSet(s) => Distinct(Append(s, c))
<1> DEFINE t == Append(s, c)
<1>1. /\ t \in Seq(X) /\ Len(t) = Len(s) + 1 /\ t[Len(s) + 1] = c
      /\ \A i \in 1..Len(s) : t[i] = s[i]
  BY AppendProperties
<1>2. Len(s) \in Nat  OBVIOUS
<1> HIDE DEF t
<1>3. Seqs!ToSet(t) = Seqs!ToSet(s) \cup {c}
  <2>1. ASSUME NEW x \in Seqs!ToSet(t)  PROVE x \in Seqs!ToSet(s) \/ x = c
    <3>1. PICK i \in 1..Len(t) : t[i] = x  BY <1>1, MembersOf
    <3>2. CASE i = Len(s) + 1  BY <3>1, <3>2, <1>1
    <3>3. CASE i # Len(s) + 1
      <4>1. i \in 1..Len(s) /\ s[i] = x  BY <3>1, <3>3, <1>1, <1>2
      <4>2. QED  BY <4>1, MembersOf
    <3>4. QED  BY <3>2, <3>3
  <2>2. ASSUME NEW x \in Seqs!ToSet(s)  PROVE x \in Seqs!ToSet(t)
    <3>1. PICK i \in 1..Len(s) : s[i] = x  BY MembersOf
    <3>2. i \in 1..Len(t) /\ t[i] = x  BY <3>1, <1>1, <1>2
    <3>3. QED  BY <3>2, <1>1, MembersOf
  <2>3. c \in Seqs!ToSet(t)
    <3>1. Len(s) + 1 \in 1..Len(t)  BY <1>1, <1>2
    <3>2. QED  BY <3>1, <1>1, MembersOf
  <2>4. QED  BY <2>1, <2>2, <2>3
<1>4. ASSUME Distinct(s), c \notin Seqs!ToSet(s)  PROVE Distinct(t)
  <2>1. SUFFICES ASSUME NEW i \in 1..Len(t), NEW j \in 1..Len(t), t[i] = t[j]
                 PROVE  i = j
    BY DEF Distinct
  <2>2. \A k \in 1..Len(s) : s[k] # c  BY <1>4, MembersOf
  <2>3. QED  BY <2>1, <2>2, <1>1, <1>2, <1>4 DEF Distinct
<1>5. QED  BY <1>1, <1>3, <1>4 DEF t

\* The budget as a sum over the requests.
LEMMA BytesAre ==
  /\ \A S : BytesOf(S) = Weigh(request, S)
  /\ BytesOf(pending)' = Weigh(request', pending')
BY DEF BytesOf, Weigh, Sets!MapThenSumSet, Sets!MapThenFoldSet

\* The pending requests are finitely many, and their frames have sizes.
LEMMA PendingFinite ==
  ASSUME TypeOK
  PROVE  /\ IsFiniteSet(pending) /\ Cardinality(pending) \in Nat
         /\ Weighed(request, pending) /\ BytesOf(pending) \in Nat
<1>1. pending \subseteq Calls /\ request \in [Calls -> [proc : Procs \cup {None}, bytes : Nat]]
  BY DEF TypeOK, ClientOK
<1>2. IsFiniteSet(pending)  BY <1>1, CallsAre, FS_Subset
<1>3. Weighed(request, pending)  BY <1>1 DEF Weighed
<1>4. QED  BY <1>2, <1>3, FS_CardinalityType, WeighIs, BytesAre

\* settle() takes the request out of the queue and of the slot it leaves.
LEMMA SettleQueueOK ==
  ASSUME TypeOK, QueueOK, NEW c \in pending, NEW why, Settle(c, why),
         inFlight' = inFlight \/ (inFlight = c /\ inFlight' = None)
  PROVE  QueueOK'
<1>1. queue \in Seq(Calls) /\ queue' = Without(queue, c) /\ pending' = pending \ {c}
  BY DEF TypeOK, ClientOK, Settle
<1>2. Distinct(queue')  BY <1>1, WithoutIs DEF QueueOK
<1>3. Queued' = Queued \ {c}
  <2>1. Seqs!ToSet(queue') = Seqs!ToSet(queue) \ {c}  BY <1>1, WithoutIs DEF QueueOK
  <2>2. QED  BY <2>1 DEF Queued
<1>4. None \notin Queued  BY <1>1, MembersOf, CallsAre DEF Queued
<1>5. QED  BY <1>1, <1>2, <1>3, <1>4 DEF QueueOK

\* settle() gives back exactly what the request was charged.
LEMMA SettleBudgetOK ==
  ASSUME TypeOK, BudgetOK, NEW c \in pending, NEW why, Settle(c, why), request' = request
  PROVE  BudgetOK'
<1>1. pending' = pending \ {c} /\ queuedBytes' = queuedBytes - request[c].bytes
  BY DEF Settle, Refund
<1>2. /\ IsFiniteSet(pending) /\ Cardinality(pending) \in Nat
      /\ Weighed(request, pending)
  BY PendingFinite
<1>3. /\ BytesOf(pending) \in Nat
      /\ BytesOf(pending) = request[c].bytes + BytesOf(pending \ {c})
  BY <1>2, WeighIs, BytesAre
<1>4. IsFiniteSet(pending \ {c}) /\ Weighed(request, pending \ {c})
  BY <1>2, FS_RemoveElement DEF Weighed
<1>5. BytesOf(pending \ {c}) \in Nat  BY <1>4, WeighIs, BytesAre
<1>6. request[c].bytes \in Nat  BY <1>2 DEF Weighed
<1>7. BytesOf(pending)' = BytesOf(pending \ {c})  BY <1>1, BytesAre
<1>8. Cardinality(pending') <= Cardinality(pending) /\ Cardinality(pending') \in Nat
  BY <1>1, <1>2, <1>4, FS_RemoveElement, FS_CardinalityType
<1>9. MaxQueuedBytes \in Nat /\ MaxPending \in Nat  BY RtkClientAssumption
<1>10. queuedBytes' = BytesOf(pending)'  BY <1>1, <1>3, <1>5, <1>6, <1>7 DEF BudgetOK
<1>11. queuedBytes' <= MaxQueuedBytes
  BY <1>1, <1>3, <1>5, <1>6, <1>9 DEF BudgetOK
<1>12. Cardinality(pending') <= MaxPending  BY <1>2, <1>8, <1>9 DEF BudgetOK
<1>13. QED  BY <1>10, <1>11, <1>12 DEF BudgetOK

\* settle() settles a request that was made, and leaves the others alone.
LEMMA SettlePendingOK ==
  ASSUME TypeOK, PendingOK, NEW c \in pending, NEW why, Settle(c, why),
         UNCHANGED <<nextCall, request, proc>>
  PROVE  PendingOK'
<1>1. /\ pending' = pending \ {c} /\ outcome' = [outcome EXCEPT ![c] = DegradeFrom(why)]
      /\ c < nextCall /\ c \in Calls /\ outcome \in [Calls -> Outcomes] /\ nextCall \in Nat
      /\ pending \subseteq Calls /\ c \in Nat
  BY CallsAre, RtkClientAssumption DEF TypeOK, ClientOK, Settle, PendingOK
<1>2. \A d \in Calls : d # c => outcome'[d] = outcome[d]  BY <1>1
<1>3. QED  BY <1>1, <1>2 DEF PendingOK

\* Settling everything leaves nothing queued, pending or charged.
LEMMA SettleAllOK ==
  ASSUME TypeOK, QueueOK, BudgetOK, PendingOK, NEW why, SettleAll(why),
         UNCHANGED <<nextCall, request>>
  PROVE  QueueOK' /\ BudgetOK' /\ PendingOK' /\ pending' = {}
<1>1. pending' = {} /\ queue' = <<>> /\ queuedBytes' = queuedBytes - BytesOf(pending)
  BY DEF SettleAll
<1>2. QueueOK'
  <2>1. Queued' = {} /\ Distinct(queue')  BY <1>1 DEF Queued, Seqs!ToSet, Distinct
  <2>2. QED  BY <1>1, <2>1 DEF QueueOK
<1>3. BudgetOK'
  <2>1. BytesOf(pending)' = 0  BY <1>1, FS_EmptySet, WeighIs, BytesAre DEF Weighed
  <2>2. queuedBytes' = 0  BY <1>1, PendingFinite DEF BudgetOK
  <2>3. QED  BY <1>1, <2>1, <2>2, FS_EmptySet, RtkClientAssumption DEF BudgetOK
<1>4. PendingOK'
  <2>1. \A c \in Calls : c \notin pending => outcome'[c] = outcome[c]  BY DEF SettleAll
  <2>2. \A c \in pending : c < nextCall /\ c \in Nat /\ nextCall \in Nat
    BY CallsAre, RtkClientAssumption DEF PendingOK, TypeOK, ClientOK
  <2>3. \A c \in Calls : c >= nextCall => c \notin pending
    BY <2>2
  <2>4. QED  BY <1>1, <2>1, <2>3 DEF PendingOK
<1>5. QED  BY <1>1, <1>2, <1>3, <1>4

\* A step that leaves the requests and the pipes alone keeps the invariant.
LEMMA QuietRequests ==
  ASSUME RequestInv,
         UNCHANGED <<pending, queuedBytes, queue, outcome, inFlight, lateReplyIds, issued,
                     proc, ready, inbox, stdout>>,
         shuttingDown => shuttingDown'
  PROVE  RequestInv'
<1>1. QueueOK' /\ PendingOK' /\ SlotOK'
  BY DEF RequestInv, QueueOK, PendingOK, SlotOK, Queued, issued
<1>2. OneAnswerOwed' /\ LateKnown'
  BY DEF RequestInv, OneAnswerOwed, LateKnown
<1>3. BudgetOK'
  <2>1. BytesOf(pending)' = BytesOf(pending)  BY BytesAre DEF issued
  <2>2. QED  BY <2>1 DEF RequestInv, BudgetOK
<1>4. QED  BY <1>1, <1>2, <1>3 DEF RequestInv

\* A new child has been given nothing, and nothing waits for it.
LEMMA SpawnRequests ==
  ASSUME TypeOK, LifecycleInv, RequestInv, ~SpawnBlocked,
         NEW who, NEW armed, Spawn(who, armed), UNCHANGED <<created, ready, requests>>
  PROVE  RequestInv'
<1>1. UNCHANGED <<pending, queuedBytes, queue, outcome, inFlight, lateReplyIds, issued, ready>>
  BY DEF requests, settling, corruption
<1>2. CASE SpawnFailed(who, armed) /\ UNCHANGED <<proc, children>>
  <2>1. UNCHANGED <<proc, inbox, stdout>> /\ (shuttingDown => shuttingDown')
    BY <1>2 DEF children, pipes, SpawnFailed
  <2>2. QED  BY <1>1, <2>1, QuietRequests
<1>3. CASE SpawnAndGreet(who) /\ UNCHANGED <<shuttingDown, closed>>
  <2>1. ~ready /\ ~shuttingDown /\ pending = {} /\ inFlight = None
    BY DEF SpawnBlocked, LifecycleInv, SpawnHasOwner, PendingNeedsReady, RequestInv, SlotOK
  <2>2. inbox' = {} /\ stdout' = <<>>  BY <1>3 DEF SpawnAndGreet
  <2>3. QueueOK' /\ SlotOK'
    BY <1>1, <2>1 DEF RequestInv, QueueOK, SlotOK, Queued
  <2>4. PendingOK'  BY <1>1, <2>1 DEF RequestInv, PendingOK, issued
  <2>5. OneAnswerOwed'  BY <2>2 DEF OneAnswerOwed
  <2>6. LateKnown'  BY <1>1, <2>1 DEF RequestInv, LateKnown
  <2>7. BudgetOK'
    <3>1. BytesOf(pending)' = BytesOf(pending)  BY <1>1, BytesAre DEF issued
    <3>2. QED  BY <1>1, <3>1 DEF RequestInv, BudgetOK
  <2>8. QED  BY <2>3, <2>4, <2>5, <2>6, <2>7 DEF RequestInv
<1>4. QED  BY <1>2, <1>3 DEF Spawn

\* request() admits a call that fits.
LEMMA RequestStep ==
  ASSUME TypeOK, LifecycleInv, RequestInv, NEW b \in FrameBytes, Request(b)
  PROVE  RequestInv'
<1> DEFINE c == nextCall
<1>1. /\ c \in Calls /\ c \in Nat /\ nextCall' = c + 1 /\ b \in Nat
      /\ pending' = pending \cup {c} /\ queue' = Append(queue, c)
      /\ request' = [request EXCEPT ![c] = [proc |-> proc, bytes |-> b]]
      /\ queuedBytes' = queuedBytes + b
      /\ ~Overloaded(b) /\ Available
      /\ UNCHANGED <<proc, ready, shuttingDown, outcome, inFlight, lateReplyIds, inbox, stdout>>
  BY RtkClientAssumption
     DEF Request, TypeOK, ClientOK, Calls, lifecycle, children, pipes, corruption
<1>2. /\ pending \subseteq Calls /\ queue \in Seq(Calls)
      /\ request \in [Calls -> [proc : Procs \cup {None}, bytes : Nat]]
      /\ inFlight \in Calls \cup {None}
  BY DEF TypeOK, ClientOK
<1>3. c \notin pending /\ c \notin Queued /\ inFlight # c
  <2>1. c \notin pending  BY <1>1, <1>2, CallsAre DEF RequestInv, PendingOK
  <2>2. c \notin Queued  BY <2>1 DEF RequestInv, QueueOK
  <2>3. inFlight # c  BY <1>1, CallsAre DEF RequestInv, SlotOK
  <2>4. QED  BY <2>1, <2>2, <2>3
<1> HIDE DEF c
<1>4. QueueOK'
  <2>1. Queued' = Queued \cup {c} /\ Distinct(queue')
    BY <1>1, <1>2, <1>3, AppendIs DEF Queued, RequestInv, QueueOK
  <2>2. QED  BY <1>1, <1>3, <2>1 DEF RequestInv, QueueOK
<1>5. PendingOK'
  <2>1. \A d \in Calls : d # c => request'[d] = request[d]  BY <1>1, <1>2
  <2>2. request'[c].proc = proc  BY <1>1, <1>2
  <2>3. outcome[c] = "none"  BY <1>1 DEF RequestInv, PendingOK, c
  <2>4. \A d \in pending : d < c /\ d \in Nat  BY <1>2, CallsAre DEF RequestInv, PendingOK, c
  <2>5. \A d \in pending' : d < nextCall' /\ outcome'[d] = "none" /\ request'[d].proc = proc'
    <3>1. ASSUME NEW d \in pending'
          PROVE  d < nextCall' /\ outcome'[d] = "none" /\ request'[d].proc = proc'
      <4>1. CASE d = c  BY <4>1, <1>1, <2>2, <2>3
      <4>2. CASE d # c
        <5>1. d \in pending /\ d \in Calls  BY <4>2, <1>1, <1>2
        <5>2. d < c + 1  BY <5>1, <2>4, <1>1
        <5>3. QED  BY <4>2, <5>1, <5>2, <1>1, <2>1 DEF RequestInv, PendingOK
      <4>3. QED  BY <4>1, <4>2
    <3>2. QED  BY <3>1
  <2>6. \A d \in Calls : d >= nextCall' => outcome'[d] = "none"
    BY <1>1, CallsAre DEF RequestInv, PendingOK, c
  <2>7. QED  BY <2>5, <2>6 DEF PendingOK
<1>6. SlotOK'
  BY <1>1, <1>2, CallsAre DEF RequestInv, SlotOK, c
<1>7. OneAnswerOwed'  BY <1>1 DEF RequestInv, OneAnswerOwed
<1>8. LateKnown'  BY <1>1, <1>3 DEF RequestInv, LateKnown
<1>9. BudgetOK'
  <2>1. /\ IsFiniteSet(pending) /\ Cardinality(pending) \in Nat
        /\ Weighed(request, pending) /\ BytesOf(pending) \in Nat
    BY PendingFinite
  <2>2. IsFiniteSet(pending') /\ Cardinality(pending') = Cardinality(pending) + 1
    BY <1>1, <1>3, <2>1, FS_AddElement
  <2>3. Weighed(request', pending') /\ request'[c].bytes = b
    BY <1>1, <1>2 DEF Weighed
  <2>4. c \in pending' /\ pending' \ {c} = pending  BY <1>1, <1>3
  <2>5. Weigh(request', pending') = b + Weigh(request', pending)
    BY <2>2, <2>3, <2>4, WeighIs
  <2>6. Weigh(request', pending) = Weigh(request, pending)
    <3>1. \A d \in pending : request'[d].bytes = request[d].bytes  BY <1>1, <1>2, <1>3
    <3>2. QED  BY <2>1, <3>1, WeighSame
  <2>7. BytesOf(pending)' = b + BytesOf(pending)  BY <2>5, <2>6, BytesAre
  <2>8. /\ Cardinality(pending) < MaxPending /\ queuedBytes + b <= MaxQueuedBytes
        /\ queuedBytes = BytesOf(pending)
    BY <1>1, <2>1, RtkClientAssumption DEF Overloaded, RequestInv, BudgetOK
  <2>9. QED  BY <1>1, <2>1, <2>2, <2>7, <2>8, RtkClientAssumption DEF BudgetOK
<1>10. QED  BY <1>4, <1>5, <1>6, <1>7, <1>8, <1>9 DEF RequestInv

\* drainQueue() gives up on the head of the queue, or sends it.
LEMMA DrainStep ==
  ASSUME TypeOK, LifecycleInv, RequestInv, DrainQueue
  PROVE  RequestInv'
<1>1. UNCHANGED <<proc, ready, shuttingDown, lateReplyIds, nextCall, request, stdout, child>>
  BY DEF DrainQueue, lifecycle, corruption, issued
<1>2. CASE UNCHANGED <<pending, queuedBytes, queue, outcome, inFlight, inbox>>
  BY <1>1, <1>2, QuietRequests DEF issued
<1>3. CASE inFlight = None /\ queue # <<>>
  <2> DEFINE c == Head(queue)
  <2>1. /\ c \in Calls /\ c \in Queued /\ c \in pending /\ Tail(queue) \in Seq(Calls)
        /\ Distinct(Tail(queue)) /\ Seqs!ToSet(Tail(queue)) = Queued \ {c}
    BY <1>3, TailIs DEF TypeOK, ClientOK, Queued, RequestInv, QueueOK
  <2>2. CASE UNCHANGED <<inFlight, inbox>> /\ \E why \in GiveUpReasons(c) : Settle(c, why)
    <3> HIDE DEF c
    <3>1. PICK why \in GiveUpReasons(c) : Settle(c, why)  BY <2>2
    <3>2. QueueOK' /\ BudgetOK' /\ PendingOK'
      BY <1>1, <2>1, <2>2, <3>1, SettleQueueOK, SettleBudgetOK, SettlePendingOK DEF RequestInv
    <3>3. SlotOK' /\ OneAnswerOwed' /\ LateKnown'
      BY <1>1, <1>3, <2>2 DEF RequestInv, SlotOK, OneAnswerOwed, LateKnown
    <3>4. QED  BY <3>2, <3>3 DEF RequestInv
  <2>3. CASE request[c].proc = proc /\ ready /\ ~shuttingDown /\ SendJob(c)
    <3>1. /\ inFlight' = c /\ queue' = Tail(queue) /\ inbox' \subseteq inbox \cup {c}
          /\ UNCHANGED <<pending, queuedBytes, outcome>>
      BY <2>3 DEF SendJob
    <3> HIDE DEF c
    <3>2. QueueOK'
      <4>1. Queued' = Queued \ {c}  BY <3>1, <2>1 DEF Queued
      <4>2. pending \subseteq Queued  BY <1>3, CallsAre DEF RequestInv, QueueOK, TypeOK, ClientOK
      <4>3. QED  BY <4>1, <4>2, <3>1, <2>1 DEF QueueOK, RequestInv
    <3>3. PendingOK' /\ SlotOK'
      BY <1>1, <2>1, <2>3, <3>1 DEF RequestInv, PendingOK, SlotOK
    <3>4. OneAnswerOwed'
      <4>1. proc # None => inbox = {} /\ \A i \in 1..Len(stdout) : stdout[i].id = None
        BY <1>3, CallsAre DEF RequestInv, OneAnswerOwed, TypeOK, ChildOK
      <4>2. QED  BY <4>1, <3>1, <1>1 DEF OneAnswerOwed
    <3>5. LateKnown'  BY <1>1, <2>1, <3>1 DEF RequestInv, LateKnown
    <3>6. BudgetOK'
      <4>1. BytesOf(pending)' = BytesOf(pending)  BY <1>1, <3>1, BytesAre
      <4>2. QED  BY <3>1, <4>1 DEF RequestInv, BudgetOK
    <3>7. QED  BY <3>2, <3>3, <3>4, <3>5, <3>6 DEF RequestInv
  <2>4. QED  BY <1>3, <2>2, <2>3 DEF DrainQueue
<1>4. QED  BY <1>2, <1>3 DEF DrainQueue

\* A request that times out in the slot is remembered.
LEMMA RingKeeps ==
  ASSUME TypeOK, LateKnown, NEW c \in Calls
  PROVE  /\ Len(RememberLateReply(c)) <= LateReplyRing
         /\ c \in Seqs!ToSet(RememberLateReply(c))
<1>1. /\ lateReplyIds \in Seq(Calls) /\ Len(lateReplyIds) <= LateReplyRing
      /\ Len(lateReplyIds) \in Nat /\ LateReplyRing \in Nat /\ LateReplyRing >= 1
  BY RtkClientAssumption DEF TypeOK, ClientOK, LateKnown
<1>2. CASE c \in Seqs!ToSet(lateReplyIds)
  BY <1>1, <1>2 DEF RememberLateReply
<1>3. CASE c \notin Seqs!ToSet(lateReplyIds)
  <2> DEFINE ids == Append(lateReplyIds, c)
  <2>1. /\ ids \in Seq(Calls) /\ Len(ids) = Len(lateReplyIds) + 1 /\ ids[Len(ids)] = c
        /\ c \in Seqs!ToSet(ids)
    BY <1>1, AppendIs, AppendProperties
  <2>2. RememberLateReply(c) = IF Len(ids) > LateReplyRing THEN Tail(ids) ELSE ids
    BY <1>3 DEF RememberLateReply
  <2> HIDE DEF ids
  <2>3. CASE Len(ids) > LateReplyRing
    <3>1. ids # <<>>  BY <2>1, <1>1
    <3>2. /\ Tail(ids) \in Seq(Calls) /\ Len(Tail(ids)) = Len(ids) - 1
          /\ \A i \in 1..(Len(ids) - 1) : Tail(ids)[i] = ids[i + 1]
      BY <2>1, <3>1, TailIs
    <3>3. Len(ids) - 1 \in 1..Len(Tail(ids)) /\ Tail(ids)[Len(ids) - 1] = c
      BY <1>1, <2>1, <2>3, <3>2
    <3>4. c \in Seqs!ToSet(Tail(ids))  BY <3>2, <3>3, MembersOf
    <3>5. QED  BY <1>1, <2>1, <2>2, <2>3, <3>2, <3>4
  <2>4. CASE ~(Len(ids) > LateReplyRing)  BY <1>1, <2>1, <2>2, <2>4
  <2>5. QED  BY <2>3, <2>4
<1>4. QED  BY <1>2, <1>3

\* The request's timer settles it and leaves the slot taken.
LEMMA TimeoutStep ==
  ASSUME TypeOK, LifecycleInv, RequestInv, NEW c \in Calls, Timeout(c)
  PROVE  RequestInv'
<1>1. /\ c \in pending /\ Settle(c, "timeout")
      /\ UNCHANGED <<proc, ready, shuttingDown, inFlight, nextCall, request, inbox, stdout>>
      /\ lateReplyIds' = IF inFlight = c THEN RememberLateReply(c) ELSE lateReplyIds
      /\ pending' = pending \ {c}
  BY DEF Timeout, Settle, lifecycle, children, pipes, issued
<1>2. QueueOK' /\ BudgetOK' /\ PendingOK'
  BY <1>1, SettleQueueOK, SettleBudgetOK, SettlePendingOK DEF RequestInv
<1>3. SlotOK' /\ OneAnswerOwed'  BY <1>1 DEF RequestInv, SlotOK, OneAnswerOwed
<1>4. LateKnown'
  <2>1. CASE inFlight = c  BY <1>1, <2>1, RingKeeps DEF RequestInv, LateKnown
  <2>2. CASE inFlight # c  BY <1>1, <2>2 DEF RequestInv, LateKnown
  <2>3. QED  BY <2>1, <2>2
<1>5. QED  BY <1>2, <1>3, <1>4 DEF RequestInv

\* What a frame off the pipe is, and what it leaves there.
LEMMA FrameRead ==
  ASSUME TypeOK, RequestInv, ReadFrame
  PROVE  LET f == Head(stdout) IN
         /\ f \in [kind : FrameKinds, id : Calls \cup {None}]
         /\ stdout' = Tail(stdout) /\ inbox' = inbox /\ proc' = proc /\ proc # None
         /\ UNCHANGED <<ready, shuttingDown, nextCall, request>>
         /\ IF helloDone THEN OnFrame(f) ELSE ConsumeHello(f)
         /\ f.id # None => f.id = inFlight /\ inbox = {}
         /\ f.id # None => \A i \in 1..Len(stdout') : stdout'[i].id = None
         /\ \A i \in 1..Len(stdout') : stdout'[i].id # None =>
              stdout'[i].id = inFlight /\ inbox = {}
         /\ \A i, j \in 1..Len(stdout') : stdout'[i].id # None /\ stdout'[j].id # None => i = j
         /\ inbox \subseteq {inFlight}
<1> DEFINE f == Head(stdout)
           t == Tail(stdout)
           Frame == [kind : FrameKinds, id : Calls \cup {None}]
<1>1. /\ stdout \in Seq(Frame) /\ stdout # <<>>
      /\ stdout' = t /\ inbox' = inbox /\ proc' = proc /\ proc # None
      /\ UNCHANGED <<ready, shuttingDown, nextCall, request>>
      /\ IF helloDone THEN OnFrame(f) ELSE ConsumeHello(f)
  BY DEF ReadFrame, TypeOK, ChildOK, issued
<1> HIDE DEF Frame
<1>2. /\ f \in Frame /\ Len(t) = Len(stdout) - 1 /\ f = stdout[1] /\ Len(stdout) >= 1
      /\ \A i \in 1..(Len(stdout) - 1) : t[i] = stdout[i + 1] /\ Len(stdout) \in Nat
  BY <1>1, TailIs
<1>3. Len(stdout) \in Nat  BY <1>1
<1> HIDE DEF f, t
<1>4. /\ inbox \subseteq {inFlight}
      /\ \A i \in 1..Len(stdout) : stdout[i].id # None => stdout[i].id = inFlight /\ inbox = {}
      /\ \A i, j \in 1..Len(stdout) : stdout[i].id # None /\ stdout[j].id # None => i = j
  BY <1>1 DEF RequestInv, OneAnswerOwed
<1>5. /\ 1 \in 1..Len(stdout)
      /\ \A i \in 1..Len(t) : i + 1 \in 1..Len(stdout) /\ i + 1 # 1 /\ t[i] = stdout[i + 1]
  BY <1>2, <1>3
<1>6. f.id # None => f.id = inFlight /\ inbox = {}  BY <1>2, <1>4, <1>5
<1>7. f.id # None => \A i \in 1..Len(t) : t[i].id = None  BY <1>2, <1>4, <1>5
<1>8. \A i \in 1..Len(t) : t[i].id # None => t[i].id = inFlight /\ inbox = {}
  BY <1>4, <1>5, SMTT(30)
<1>9. ASSUME NEW i \in 1..Len(t), NEW j \in 1..Len(t), t[i].id # None, t[j].id # None
      PROVE  i = j
  <2>1. i + 1 = j + 1  BY <1>4, <1>5, <1>9
  <2>2. QED  BY <2>1
<1>10. QED  BY <1>1, <1>2, <1>4, <1>6, <1>7, <1>8, <1>9 DEF f, t, Frame

\* A frame settles the request it answers and frees the slot that request holds.
LEMMA ReadStep ==
  ASSUME TypeOK, LifecycleInv, RequestInv, ReadFrame
  PROVE  RequestInv'
<1> DEFINE f == Head(stdout)
           rest == stdout'
<1>1. /\ f \in [kind : FrameKinds, id : Calls \cup {None}]
      /\ stdout' = Tail(stdout) /\ inbox' = inbox /\ proc' = proc /\ proc # None
      /\ UNCHANGED <<ready, shuttingDown, nextCall, request>>
      /\ IF helloDone THEN OnFrame(f) ELSE ConsumeHello(f)
      /\ f.id # None => f.id = inFlight /\ inbox = {}
      /\ f.id # None => \A i \in 1..Len(stdout') : stdout'[i].id = None
      /\ \A i \in 1..Len(stdout') : stdout'[i].id # None =>
           stdout'[i].id = inFlight /\ inbox = {}
      /\ \A i, j \in 1..Len(stdout') : stdout'[i].id # None /\ stdout'[j].id # None => i = j
      /\ inbox \subseteq {inFlight}
  BY FrameRead
<1>2. /\ inFlight \in Calls \cup {None} /\ pending \subseteq Calls /\ None \notin Calls
      /\ lateReplyIds \in Seq(Calls)
  BY CallsAre DEF TypeOK, ClientOK
<1> HIDE DEF f
<1>3. ASSUME UNCHANGED <<pending, queuedBytes, queue, outcome, inFlight, lateReplyIds>>
      PROVE  RequestInv'
  <2>1. QueueOK' /\ PendingOK' /\ SlotOK' /\ LateKnown'
    BY <1>1, <1>3 DEF RequestInv, QueueOK, PendingOK, SlotOK, LateKnown, Queued
  <2>2. OneAnswerOwed'  BY <1>1, <1>3 DEF OneAnswerOwed
  <2>3. BudgetOK'
    <3>1. BytesOf(pending)' = BytesOf(pending)  BY <1>1, <1>3, BytesAre
    <3>2. QED  BY <1>3, <3>1 DEF RequestInv, BudgetOK
  <2>4. QED  BY <2>1, <2>2, <2>3 DEF RequestInv
<1>4. CASE ~helloDone
  BY <1>1, <1>3, <1>4 DEF ConsumeHello, settling, corruption
<1>5. CASE helloDone /\ f.kind = "garbage"
  BY <1>1, <1>3, <1>5 DEF OnFrame, settling
<1>6. CASE helloDone /\ f.kind # "garbage" /\ f.id = None
  <2>1. f.id \notin pending /\ FreeSlot(f) /\ inFlight' = inFlight
    BY <1>1, <1>2, <1>6 DEF OnFrame, FreeSlot
  <2>2. UNCHANGED <<pending, queuedBytes, queue, outcome>>
    BY <1>1, <1>6, <2>1 DEF OnFrame, Deliver, Waiter
  <2>3. lateReplyIds' = lateReplyIds
    <3>1. None \notin Seqs!ToSet(lateReplyIds)  BY <1>2, MembersOf
    <3>2. Without(lateReplyIds, None) = lateReplyIds  BY <3>1 DEF Without
    <3>3. QED  BY <1>1, <1>6, <3>2 DEF OnFrame
  <2>4. QED  BY <1>3, <2>1, <2>2, <2>3
<1>7. CASE helloDone /\ f.kind # "garbage" /\ f.id # None
  <2>1. f.id = inFlight /\ inFlight \in Calls /\ inFlight' = None
    BY <1>1, <1>2, <1>7 DEF OnFrame, FreeSlot
  <2>2. OneAnswerOwed'  BY <1>1, <1>7, <2>1 DEF OneAnswerOwed
  <2>3. SlotOK'  BY <2>1 DEF SlotOK
  <2>4. LateKnown'
    <3>1. Len(lateReplyIds') <= LateReplyRing
      <4>1. lateReplyIds' = lateReplyIds \/ lateReplyIds' = Without(lateReplyIds, f.id)
        BY <1>1, <1>7 DEF OnFrame
      <4>2. Len(Without(lateReplyIds, f.id)) <= Len(lateReplyIds) /\ Len(lateReplyIds) \in Nat
            /\ Without(lateReplyIds, f.id) \in Seq(Calls)
        BY <1>2, WithoutIs
      <4>3. Len(Without(lateReplyIds, f.id)) \in Nat  BY <4>2
      <4>4. QED  BY <4>1, <4>2, <4>3, RtkClientAssumption DEF RequestInv, LateKnown
    <3>2. QED  BY <2>1, <3>1 DEF LateKnown
  <2>5. QueueOK' /\ PendingOK' /\ BudgetOK'
    <3>1. CASE f.id \in pending
      <4>1. PICK why \in {"serverError", "protocol", "ok"} : Settle(f.id, why)
        BY <1>1, <1>7, <3>1 DEF OnFrame, Deliver, Waiter
      <4>2. QED
        BY <1>1, <2>1, <3>1, <4>1, SettleQueueOK, SettlePendingOK, SettleBudgetOK DEF RequestInv
    <3>2. CASE f.id \notin pending
      <4>1. UNCHANGED <<pending, queuedBytes, queue, outcome>>
        BY <1>1, <1>7, <3>2 DEF OnFrame, Deliver, Waiter
      <4>2. QueueOK'
        <5>1. None \notin Queued  BY <1>2 DEF RequestInv, QueueOK
        <5>2. QED  BY <4>1, <5>1, <2>1, <3>2 DEF RequestInv, QueueOK, Queued
      <4>3. PendingOK'  BY <1>1, <4>1 DEF RequestInv, PendingOK
      <4>4. BudgetOK'
        <5>1. BytesOf(pending)' = BytesOf(pending)  BY <1>1, <4>1, BytesAre
        <5>2. QED  BY <4>1, <5>1 DEF RequestInv, BudgetOK
      <4>5. QED  BY <4>2, <4>3, <4>4
    <3>3. QED  BY <3>1, <3>2
  <2>6. QED  BY <2>2, <2>3, <2>4, <2>5 DEF RequestInv
<1>8. QED  BY <1>4, <1>5, <1>6, <1>7

\* The end of a child settles what was pending and empties the slot.
LEMMA ExitRequests ==
  ASSUME TypeOK, LifecycleInv, RequestInv, ExitNoticed
  PROVE  RequestInv'
<1>1. /\ UNCHANGED <<lateReplyIds, nextCall, request, inbox, stdout>>
      /\ shuttingDown => shuttingDown'
  <2>1. UNCHANGED <<lateReplyIds, nextCall, request, inbox, stdout>>
    BY DEF ExitNoticed, corruption, issued, pipes
  <2>2. \/ SpawnFailed(owner, restartTimer)
        \/ shuttingDown' = shuttingDown
    BY DEF ExitNoticed
  <2>3. SpawnFailed(owner, restartTimer) => shuttingDown' = (shuttingDown \/ owner = "create")
    BY DEF SpawnFailed
  <2>4. shuttingDown \in BOOLEAN  BY DEF TypeOK, FlagsOK
  <2>5. ASSUME shuttingDown  PROVE shuttingDown'
    <3>1. CASE SpawnFailed(owner, restartTimer)  BY <2>3, <2>5, <3>1, Zenon
    <3>2. CASE shuttingDown' = shuttingDown  BY <2>5, <3>2
    <3>3. QED  BY <2>2, <3>1, <3>2
  <2>6. QED  BY <2>1, <2>5
<1>2. CASE proc # spawns
  <2>1. UNCHANGED <<proc, ready, inFlight>>  BY <1>2 DEF ExitNoticed
  <2>2. Spawning \/ shuttingDown
    BY <1>2 DEF ExitNoticed, LifecycleInv, ProcIsLast, LastIsGone
  <2>3. UNCHANGED settling  BY <2>2 DEF ExitNoticed
  <2>4. QED  BY <1>1, <2>1, <2>3, QuietRequests DEF settling, issued
<1>3. CASE proc = spawns
  <2>1. proc' = None /\ inFlight' = None  BY <1>3 DEF ExitNoticed
  <2>2. SlotOK' /\ OneAnswerOwed' /\ LateKnown'
    BY <1>1, <2>1 DEF SlotOK, OneAnswerOwed, LateKnown, RequestInv
  <2>3. CASE UNCHANGED settling /\ (Spawning \/ shuttingDown)
    <3>1. pending = {}
      BY <2>3 DEF LifecycleInv, PendingNeedsReady, SpawnHasOwner, AfterShutdown
    <3>2. UNCHANGED <<pending, queuedBytes, queue, outcome>>  BY <2>3 DEF settling
    <3>3. Queued = {} /\ Queued' = {}  BY <3>1, <3>2 DEF RequestInv, QueueOK, Queued
    <3>4. QueueOK'  BY <3>1, <3>2, <3>3 DEF RequestInv, QueueOK
    <3>5. PendingOK'  BY <1>1, <3>1, <3>2 DEF RequestInv, PendingOK
    <3>6. BudgetOK'
      <4>1. BytesOf(pending)' = BytesOf(pending)  BY <1>1, <3>2, BytesAre
      <4>2. QED  BY <3>2, <4>1 DEF RequestInv, BudgetOK
    <3>7. QED  BY <2>2, <3>4, <3>5, <3>6 DEF RequestInv
  <2>4. CASE SettleAll("crash")
    <3>1. QueueOK' /\ BudgetOK' /\ PendingOK'
      BY <1>1, <2>4, SettleAllOK DEF RequestInv
    <3>2. QED  BY <2>2, <3>1 DEF RequestInv
  <2>5. QED  BY <2>3, <2>4 DEF ExitNoticed
<1>4. QED  BY <1>2, <1>3

\* So does shutdown(), except that nobody frees the slot any more.
LEMMA ShutdownRequests ==
  ASSUME TypeOK, LifecycleInv, RequestInv, Shutdown
  PROVE  RequestInv'
<1>1. /\ UNCHANGED <<lateReplyIds, nextCall, request, inFlight>> /\ shuttingDown' /\ proc' = None
      /\ SettleAll("shutdown")
  BY DEF Shutdown, corruption, issued
<1>2. QueueOK' /\ BudgetOK' /\ PendingOK'
  BY <1>1, SettleAllOK DEF RequestInv
<1>3. SlotOK' /\ OneAnswerOwed' /\ LateKnown'
  BY <1>1 DEF RequestInv, SlotOK, OneAnswerOwed, LateKnown
<1>4. QED  BY <1>2, <1>3 DEF RequestInv

\* The child writes to its pipe: an answer it owes, or a frame nobody asked for.
LEMMA ServerWrites ==
  ASSUME TypeOK, RequestInv, NEW f \in [kind : FrameKinds, id : Calls \cup {None}],
         stdout' = Append(stdout, f),
         UNCHANGED <<pending, queuedBytes, queue, outcome, inFlight, lateReplyIds, issued,
                     proc, ready, shuttingDown>>,
         \/ f.id = None /\ inbox' = inbox
         \/ f.id \in inbox /\ inbox' = inbox \ {f.id}
  PROVE  RequestInv'
<1>1. QueueOK' /\ PendingOK' /\ SlotOK' /\ LateKnown'
  BY DEF RequestInv, QueueOK, PendingOK, SlotOK, LateKnown, Queued, issued
<1>2. BudgetOK'
  <2>1. BytesOf(pending)' = BytesOf(pending)  BY BytesAre DEF issued
  <2>2. QED  BY <2>1 DEF RequestInv, BudgetOK
<1>3. OneAnswerOwed'
  <2>1. SUFFICES ASSUME proc # None  PROVE OneAnswerOwed'
    BY DEF OneAnswerOwed
  <2>2. /\ stdout \in Seq([kind : FrameKinds, id : Calls \cup {None}]) /\ Len(stdout) \in Nat
        /\ Len(stdout') = Len(stdout) + 1 /\ stdout'[Len(stdout) + 1] = f
        /\ \A i \in 1..Len(stdout) : stdout'[i] = stdout[i]
    BY AppendProperties DEF TypeOK, ChildOK
  <2>3. /\ inbox \subseteq {inFlight}
        /\ \A i \in 1..Len(stdout) : stdout[i].id # None => stdout[i].id = inFlight /\ inbox = {}
        /\ \A i, j \in 1..Len(stdout) : stdout[i].id # None /\ stdout[j].id # None => i = j
    BY <2>1 DEF RequestInv, OneAnswerOwed
  <2>4. \A i \in 1..Len(stdout') : i = Len(stdout) + 1 \/ i \in 1..Len(stdout)  BY <2>2
  <2>5. CASE f.id = None /\ inbox' = inbox
    <3>1. \A i \in 1..Len(stdout') : stdout'[i].id # None =>
            i \in 1..Len(stdout) /\ stdout'[i] = stdout[i]
      BY <2>2, <2>4, <2>5
    <3>2. QED  BY <2>3, <2>5, <3>1 DEF OneAnswerOwed
  <2>6. CASE f.id \in inbox /\ inbox' = inbox \ {f.id}
    <3>1. \A i \in 1..Len(stdout) : stdout[i].id = None  BY <2>3, <2>6
    <3>2. inbox' = {} /\ f.id = inFlight  BY <2>3, <2>6
    <3>3. \A i \in 1..Len(stdout') : stdout'[i].id # None => i = Len(stdout) + 1 /\ stdout'[i] = f
      BY <2>2, <2>4, <3>1
    <3>4. QED  BY <3>2, <3>3 DEF OneAnswerOwed
  <2>7. QED  BY <2>5, <2>6
<1>4. QED  BY <1>1, <1>2, <1>3 DEF RequestInv

\* Every step keeps the invariant of the requests.
LEMMA RequestsStep ==
  ASSUME TypeOK, LifecycleInv, RequestInv, [Next]_vars
  PROVE  RequestInv'
<1>1. CASE Create
  <2>1. ~SpawnBlocked
    BY <1>1 DEF Create, SpawnBlocked, LifecycleInv, ProcIsLast, SpawnHasOwner, None
  <2>2. QED  BY <1>1, <2>1, SpawnRequests DEF Create
<1>2. CASE RestartTimerFires
  <2>1. CASE SpawnBlocked
    BY <1>2, <2>1, QuietRequests
       DEF RestartTimerFires, requests, settling, corruption, children, pipes
  <2>2. CASE ~SpawnBlocked
    BY <1>2, <2>2, SpawnRequests DEF RestartTimerFires
  <2>3. QED  BY <2>1, <2>2
<1>3. CASE ProbeTimerFires
  BY <1>3, SpawnRequests DEF ProbeTimerFires
<1>4. CASE HandshakeTimesOut
  BY <1>4, QuietRequests DEF HandshakeTimesOut, requests, settling, corruption, pipes
<1>5. CASE HandshakeAccepted
  <2>1. /\ UNCHANGED <<pending, queuedBytes, queue, outcome, inFlight, issued, proc, shuttingDown,
                       inbox, stdout>>
        /\ lateReplyIds' = <<>> /\ ready'
    BY <1>5 DEF HandshakeAccepted, settling, children, pipes
  <2>2. ~ready /\ ~shuttingDown
    BY <1>5 DEF HandshakeAccepted, LifecycleInv, SpawnHasOwner, Spawning
  <2>3. inFlight = None  BY <2>2 DEF RequestInv, SlotOK
  <2>4. QueueOK' /\ PendingOK' /\ SlotOK'
    BY <2>1, <2>3 DEF RequestInv, QueueOK, PendingOK, SlotOK, Queued, issued
  <2>5. OneAnswerOwed'  BY <2>1 DEF RequestInv, OneAnswerOwed
  <2>6. LateKnown'  BY <2>1, <2>3, RtkClientAssumption DEF LateKnown
  <2>7. BudgetOK'
    <3>1. BytesOf(pending)' = BytesOf(pending)  BY <2>1, BytesAre DEF issued
    <3>2. QED  BY <2>1, <3>1 DEF RequestInv, BudgetOK
  <2>8. QED  BY <2>4, <2>5, <2>6, <2>7 DEF RequestInv
<1>6. CASE ReadFrame  BY <1>6, ReadStep
<1>7. CASE ExitNoticed  BY <1>7, ExitRequests
<1>8. CASE Shutdown  BY <1>8, ShutdownRequests
<1>9. ASSUME NEW b \in FrameBytes, Request(b)  PROVE RequestInv'  BY <1>9, RequestStep
<1>10. CASE DrainQueue  BY <1>10, DrainStep
<1>11. ASSUME NEW c \in Calls, Timeout(c)  PROVE RequestInv'  BY <1>11, TimeoutStep
<1>12. CASE StallTimerFires
  BY <1>12, QuietRequests DEF StallTimerFires, settling, lifecycle, corruption, pipes
<1>13. CASE GraceExpires
  BY <1>13, QuietRequests DEF GraceExpires, lifecycle, requests, settling, corruption, pipes
<1>14. CASE ServerHello
  <2>1. PICK kind \in {"hello", "badHello"} : stdout' = Append(stdout, [kind |-> kind, id |-> None])
    BY <1>14 DEF ServerHello
  <2>2. inbox' = inbox /\ UNCHANGED <<lifecycle, requests>>
    BY <1>14 DEF ServerHello, ChildUnchanged
  <2> DEFINE f == [kind |-> kind, id |-> None]
  <2>3. f \in [kind : FrameKinds, id : Calls \cup {None}] /\ f.id = None  BY DEF FrameKinds
  <2> HIDE DEF f
  <2>4. stdout' = Append(stdout, f)  BY <2>1 DEF f
  <2>5. QED
    BY <2>2, <2>3, <2>4, ServerWrites DEF lifecycle, requests, settling, corruption
<1>15. ASSUME NEW c \in Calls, ServerReply(c)  PROVE RequestInv'
  <2>1. PICK kind \in {"ok", "error", "badResult"} :
          stdout' = Append(stdout, [kind |-> kind, id |-> c])
    BY <1>15 DEF ServerReply
  <2>2. c \in inbox /\ inbox' = inbox \ {c} /\ UNCHANGED <<lifecycle, requests>>
    BY <1>15 DEF ServerReply, ChildUnchanged
  <2> DEFINE f == [kind |-> kind, id |-> c]
  <2>3. f \in [kind : FrameKinds, id : Calls \cup {None}] /\ f.id = c  BY DEF FrameKinds
  <2> HIDE DEF f
  <2>4. stdout' = Append(stdout, f)  BY <2>1 DEF f
  <2>5. QED
    BY <2>2, <2>3, <2>4, ServerWrites DEF lifecycle, requests, settling, corruption
<1>16. CASE ServerNoise
  <2>1. PICK kind \in {"garbage", "ok", "error"} :
          stdout' = Append(stdout, [kind |-> kind, id |-> None])
    BY <1>16 DEF ServerNoise
  <2>2. inbox' = inbox /\ UNCHANGED <<lifecycle, requests>>
    BY <1>16 DEF ServerNoise, ChildUnchanged
  <2> DEFINE f == [kind |-> kind, id |-> None]
  <2>3. f \in [kind : FrameKinds, id : Calls \cup {None}] /\ f.id = None  BY DEF FrameKinds
  <2> HIDE DEF f
  <2>4. stdout' = Append(stdout, f)  BY <2>1 DEF f
  <2>5. QED
    BY <2>2, <2>3, <2>4, ServerWrites DEF lifecycle, requests, settling, corruption
<1>17. CASE ChildExits
  <2>1. /\ UNCHANGED <<pending, queuedBytes, queue, outcome, inFlight, lateReplyIds, issued,
                       proc, ready, shuttingDown, stdout>>
        /\ inbox' = {}
    BY <1>17 DEF ChildExits, ChildUnchanged, lifecycle, requests, settling, corruption
  <2>2. QueueOK' /\ PendingOK' /\ SlotOK' /\ LateKnown'
    BY <2>1 DEF RequestInv, QueueOK, PendingOK, SlotOK, LateKnown, Queued, issued
  <2>3. OneAnswerOwed'  BY <2>1 DEF RequestInv, OneAnswerOwed
  <2>4. BudgetOK'
    <3>1. BytesOf(pending)' = BytesOf(pending)  BY <2>1, BytesAre DEF issued
    <3>2. QED  BY <2>1, <3>1 DEF RequestInv, BudgetOK
  <2>5. QED  BY <2>2, <2>3, <2>4 DEF RequestInv
<1>18. CASE UNCHANGED vars
  BY <1>18, QuietRequests
     DEF vars, lifecycle, requests, settling, corruption, children, pipes
<1>19. QED
  BY <1>1, <1>2, <1>3, <1>4, <1>5, <1>6, <1>7, <1>8, <1>9, <1>10, <1>11, <1>12, <1>13,
     <1>14, <1>15, <1>16, <1>17, <1>18 DEF Next

\* The invariant of the requests holds in every reachable state.
THEOREM RequestsCorrect == Spec => []RequestInv
<1>1. Init => RequestInv
  <2>1. SUFFICES ASSUME Init  PROVE RequestInv  OBVIOUS
  <2>2. /\ pending = {} /\ queue = <<>> /\ queuedBytes = 0 /\ inFlight = None /\ proc = None
        /\ lateReplyIds = <<>> /\ outcome = [c \in Calls |-> "none"]
    BY <2>1 DEF Init
  <2>3. QueueOK
    <3>1. Queued = {} /\ Distinct(queue)  BY <2>2 DEF Queued, Seqs!ToSet, Distinct
    <3>2. QED  BY <2>2, <3>1 DEF QueueOK
  <2>4. PendingOK /\ SlotOK  BY <2>2 DEF PendingOK, SlotOK
  <2>5. OneAnswerOwed  BY <2>2 DEF OneAnswerOwed
  <2>6. LateKnown  BY <2>2, RtkClientAssumption DEF LateKnown
  <2>7. BudgetOK
    <3>1. BytesOf({}) = 0  BY FS_EmptySet, WeighIs, BytesAre DEF Weighed
    <3>2. QED  BY <2>2, <3>1, FS_EmptySet, RtkClientAssumption DEF BudgetOK
  <2>8. QED  BY <2>3, <2>4, <2>5, <2>6, <2>7 DEF RequestInv
<1>2. QED  BY <1>1, TypeCorrect, LifecycleCorrect, RequestsStep, PTL DEF Spec

\* Admission control is exact for any number of requests of any sizes: the byte
\* budget is that of the unsettled requests, both limits hold, and each of them is
\* queued or in flight (request, settle, onChildExit, doShutdown).
THEOREM AdmissionAlwaysExact == Spec => []AdmissionExact
<1>1. RequestInv => AdmissionExact
  BY DEF RequestInv, QueueOK, BudgetOK, AdmissionExact
<1>2. QED  BY <1>1, RequestsCorrect, PTL

\* A result that the child sends for a request it was given never counts as a
\* protocol failure, however late it comes: the child owes one answer at a time,
\* and the ring always holds the one it owes (onFrame, rememberLateReply).
THEOREM LateRepliesNeverStrike == Spec => LateReplyNeverStrikes
<1> DEFINE P == stdout # <<>> /\ stdout' = Tail(stdout) /\ helloDone
                /\ Head(stdout).kind = "ok" /\ Head(stdout).id # None
                => protocolStreak' <= protocolStreak /\ signal' = signal
<1>1. TypeOK /\ LifecycleInv /\ RequestInv /\ [Next]_vars => [P]_vars
  <2>1. SUFFICES ASSUME TypeOK, LifecycleInv, RequestInv, Next,
                        stdout # <<>>, stdout' = Tail(stdout), helloDone,
                        Head(stdout).kind = "ok", Head(stdout).id # None
                 PROVE  protocolStreak' <= protocolStreak /\ signal' = signal
    OBVIOUS
  <2> DEFINE f == Head(stdout)
  <2>2. stdout \in Seq([kind : FrameKinds, id : Calls \cup {None}]) /\ protocolStreak \in Nat
    BY <2>1 DEF TypeOK, ChildOK, ClientOK
  <2>3. CASE ReadFrame
    <3>1. OnFrame(f) /\ f.id = inFlight /\ proc # None
      BY <2>1, <2>3, FrameRead
    <3>2. f.id \in pending \/ f.id \in Seqs!ToSet(lateReplyIds)
      BY <2>1, <3>1 DEF RequestInv, LateKnown
    <3> HIDE DEF f
    <3>3. f.kind = "ok"  BY <2>1 DEF f
    <3>4. CASE f.id \in pending
      <4>1. NoStrike(0)  BY <3>1, <3>3, <3>4 DEF OnFrame, Waiter
      <4>2. QED  BY <4>1, <2>2 DEF NoStrike
    <3>5. CASE f.id \notin pending
      <4>1. NoStrike(protocolStreak)  BY <3>1, <3>2, <3>3, <3>5 DEF OnFrame, Waiter
      <4>2. QED  BY <4>1, <2>2 DEF NoStrike
    <3>6. QED  BY <3>4, <3>5
  <2>4. CASE ~ReadFrame
    <3>1. Len(stdout') = Len(stdout) - 1 /\ Len(stdout) \in Nat  BY <2>1, <2>2, TailIs
    <3>2. stdout' # stdout  BY <3>1
    <3>3. \A g : Len(Append(stdout, g)) = Len(stdout) + 1  BY <2>2
    <3>4. \A g : stdout' # Append(stdout, g)  BY <3>1, <3>3
    <3>5. ~(UNCHANGED children) /\ ~(UNCHANGED pipes)  BY <3>2 DEF children, pipes
    <3>6. PICK who : SpawnAndGreet(who) /\ UNCHANGED requests
      BY <2>1, <2>4, <3>2, <3>4, <3>5
         DEF Next, Create, Request, DrainQueue, Timeout, StallTimerFires, RestartTimerFires,
             ProbeTimerFires, HandshakeTimesOut, GraceExpires, HandshakeAccepted, ExitNoticed,
             Shutdown, ServerHello, ServerReply, ServerNoise, ChildExits, Spawn
    <3>7. protocolStreak' = protocolStreak /\ signal' = signal
      BY <3>6 DEF SpawnAndGreet, requests, corruption
    <3>8. QED  BY <3>7, <2>2
  <2>5. QED  BY <2>3, <2>4
<1>2. QED
  BY <1>1, TypeCorrect, LifecycleCorrect, RequestsCorrect, PTL DEF Spec, LateReplyNeverStrikes

\* Settling a request changes its outcome alone, to what the caller is told.
LEMMA SettleOutcome ==
  ASSUME TypeOK, RequestInv, NEW d \in pending, NEW why, Settle(d, why),
         NEW c \in Calls, outcome'[c] # outcome[c]
  PROVE  /\ c = d /\ outcome[c] = "none" /\ c \in pending
         /\ outcome'[c] = DegradeFrom(why)
<1>1. outcome' = [outcome EXCEPT ![d] = DegradeFrom(why)] /\ outcome \in [Calls -> Outcomes]
  BY DEF Settle, TypeOK, ClientOK
<1>2. c = d  BY <1>1
<1>3. QED  BY <1>1, <1>2 DEF RequestInv, PendingOK

\* Settling everything changes the outcomes of what was pending.
LEMMA SettleAllOutcome ==
  ASSUME TypeOK, RequestInv, NEW why, SettleAll(why), NEW c \in Calls, outcome'[c] # outcome[c]
  PROVE  outcome[c] = "none" /\ c \in pending /\ outcome'[c] = DegradeFrom(why)
<1>1. c \in pending /\ outcome'[c] = DegradeFrom(why)  BY DEF SettleAll
<1>2. QED  BY <1>1 DEF RequestInv, PendingOK

\* A request is settled once and by its own answer, for any number of requests,
\* children and orders of their frames (settle, onFrame, degradeFrom).
THEOREM RepliesAlwaysCorrelate == Spec => RepliesCorrelate
<1> DEFINE answered(kind, c) == /\ stdout # <<>> /\ stdout' = Tail(stdout)
                                /\ Head(stdout) = [kind |-> kind, id |-> c]
                                /\ request[c].proc = proc
           Honest(c) == /\ outcome[c] = "none" /\ c \in pending
                        /\ outcome'[c] = "ok" => answered("ok", c)
                        /\ outcome'[c] = "thrown" => answered("error", c) \/ shuttingDown'
           P == \A c \in Calls : outcome'[c] # outcome[c] => Honest(c)
<1>1. ASSUME TypeOK, LifecycleInv, RequestInv, Next, NEW c \in Calls, outcome'[c] # outcome[c]
      PROVE  Honest(c)
  <2>1. \A why \in {"timeout", "crash", "protocol", "unready"} : DegradeFrom(why) = "degraded"
    BY DEF DegradeFrom
  <2>2. /\ DegradeFrom("ok") = "ok" /\ DegradeFrom("serverError") = "thrown"
        /\ DegradeFrom("shutdown") = "thrown"
    BY DEF DegradeFrom
  <2>3. CASE DrainQueue
    <3>1. PICK why \in GiveUpReasons(Head(queue)) : queue # <<>> /\ Settle(Head(queue), why)
      BY <1>1, <2>3 DEF DrainQueue, SendJob
    <3>2. Head(queue) \in pending
      BY <1>1, <3>1, TailIs DEF TypeOK, ClientOK, RequestInv, QueueOK, Queued
    <3>3. why \in {"timeout", "crash", "protocol", "unready"}  BY <3>1 DEF GiveUpReasons
    <3>4. outcome[c] = "none" /\ c \in pending /\ outcome'[c] = "degraded"
      BY <1>1, <2>1, <3>1, <3>2, <3>3, SettleOutcome
    <3>5. QED  BY <3>4
  <2>4. CASE \E d \in Calls : Timeout(d)
    <3>1. PICK d \in Calls : Timeout(d)  BY <2>4
    <3>2. d \in pending /\ Settle(d, "timeout")  BY <3>1 DEF Timeout
    <3>3. outcome[c] = "none" /\ c \in pending /\ outcome'[c] = "degraded"
      BY <1>1, <2>1, <3>2, SettleOutcome
    <3>4. QED  BY <3>3
  <2>5. CASE ReadFrame
    <3> DEFINE f == Head(stdout)
    <3>1. /\ f \in [kind : FrameKinds, id : Calls \cup {None}] /\ stdout' = Tail(stdout)
          /\ IF helloDone THEN OnFrame(f) ELSE ConsumeHello(f)
          /\ stdout # <<>>
      BY <1>1, <2>5, FrameRead DEF ReadFrame
    <3> HIDE DEF f
    <3>2. OnFrame(f)  BY <1>1, <3>1 DEF ConsumeHello, settling
    <3>3. PICK why \in {"serverError", "protocol", "ok"} :
            /\ f.id \in pending /\ Settle(f.id, why)
            /\ why = "ok" => f.kind = "ok"
            /\ why = "serverError" => f.kind = "error"
      BY <1>1, <3>2 DEF OnFrame, Deliver, Waiter, settling
    <3>4. c = f.id /\ outcome[c] = "none" /\ c \in pending /\ outcome'[c] = DegradeFrom(why)
      BY <1>1, <3>3, SettleOutcome
    <3>5. request[c].proc = proc  BY <1>1, <3>4 DEF RequestInv, PendingOK
    <3>6. \A k : f.kind = k => f = [kind |-> k, id |-> c]  BY <3>1, <3>4
    <3>7. CASE why = "ok"
      <4>1. f = [kind |-> "ok", id |-> c] /\ outcome'[c] = "ok"  BY <3>3, <3>4, <3>6, <3>7, <2>2
      <4>2. QED  BY <4>1, <3>1, <3>4, <3>5 DEF f
    <3>8. CASE why = "serverError"
      <4>1. f = [kind |-> "error", id |-> c] /\ outcome'[c] = "thrown"
        BY <3>3, <3>4, <3>6, <3>8, <2>2
      <4>2. QED  BY <4>1, <3>1, <3>4, <3>5 DEF f
    <3>9. CASE why = "protocol"
      <4>1. outcome'[c] = "degraded"  BY <3>4, <3>9, <2>1
      <4>2. QED  BY <4>1, <3>4
    <3>10. QED  BY <3>3, <3>7, <3>8, <3>9
  <2>6. CASE ExitNoticed
    <3>1. SettleAll("crash")  BY <1>1, <2>6 DEF ExitNoticed, settling
    <3>2. outcome[c] = "none" /\ c \in pending /\ outcome'[c] = "degraded"
      BY <1>1, <2>1, <3>1, SettleAllOutcome
    <3>3. QED  BY <3>2
  <2>7. CASE Shutdown
    <3>1. SettleAll("shutdown") /\ shuttingDown'  BY <2>7 DEF Shutdown
    <3>2. outcome[c] = "none" /\ c \in pending /\ outcome'[c] = "thrown"
      BY <1>1, <2>2, <3>1, SettleAllOutcome
    <3>3. QED  BY <3>1, <3>2
  <2>8. CASE ~DrainQueue /\ ~ReadFrame /\ ~ExitNoticed /\ ~Shutdown /\ ~\E d \in Calls : Timeout(d)
    <3>1. outcome' = outcome
      BY <1>1, <2>8
         DEF Next, Create, Request, StallTimerFires, RestartTimerFires, ProbeTimerFires,
             HandshakeTimesOut, GraceExpires, HandshakeAccepted, ServerHello, ServerReply,
             ServerNoise, ChildExits, ChildUnchanged, requests, settling
    <3>2. QED  BY <1>1, <3>1
  <2>9. QED  BY <2>3, <2>4, <2>5, <2>6, <2>7, <2>8
<1>2. TypeOK /\ LifecycleInv /\ RequestInv /\ [Next]_vars => [P]_vars
  <2> HIDE DEF Honest
  <2>1. QED  BY <1>1
<1>3. QED
  BY <1>2, TypeCorrect, LifecycleCorrect, RequestsCorrect, PTL DEF Spec, RepliesCorrelate
=============================================================================
