------------------------------ MODULE RtkClient ------------------------------
(***************************************************************************)
(* The plugin-side client of the rtk compression server                    *)
(* (packages/rtk/src/client.ts): one child process, one request in flight, *)
(* a bounded queue behind it, per-request timeouts with a ring of late     *)
(* replies, a stall timer, a protocol-failure streak, restarts with        *)
(* backoff, a breaker with probes, and shutdown.                           *)
(*                                                                         *)
(* JavaScript runs each event-loop callback to completion, microtasks      *)
(* included.  An action is one such callback.  The two kinds of microtask  *)
(* that matter are explicit: a pending drainQueue (variable drain) and the *)
(* continuation of an accepted handshake (handshake = "greeted"); while    *)
(* one is outstanding no other callback runs (Idle).  Callers may issue    *)
(* requests from microtasks of their own, so Request is not held back.     *)
(*                                                                         *)
(* Time is abstract: an armed timer may fire at any moment.  The child's   *)
(* own behaviour (ServerHello, ServerReply, ServerNoise, ChildExits) is    *)
(* whatever a process on the other end of the pipes may do.                *)
(***************************************************************************)
EXTENDS Integers, Sequences, FiniteSets

Sets == INSTANCE FiniteSetsExt
Seqs == INSTANCE SequencesExt

CONSTANTS
  MaxPending,          \* 32 in the code: admitted and unsettled requests
  MaxQueuedBytes,      \* 8 MiB in the code: their frames together
  FrameBytes,          \* the sizes a request frame may have
  LateReplyRing,       \* 64 in the code: ids of timed-out requests kept
  StreakLimit,         \* 3 in the code: protocol failures before SIGKILL
  MaxRestartAttempts,  \* 5 by default: failed restarts before the breaker
  MaxCalls,            \* bound of the model: requests ever made
  MaxSpawns,           \* bound of the model: children ever spawned
  MaxNoise             \* bound of the model: corrupt frames ever sent

ASSUME RtkClientAssumption ==
  /\ MaxPending \in Nat \ {0} /\ MaxQueuedBytes \in Nat
  /\ FrameBytes \subseteq Nat \ {0}
  /\ LateReplyRing \in Nat \ {0} /\ StreakLimit \in Nat \ {0}
  /\ MaxRestartAttempts \in Nat
  /\ MaxCalls \in Nat /\ MaxSpawns \in Nat /\ MaxNoise \in Nat

None == 0
Calls == 1..MaxCalls
Procs == 1..MaxSpawns

VARIABLES
  \* lifecycle fields of RtkClient
  created,         \* create() has resolved: callers hold the client
  proc, ready, shuttingDown,
  closed,          \* the shutdown promise has resolved
  handshake,       \* where spawnAndGreet is: "none" iff not spawning
  owner,           \* who runs spawnAndGreet: create(), a restart, a probe
  breakerOpen, restartAttempt, restartTimer, probeTimer,
  \* request fields
  pending, queuedBytes, queue, inFlight, stalledTimer,
  protocolStreak, lateReplyIds,
  drain,           \* a drainQueue microtask is queued
  \* what the closures of a request captured, and how it was settled
  nextCall, request, outcome,
  \* the current child and its pipes
  spawns, child, signal, saidHello, helloDone, inbox, stdout, noise

recovery == <<breakerOpen, restartAttempt, restartTimer, probeTimer>>
lifecycle == <<created, proc, ready, shuttingDown, closed, handshake, owner, recovery>>
settling == <<pending, queuedBytes, queue, outcome, drain>>
corruption == <<protocolStreak, lateReplyIds>>
issued == <<nextCall, request>>
pipes == <<saidHello, helloDone, inbox, stdout, noise>>
children == <<spawns, child, signal, pipes>>
requests == <<settling, inFlight, stalledTimer, corruption, issued>>
vars == <<lifecycle, requests, children>>

Spawning == handshake # "none"

\* No microtask is outstanding, so the event loop may run another callback.
Idle == ~drain /\ handshake # "greeted"

FrameKinds == {"hello", "badHello", "ok", "error", "badResult", "garbage"}

\* What compress() makes of a settled request: a result, an error its caller sees
\* (the server refused, or the client was shut down), or a degraded passthrough
\* for every transport failure.
DegradeFrom(why) ==
  CASE why = "ok" -> "ok"
    [] why \in {"serverError", "shutdown"} -> "thrown"
    [] why \in {"timeout", "crash", "protocol", "unready"} -> "degraded"

Outcomes == {"none", "ok", "thrown", "degraded"}

FlagsOK ==
  /\ created \in BOOLEAN /\ ready \in BOOLEAN /\ shuttingDown \in BOOLEAN
  /\ closed \in BOOLEAN /\ breakerOpen \in BOOLEAN /\ drain \in BOOLEAN
  /\ restartTimer \in BOOLEAN /\ probeTimer \in BOOLEAN
  /\ saidHello \in BOOLEAN /\ helloDone \in BOOLEAN

ClientOK ==
  /\ proc \in Procs \cup {None}
  /\ handshake \in {"none", "waiting", "greeted", "terminating"}
  /\ owner \in {"none", "create", "restart", "probe"}
  /\ restartAttempt \in 0..MaxRestartAttempts
  /\ pending \subseteq Calls /\ queue \in Seq(Calls)
  /\ inFlight \in Calls \cup {None} /\ stalledTimer \in Calls \cup {None}
  /\ protocolStreak \in Nat /\ lateReplyIds \in Seq(Calls)
  /\ nextCall \in 1..(MaxCalls + 1)
  /\ request \in [Calls -> [proc : Procs \cup {None}, bytes : Nat]]
  /\ outcome \in [Calls -> Outcomes]

ChildOK ==
  /\ spawns \in 0..MaxSpawns
  /\ child \in [Procs -> {"unborn", "alive", "exited", "reaped"}]
  /\ signal \in [Procs -> {"none", "term", "kill"}]
  /\ inbox \in SUBSET Calls
  /\ stdout \in Seq([kind : FrameKinds, id : Calls \cup {None}])
  /\ noise \in 0..MaxNoise

\* Every variable has its type.
TypeOK == FlagsOK /\ ClientOK /\ ChildOK

Init ==
  /\ created = FALSE /\ proc = None /\ ready = FALSE
  /\ shuttingDown = FALSE /\ closed = FALSE
  /\ handshake = "none" /\ owner = "none"
  /\ breakerOpen = FALSE /\ restartAttempt = 0
  /\ restartTimer = FALSE /\ probeTimer = FALSE
  /\ pending = {} /\ queuedBytes = 0 /\ queue = <<>>
  /\ inFlight = None /\ stalledTimer = None
  /\ protocolStreak = 0 /\ lateReplyIds = <<>> /\ drain = FALSE
  /\ nextCall = 1
  /\ request = [c \in Calls |-> [proc |-> None, bytes |-> 0]]
  /\ outcome = [c \in Calls |-> "none"]
  /\ spawns = 0
  /\ child = [p \in Procs |-> "unborn"]
  /\ signal = [p \in Procs |-> "none"]
  /\ saidHello = FALSE /\ helloDone = FALSE
  /\ inbox = {} /\ stdout = <<>> /\ noise = 0

-----------------------------------------------------------------------------
(***************************************************************************)
(* Settling requests.                                                      *)
(***************************************************************************)

BytesOf(S) == Sets!MapThenSumSet(LAMBDA c : request[c].bytes, S)

\* The sequence of distinct ids s with c spliced out.
Without(s, c) ==
  IF c \in Seqs!ToSet(s)
  THEN Seqs!RemoveAt(s, CHOOSE i \in DOMAIN s : s[i] = c)
  ELSE s

\* Mutant: settle() gives nothing back.
NoRefund(c) == 0

\* What settle() gives back of queuedBytes.
Refund(c) == request[c].bytes

\* settle(): out of pending and of the queue, the frame's bytes given back, the
\* promise settled, a drainQueue microtask queued.
Settle(c, why) ==
  /\ pending' = pending \ {c}
  /\ queuedBytes' = queuedBytes - Refund(c)
  /\ queue' = Without(queue, c)
  /\ outcome' = [outcome EXCEPT ![c] = DegradeFrom(why)]
  /\ drain' = TRUE

\* settle() for every pending request, the queued ones among them.
SettleAll(why) ==
  /\ pending' = {}
  /\ queuedBytes' = queuedBytes - BytesOf(pending)
  /\ queue' = <<>>
  /\ outcome' = [c \in Calls |-> IF c \in pending THEN DegradeFrom(why) ELSE outcome[c]]
  /\ drain' = (drain \/ pending # {})

-----------------------------------------------------------------------------
(***************************************************************************)
(* request() and drainQueue().                                             *)
(***************************************************************************)

Available == ready /\ proc # None /\ ~breakerOpen /\ ~Spawning

Overloaded(bytes) ==
  \/ Cardinality(pending) >= MaxPending
  \/ queuedBytes + bytes > MaxQueuedBytes

\* A refused call (shut down, unready, overloaded) leaves the client as it was;
\* an admitted one is queued and drainQueue() runs at once.
Request(bytes) ==
  /\ created /\ nextCall <= MaxCalls
  /\ ~shuttingDown /\ Available /\ ~Overloaded(bytes)
  /\ nextCall' = nextCall + 1
  /\ request' = [request EXCEPT ![nextCall] = [proc |-> proc, bytes |-> bytes]]
  /\ pending' = pending \cup {nextCall}
  /\ queuedBytes' = queuedBytes + bytes
  /\ queue' = Append(queue, nextCall)
  /\ drain' = TRUE
  /\ UNCHANGED <<lifecycle, children, outcome, inFlight, stalledTimer,
                 corruption>>

\* The head of the queue goes to the child.  A write to a child that has
\* exited may be lost in the pipe.
SendJob(c) ==
  /\ inFlight' = c
  /\ inbox' = IF child[proc] = "alive" THEN inbox \cup {c} ELSE inbox
  /\ queue' = Tail(queue)
  /\ drain' = FALSE
  /\ UNCHANGED <<pending, queuedBytes, outcome>>

\* Why drainQueue may give up on job c: its deadline has passed, it was queued
\* for another child, or the write to an exited child threw.
GiveUpReasons(c) ==
  {"timeout"} \cup
  (IF request[c].proc # proc \/ ~ready \/ shuttingDown THEN {"unready"}
   ELSE IF child[proc] # "alive" THEN {"crash"} ELSE {})

DrainQueue ==
  /\ drain
  /\ \/ /\ inFlight # None \/ queue = <<>>
        /\ drain' = FALSE
        /\ UNCHANGED <<pending, queuedBytes, queue, outcome, inFlight, inbox>>
     \/ /\ inFlight = None /\ queue # <<>>
        /\ \/ \E why \in GiveUpReasons(Head(queue)) :
                /\ Settle(Head(queue), why)
                /\ UNCHANGED <<inFlight, inbox>>
           \/ /\ request[Head(queue)].proc = proc /\ ready /\ ~shuttingDown
              /\ SendJob(Head(queue))
  /\ UNCHANGED <<lifecycle, stalledTimer, corruption, issued, spawns, child,
                 signal, saidHello, helloDone, stdout, noise>>

\* Mutant: the ring is never filled.
ForgetLateReply(c) == lateReplyIds

\* rememberLateReply(): a set in insertion order that drops its oldest member.
RememberLateReply(c) ==
  LET ids == IF c \in Seqs!ToSet(lateReplyIds) THEN lateReplyIds
             ELSE Append(lateReplyIds, c)
  IN
  IF Len(ids) > LateReplyRing THEN Tail(ids) ELSE ids

\* The per-request timer.
Timeout(c) ==
  /\ Idle /\ c \in pending
  /\ lateReplyIds' = IF inFlight = c THEN RememberLateReply(c) ELSE lateReplyIds
  /\ stalledTimer' = IF inFlight = c THEN c ELSE stalledTimer
  /\ Settle(c, "timeout")
  /\ UNCHANGED <<lifecycle, children, inFlight, protocolStreak, issued>>

Kill(p) == signal' = [signal EXCEPT ![p] = "kill"]

\* Mutant: the stall timer kills nobody.
StallHarmless(c) == FALSE

\* The child that still owes the answer to c is the current one.
StallKills(c) ==
  proc # None /\ proc = request[c].proc /\ inFlight = c /\ ~shuttingDown

\* The stall timer: a child that has not answered a second after the timeout of
\* the request in flight is killed.
StallTimerFires ==
  /\ Idle /\ stalledTimer # None
  /\ stalledTimer' = None
  /\ IF StallKills(stalledTimer) THEN Kill(proc) ELSE UNCHANGED signal
  /\ UNCHANGED settling
  /\ UNCHANGED <<lifecycle, inFlight, corruption, issued, spawns, child,
                 pipes>>

-----------------------------------------------------------------------------
(***************************************************************************)
(* Spawning, the handshake, restarts and the breaker.                      *)
(***************************************************************************)

\* spawnAndGreet() up to its first await.
SpawnAndGreet(who) ==
  /\ spawns < MaxSpawns
  /\ spawns' = spawns + 1
  /\ proc' = spawns + 1
  /\ child' = [child EXCEPT ![spawns + 1] = "alive"]
  /\ handshake' = "waiting" /\ owner' = who
  /\ saidHello' = FALSE /\ helloDone' = FALSE
  /\ inbox' = {} /\ stdout' = <<>>
  /\ UNCHANGED <<signal, noise>>

\* The restart budget is exhausted.
Trips(attempt) == attempt > MaxRestartAttempts

\* Mutant: the breaker opens and nobody probes.
ProbesForgotten(trips) == probeTimer

\* tripBreaker() starts the probe interval.
ProbesStarted(trips) == probeTimer \/ trips

\* scheduleRestart(): the next attempt is armed, or the breaker trips and the
\* probe interval starts.  armed: whether an earlier timer is still set.
ScheduleRestart(armed) ==
  LET attempt == restartAttempt + 1
      quiet == breakerOpen \/ shuttingDown
      trips == ~quiet /\ Trips(attempt)
  IN  /\ breakerOpen' = (breakerOpen \/ trips)
      /\ probeTimer' = ProbesStarted(trips)
      /\ restartTimer' = (armed \/ (~quiet /\ ~trips))
      /\ restartAttempt' = IF quiet THEN restartAttempt
                           ELSE IF trips THEN 0 ELSE attempt

\* Mutant: a failed restart is the last one.
GivesUp(who) == FALSE

\* Only a restart's caller schedules another attempt.
Reschedules(who) == who = "restart"

\* What follows a failed spawnAndGreet: create() shuts the client down, a
\* restart schedules the next one, a probe waits for its next interval.  A
\* shutdown that was waiting for this child resolves.
SpawnFailed(who, armed) ==
  /\ handshake' = "none" /\ owner' = "none"
  /\ shuttingDown' = (shuttingDown \/ who = "create")
  /\ closed' = (shuttingDown \/ who = "create")
  /\ IF Reschedules(who)
     THEN ScheduleRestart(armed)
     ELSE /\ restartTimer' = armed
          /\ UNCHANGED <<restartAttempt, breakerOpen, probeTimer>>

\* create(), a restart or a probe spawns, or Bun.spawn itself throws.
Spawn(who, armed) ==
  \/ /\ SpawnAndGreet(who)
     /\ restartTimer' = armed
     /\ UNCHANGED <<shuttingDown, closed, restartAttempt, breakerOpen,
                    probeTimer>>
  \/ /\ SpawnFailed(who, armed)
     /\ UNCHANGED <<proc, children>>

Create ==
  /\ spawns = 0 /\ ~shuttingDown
  /\ Spawn("create", FALSE)
  /\ UNCHANGED <<created, ready, requests>>

\* Mutant: a handshake under way does not count.
SpawnBlockedWhenReady == shuttingDown \/ ready

\* trySpawn() returns at once.
SpawnBlocked == shuttingDown \/ Spawning \/ proc # None

\* The backoff timer: trySpawn(), rescheduled when it reports no child.
RestartTimerFires ==
  /\ Idle /\ restartTimer
  /\ IF SpawnBlocked
     THEN /\ IF proc # None
             THEN /\ restartTimer' = FALSE
                  /\ UNCHANGED <<restartAttempt, breakerOpen, probeTimer>>
             ELSE ScheduleRestart(FALSE)
          /\ UNCHANGED <<proc, shuttingDown, closed, handshake, owner,
                         children>>
     ELSE Spawn("restart", FALSE)
  /\ UNCHANGED <<created, ready, requests>>

\* The probe interval stays armed; its result is ignored.
ProbeTimerFires ==
  /\ Idle /\ probeTimer /\ ~SpawnBlocked
  /\ Spawn("probe", restartTimer)
  /\ UNCHANGED <<created, ready, requests>>

\* The handshake has failed: terminateChild() sends SIGTERM and waits.
RejectHandshake ==
  /\ handshake' = "terminating"
  /\ signal' = [signal EXCEPT ![spawns] = IF @ = "none" THEN "term" ELSE @]

HandshakeTimesOut ==
  /\ Idle /\ handshake = "waiting"
  /\ RejectHandshake
  /\ UNCHANGED <<created, proc, ready, shuttingDown, closed, owner, recovery,
                 requests, spawns, child, pipes>>

\* terminateChild()'s grace window ends with the child still there.
GraceExpires ==
  /\ Idle /\ spawns # 0
  /\ signal[spawns] = "term" /\ child[spawns] = "alive"
  /\ Kill(spawns)
  /\ UNCHANGED <<lifecycle, requests, spawns, child, pipes>>

\* The continuation of an accepted handshake, in spawnAndGreet() and trySpawn().
HandshakeAccepted ==
  /\ handshake = "greeted"
  /\ handshake' = "none" /\ owner' = "none"
  /\ created' = TRUE
  /\ ready' = TRUE /\ restartAttempt' = 0
  /\ protocolStreak' = 0 /\ lateReplyIds' = <<>>
  /\ breakerOpen' = (breakerOpen /\ owner = "create")
  /\ probeTimer' = (probeTimer /\ (owner = "create" \/ ~breakerOpen))
  /\ UNCHANGED settling
  /\ UNCHANGED <<proc, shuttingDown, closed, restartTimer, inFlight,
                 stalledTimer, issued, children>>

-----------------------------------------------------------------------------
(***************************************************************************)
(* Frames from the child.                                                  *)
(***************************************************************************)

\* The first line of the pump.
ConsumeHello(f) ==
  /\ helloDone' = TRUE
  /\ CASE handshake = "waiting" /\ f.kind = "hello" ->
            handshake' = "greeted" /\ UNCHANGED signal
       [] handshake = "waiting" /\ f.kind # "hello" -> RejectHandshake
       [] OTHER -> UNCHANGED <<handshake, signal>>
  /\ UNCHANGED settling
  /\ UNCHANGED <<inFlight, stalledTimer, corruption>>

\* protocolStreak += 1 and checkProtocolStreak().
Strike ==
  LET strikes == protocolStreak + 1
      fatal == strikes >= StreakLimit /\ ~shuttingDown /\ ~breakerOpen /\ proc # None
  IN  /\ protocolStreak' = IF fatal THEN 0 ELSE strikes
      /\ IF fatal THEN Kill(proc) ELSE UNCHANGED signal

NoStrike(streak) == protocolStreak' = streak /\ UNCHANGED signal

\* An answer to the request in flight frees the slot, whatever it says.
FreeSlot(f) ==
  LET answers == inFlight # None /\ f.id = inFlight IN
  /\ inFlight' = IF answers THEN None ELSE inFlight
  /\ stalledTimer' = IF answers THEN None ELSE stalledTimer

\* Mutant: a reply belongs to whatever is in flight.
CorrelateBySlot(f) == inFlight

\* The request a frame answers.
Waiter(f) == f.id

\* Settle the waiter; an answer nobody waits for still frees the slot.
Deliver(f, why) ==
  IF Waiter(f) \in pending
  THEN Settle(Waiter(f), why)
  ELSE /\ drain' = (drain \/ (inFlight # None /\ f.id = inFlight))
       /\ UNCHANGED <<pending, queuedBytes, queue, outcome>>

\* onFrame(): not JSON or not an envelope; an error; a result nobody waits for
\* (late, or unknown); a result of the wrong shape; a result.
OnFrame(f) ==
  /\ \/ /\ f.kind = "garbage"
        /\ Strike
        /\ UNCHANGED settling
        /\ UNCHANGED <<inFlight, stalledTimer, lateReplyIds>>
     \/ /\ f.kind = "error"
        /\ FreeSlot(f) /\ Deliver(f, "serverError") /\ NoStrike(0)
        /\ UNCHANGED lateReplyIds
     \/ /\ f.kind \in {"ok", "badResult"} /\ Waiter(f) \notin pending
        /\ FreeSlot(f) /\ Deliver(f, "none")
        /\ lateReplyIds' = Without(lateReplyIds, f.id)
        /\ IF f.id \in Seqs!ToSet(lateReplyIds) THEN NoStrike(protocolStreak) ELSE Strike
     \/ /\ f.kind = "badResult" /\ Waiter(f) \in pending
        /\ FreeSlot(f) /\ Deliver(f, "protocol") /\ Strike
        /\ UNCHANGED lateReplyIds
     \/ /\ f.kind = "ok" /\ Waiter(f) \in pending
        /\ FreeSlot(f) /\ Deliver(f, "ok") /\ NoStrike(0)
        /\ UNCHANGED lateReplyIds
  /\ UNCHANGED <<handshake, helloDone>>

\* One line of the current child's stdout.  Lines of one chunk follow the
\* handshake's line before its continuation runs.
ReadFrame ==
  /\ ~drain /\ stdout # <<>>
  /\ proc = spawns /\ proc # None
  /\ stdout' = Tail(stdout)
  /\ IF helloDone THEN OnFrame(Head(stdout)) ELSE ConsumeHello(Head(stdout))
  /\ UNCHANGED <<created, proc, ready, shuttingDown, closed, owner, recovery,
                 issued, spawns, child, saidHello, inbox, noise>>

-----------------------------------------------------------------------------
(***************************************************************************)
(* The end of a child, and shutdown().                                     *)
(***************************************************************************)

\* proc.exited resolves: onChildExit(), and the continuations of a handshake or
\* a terminateChild() that were waiting for the same child.
ExitNoticed ==
  /\ Idle /\ spawns # 0 /\ child[spawns] = "exited"
  /\ child' = [child EXCEPT ![spawns] = "reaped"]
  /\ IF proc = spawns
     THEN proc' = None /\ ready' = FALSE /\ inFlight' = None /\ stalledTimer' = None
     ELSE UNCHANGED <<proc, ready, inFlight, stalledTimer>>
  /\ \/ /\ Spawning
        /\ SpawnFailed(owner, restartTimer)
        /\ UNCHANGED settling
     \/ /\ ~Spawning /\ shuttingDown
        /\ closed' = TRUE
        /\ UNCHANGED settling
        /\ UNCHANGED <<shuttingDown, handshake, owner, recovery>>
     \/ /\ ~Spawning /\ ~shuttingDown
        /\ SettleAll("crash")
        /\ ScheduleRestart(restartTimer)
        /\ UNCHANGED <<shuttingDown, closed, handshake, owner>>
  /\ UNCHANGED <<created, corruption, issued, spawns, signal, pipes>>

\* Mutant: shutdown() does not wait for the child.
NoWait == TRUE

\* Without a child shutdown() has nothing to wait for.
NothingToReap == proc = None

\* shutdown() of a client its caller holds.
Shutdown ==
  /\ created /\ ~shuttingDown /\ handshake # "greeted"
  /\ shuttingDown' = TRUE
  /\ stalledTimer' = None /\ restartTimer' = FALSE /\ probeTimer' = FALSE
  /\ SettleAll("shutdown")
  /\ ready' = FALSE /\ proc' = None
  /\ closed' = NothingToReap
  /\ signal' = IF proc # None /\ signal[proc] = "none"
               THEN [signal EXCEPT ![proc] = "term"] ELSE signal
  /\ UNCHANGED <<created, handshake, owner, breakerOpen, restartAttempt,
                 inFlight, corruption, issued, spawns, child, pipes>>

-----------------------------------------------------------------------------
(***************************************************************************)
(* The child: what a process at the other end of the pipes may do.         *)
(***************************************************************************)

ChildUnchanged == UNCHANGED <<lifecycle, requests, spawns, signal, helloDone>>

Alive == spawns # 0 /\ child[spawns] = "alive"

ServerHello ==
  /\ Alive /\ ~saidHello
  /\ saidHello' = TRUE
  /\ \E kind \in {"hello", "badHello"} :
       stdout' = Append(stdout, [kind |-> kind, id |-> None])
  /\ ChildUnchanged /\ UNCHANGED <<child, inbox, noise>>

\* One answer per request received, in the order received.
ServerReply(c) ==
  /\ Alive /\ saidHello /\ c \in inbox
  /\ inbox' = inbox \ {c}
  /\ \E kind \in {"ok", "error", "badResult"} :
       /\ kind = "badResult" => noise < MaxNoise
       /\ noise' = IF kind = "badResult" THEN noise + 1 ELSE noise
       /\ stdout' = Append(stdout, [kind |-> kind, id |-> c])
  /\ ChildUnchanged /\ UNCHANGED <<child, saidHello>>

\* A line nobody asked for: not JSON, a result for an unknown id, or the
\* E_PROTOCOL answer that carries no request's id.
ServerNoise ==
  /\ Alive /\ saidHello /\ noise < MaxNoise
  /\ noise' = noise + 1
  /\ \E kind \in {"garbage", "ok", "error"} :
       stdout' = Append(stdout, [kind |-> kind, id |-> None])
  /\ ChildUnchanged /\ UNCHANGED <<child, saidHello, inbox>>

\* A crash, or the effect of a signal.
ChildExits ==
  /\ Alive
  /\ child' = [child EXCEPT ![spawns] = "exited"]
  /\ inbox' = {}
  /\ ChildUnchanged /\ UNCHANGED <<saidHello, stdout, noise>>

-----------------------------------------------------------------------------

Next ==
  \/ Create
  \/ \E b \in FrameBytes : Request(b)
  \/ DrainQueue
  \/ \E c \in Calls : Timeout(c)
  \/ StallTimerFires
  \/ RestartTimerFires
  \/ ProbeTimerFires
  \/ HandshakeTimesOut
  \/ GraceExpires
  \/ HandshakeAccepted
  \/ ReadFrame
  \/ ExitNoticed
  \/ Shutdown
  \/ ServerHello
  \/ \E c \in Calls : ServerReply(c)
  \/ ServerNoise
  \/ ChildExits

Spec == Init /\ [][Next]_vars

\* The event loop runs due timers, readable pipes and microtasks, and the
\* kernel ends a process that was sent SIGKILL.  Nothing obliges a caller to
\* call or the child to say anything.
Fairness ==
  /\ WF_vars(DrainQueue) /\ WF_vars(HandshakeAccepted) /\ WF_vars(ReadFrame)
  /\ \A c \in Calls : WF_vars(Timeout(c))
  /\ WF_vars(StallTimerFires) /\ WF_vars(RestartTimerFires)
  /\ WF_vars(HandshakeTimesOut) /\ WF_vars(GraceExpires)
  /\ WF_vars(ExitNoticed)
  /\ WF_vars(Alive /\ signal[spawns] = "kill" /\ ChildExits)

FairSpec == Spec /\ Fairness

-----------------------------------------------------------------------------
(***************************************************************************)
(* Properties.                                                             *)
(***************************************************************************)

Queued == Seqs!ToSet(queue)

\* Admission control counts what it should: the byte budget is exactly the
\* frames of the unsettled requests, both limits hold, and every unsettled
\* request is either queued or in flight, so none is forgotten (client.ts
\* request, settle, onChildExit, doShutdown).
AdmissionExact ==
  /\ queuedBytes = BytesOf(pending) /\ queuedBytes <= MaxQueuedBytes
  /\ Cardinality(pending) <= MaxPending
  /\ Queued \subseteq pending
  /\ pending \subseteq Queued \cup {inFlight}

\* There is never a second server process: a child that has not exited, or whose
\* exit is unnoticed, is the last one spawned (spawnAndGreet, trySpawn).
OneChild ==
  \A p \in Procs : child[p] \in {"alive", "exited"} => p = spawns

\* While the client is down exactly one thing will bring it back: the handshake
\* under way, the backoff timer, or the probe interval of an open breaker; a
\* client that is up has none of the timers (onChildExit, scheduleRestart,
\* trySpawn, tripBreaker).
OneRecoveryOwner ==
  created /\ ~shuttingDown =>
    /\ proc = None => ~Spawning /\ restartTimer # probeTimer
    /\ proc # None => ~restartTimer /\ (ready # Spawning)
    /\ probeTimer = breakerOpen

\* When shutdown() has resolved no server process is left, nothing is waiting
\* for an answer and no timer can start a new one (doShutdown, terminateChild).
ShutdownReaps ==
  closed => /\ \A p \in Procs : child[p] # "alive"
            /\ pending = {} /\ ~restartTimer /\ ~probeTimer /\ ~Spawning

\* Slowness is not corruption: a result the child sends for a request it was
\* given never counts towards the protocol streak and never gets the child
\* killed, however late it arrives (onFrame, rememberLateReply).
LateReplyNeverStrikes ==
  [][stdout # <<>> /\ stdout' = Tail(stdout) /\ helloDone
       /\ Head(stdout).kind = "ok" /\ Head(stdout).id # None
     => protocolStreak' <= protocolStreak /\ signal' = signal]_vars

\* A request is settled once, and honestly: with a result only by the reply that
\* carries its id, read from the child it was sent to; with an error only by the
\* server's refusal of it or by shutdown (settle, onFrame, degradeFrom).
RepliesCorrelate ==
  [][\A c \in Calls : outcome'[c] # outcome[c] =>
       LET answered(kind) == /\ stdout # <<>> /\ stdout' = Tail(stdout)
                             /\ Head(stdout) = [kind |-> kind, id |-> c]
                             /\ request[c].proc = proc
       IN  /\ outcome[c] = "none" /\ c \in pending
           /\ outcome'[c] = "ok" => answered("ok")
           /\ outcome'[c] = "thrown" => answered("error") \/ shuttingDown']_vars

\* Serialization does not stay occupied: whatever the child does, the request in
\* flight leaves the slot (the stall timer of request, onChildExit).
SlotIsFreed ==
  \A c \in Calls : inFlight = c ~> inFlight # c \/ shuttingDown

\* A client that goes down comes back or ends with the breaker open, unless it is
\* shut down (or the model has used up its spawns).
RecoversOrBreaks ==
  created /\ ~ready ~> ready \/ breakerOpen \/ shuttingDown \/ spawns = MaxSpawns
=============================================================================
