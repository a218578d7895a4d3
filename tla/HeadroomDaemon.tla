--------------------------- MODULE HeadroomDaemon ---------------------------
(***************************************************************************)
(* The life of the headroom daemons and of their clients' connections:     *)
(* single-instance arbitration, idle exit and graceful stop                *)
(* (packages/headroomd/src/server.ts, bin.ts), the writer lease            *)
(* (store/lease.ts), and HeadroomClient.connect (client.ts), which spawns  *)
(* a daemon when the socket is dead.                                       *)
(*                                                                         *)
(* All daemons share one data directory and one socket path.  An action is *)
(* what one process does between two awaits, so the steps of daemons and   *)
(* clients interleave and a daemon may crash between any two.  A crash     *)
(* leaves the socket file and the pid file behind and frees the lease.     *)
(* What a request does to the store, and the answers themselves, are left  *)
(* out; that a request is running is not.                                  *)
(***************************************************************************)
EXTENDS Naturals, FiniteSets

CONSTANTS
  Daemons,        \* the daemon processes that may ever be spawned
  Clients,        \* the connections of plugin processes, one at a time each
  MaxClients,     \* 32 in the code: open connections of a daemon
  MaxRequests,    \* 32 in the code: admitted requests of a daemon
  MaxAttempts     \* 5 in the code: connection attempts after the boot line

ASSUME HeadroomDaemonAssumption ==
  MaxClients \in Nat /\ MaxRequests \in Nat /\ MaxAttempts \in Nat \ {0}

Nobody == "nobody"

ASSUME NobodyAssumption == Nobody \notin Daemons

VARIABLES
  socket,     \* whose listening socket the path names, or named before a crash
  pidfile,    \* whose pid the pid file holds
  lease,      \* who holds the exclusive transaction on writer-lock.db
  pc,         \* where each daemon is
  boot,       \* the line each daemon wrote to its stdout
  sigterm,    \* a SIGTERM is on its way
  openClients, operations, idleTimer,
  cpc, child, attempt  \* each client's connect(): where, its daemon, retries

files == <<socket, pidfile, lease>>
process == <<pc, boot, sigterm>>
serving == <<openClients, operations, idleTimer>>
connecting == <<cpc, child, attempt>>
vars == <<files, process, serving, connecting>>

Listening == {"pid", "serving"}
Working == {"bind", "stopping"} \cup Listening
Starting == {"probe", "unlink", "lease", "wait", "bind", "rebind", "pid"}

\* Every variable has its type.
TypeOK ==
  /\ socket \in Daemons \cup {Nobody} /\ pidfile \in Daemons \cup {Nobody}
  /\ lease \in Daemons \cup {Nobody}
  /\ pc \in [Daemons -> {"unborn", "serving", "stopping", "closing", "gone"} \cup Starting]
  /\ boot \in [Daemons -> {"none", "listening", "already-running"}]
  /\ sigterm \in [Daemons -> BOOLEAN]
  /\ openClients \in [Daemons -> SUBSET Clients]
  /\ operations \in [Daemons -> Nat] /\ idleTimer \in [Daemons -> BOOLEAN]
  /\ cpc \in [Clients -> {"idle", "booting", "retry", "connected", "failed"}]
  /\ child \in [Clients -> Daemons \cup {Nobody}]
  /\ attempt \in [Clients -> 0..MaxAttempts]

Init ==
  /\ socket = Nobody /\ pidfile = Nobody /\ lease = Nobody
  /\ pc = [d \in Daemons |-> "unborn"]
  /\ boot = [d \in Daemons |-> "none"]
  /\ sigterm = [d \in Daemons |-> FALSE]
  /\ openClients = [d \in Daemons |-> {}]
  /\ operations = [d \in Daemons |-> 0]
  /\ idleTimer = [d \in Daemons |-> FALSE]
  /\ cpc = [c \in Clients |-> "idle"]
  /\ child = [c \in Clients |-> Nobody]
  /\ attempt = [c \in Clients |-> 0]

-----------------------------------------------------------------------------
(***************************************************************************)
(* attemptConnect(): what connecting to the path may come to.              *)
(***************************************************************************)

\* A hello, ENOENT or ECONNREFUSED, or anything else (a timeout, a full daemon).
Answers ==
  IF socket = Nobody THEN {"refused"}
  ELSE CASE pc[socket] \in Listening ->
              {"error"} \cup (IF Cardinality(openClients[socket]) < MaxClients
                              THEN {"hello"} ELSE {})
         [] pc[socket] = "stopping" -> {"refused", "error"}
         [] OTHER -> {"refused"}

-----------------------------------------------------------------------------
(***************************************************************************)
(* startHeadroomServer().                                                  *)
(***************************************************************************)

Goto(d, label) == pc' = [pc EXCEPT ![d] = label]

\* The start yields `already-running`: bin.ts prints it and exits.
Yields(d) ==
  /\ Goto(d, "gone")
  /\ boot' = [boot EXCEPT ![d] = "already-running"]

\* The start throws: the process exits without a line on stdout.
Fails(d) == Goto(d, "gone") /\ UNCHANGED boot

\* Is a live daemon at the path?
Probe(d) ==
  /\ pc[d] = "probe"
  /\ \/ "hello" \in Answers /\ Yields(d)
     \/ "error" \in Answers /\ Fails(d)
     \/ "refused" \in Answers /\ Goto(d, "unlink") /\ UNCHANGED boot
  /\ UNCHANGED <<files, sigterm, serving, connecting>>

\* Whatever is at the path by now is removed.
Unlink(d) ==
  /\ pc[d] = "unlink"
  /\ socket' = Nobody
  /\ Goto(d, "lease")
  /\ UNCHANGED <<pidfile, lease, boot, sigterm, serving, connecting>>

\* createEngine(): the writer lease first; opening the store may fail.
AcquireLease(d) ==
  /\ pc[d] = "lease"
  /\ \/ lease = Nobody /\ lease' = d /\ Goto(d, "bind") /\ UNCHANGED boot
     \/ lease # Nobody /\ Goto(d, "wait") /\ UNCHANGED <<lease, boot>>
     \/ Fails(d) /\ UNCHANGED lease
  /\ UNCHANGED <<socket, pidfile, sigterm, serving, connecting>>

\* waitForWinningDaemon(): the winner answers, the path turns out to be somebody
\* else's, or two seconds pass.
WaitForWinningDaemon(d) ==
  /\ pc[d] = "wait"
  /\ ("hello" \in Answers /\ Yields(d)) \/ Fails(d)
  /\ UNCHANGED <<files, sigterm, serving, connecting>>

\* server.listen(); a path that is taken makes it release the lease and look again, any
\* other error makes it release the lease and give up.
Bind(d) ==
  /\ pc[d] = "bind"
  /\ \/ socket = Nobody /\ socket' = d /\ Goto(d, "pid") /\ UNCHANGED lease
     \/ socket # Nobody /\ lease' = Nobody /\ Goto(d, "rebind") /\ UNCHANGED socket
     \/ lease' = Nobody /\ Fails(d) /\ UNCHANGED socket
  /\ UNCHANGED <<pidfile, boot, sigterm, serving, connecting>>

\* The probe after a lost bind.
Reprobe(d) ==
  /\ pc[d] = "rebind"
  /\ ("hello" \in Answers /\ Yields(d)) \/ Fails(d)
  /\ UNCHANGED <<files, sigterm, serving, connecting>>

\* Mutant: requests under way do not hold the timer back.
QuietWithoutClients(clients, running) == clients = {}

\* Neither a client nor a request under way.
Quiet(clients, running) == clients = {} /\ running = 0

\* armIdleTimer().
ArmIdleTimer(d, clients, running) ==
  idleTimer' = IF pc[d] \in Listening /\ Quiet(clients, running)
               THEN [idleTimer EXCEPT ![d] = TRUE] ELSE idleTimer

\* The pid file, the idle timer, the boot line and the signal handlers.
WritePid(d) ==
  /\ pc[d] = "pid"
  /\ pidfile' = d
  /\ Goto(d, "serving")
  /\ boot' = [boot EXCEPT ![d] = "listening"]
  /\ ArmIdleTimer(d, openClients[d], operations[d])
  /\ UNCHANGED <<socket, lease, sigterm, openClients, operations, connecting>>

-----------------------------------------------------------------------------
(***************************************************************************)
(* Serving, and shutdown().                                                *)
(***************************************************************************)

\* A request of a connected client is admitted, or, over the limit, its
\* connection is destroyed.
Request(c, d) ==
  /\ c \in openClients[d] /\ pc[d] \in Listening
  /\ \/ /\ operations[d] < MaxRequests
        /\ operations' = [operations EXCEPT ![d] = @ + 1]
        /\ idleTimer' = [idleTimer EXCEPT ![d] = FALSE]
        /\ UNCHANGED <<openClients, cpc>>
     \/ /\ operations[d] >= MaxRequests
        /\ openClients' = [openClients EXCEPT ![d] = @ \ {c}]
        /\ ArmIdleTimer(d, openClients[d] \ {c}, operations[d])
        /\ cpc' = [cpc EXCEPT ![c] = "idle"]
        /\ UNCHANGED operations
  /\ UNCHANGED <<files, process, child, attempt>>

\* An admitted request is answered, its client there or not.
Respond(d) ==
  /\ operations[d] > 0
  /\ operations' = [operations EXCEPT ![d] = @ - 1]
  /\ ArmIdleTimer(d, openClients[d], operations[d] - 1)
  /\ UNCHANGED <<files, process, openClients, connecting>>

\* Mutant: the close handler forgets the timer.
CloseForgotten(d, clients) == UNCHANGED idleTimer

\* The close handler of a connection.
OnClose(d, clients) == ArmIdleTimer(d, clients, operations[d])

\* The client closes its connection.
Close(c, d) ==
  /\ c \in openClients[d]
  /\ openClients' = [openClients EXCEPT ![d] = @ \ {c}]
  /\ OnClose(d, openClients[d] \ {c})
  /\ cpc' = [cpc EXCEPT ![c] = "idle"]
  /\ UNCHANGED <<files, process, operations, child, attempt>>

\* shutdown() up to its first await.
Stop(d) ==
  /\ Goto(d, "stopping")
  /\ idleTimer' = [idleTimer EXCEPT ![d] = FALSE]

\* The idle timer; it is far longer than writing the pid file takes.
IdleExit(d) ==
  /\ pc[d] = "serving" /\ idleTimer[d]
  /\ Stop(d)
  /\ UNCHANGED <<files, boot, sigterm, openClients, operations, connecting>>

\* Mutant: nobody waits for the requests under way.
DrainAtOnce(d) == TRUE

\* Promise.allSettled(operations).
Drained(d) == operations[d] = 0

\* Every connection of d ends; its clients see the close.
Disconnected(d) ==
  /\ openClients' = [openClients EXCEPT ![d] = {}]
  /\ cpc' = [c \in Clients |-> IF c \in openClients[d] THEN "idle" ELSE cpc[c]]

\* The connections are destroyed and engine.close() releases the lease.
Drain(d) ==
  /\ pc[d] = "stopping" /\ Drained(d)
  /\ Disconnected(d)
  /\ lease' = Nobody
  /\ Goto(d, "closing")
  /\ UNCHANGED <<socket, pidfile, boot, sigterm, operations, idleTimer, child,
                 attempt>>

\* The socket path and the pid file are removed, whoever they belong to by now.
Cleanup(d) ==
  /\ pc[d] = "closing"
  /\ socket' = Nobody /\ pidfile' = Nobody
  /\ Goto(d, "gone")
  /\ UNCHANGED <<lease, boot, sigterm, serving, connecting>>

\* The process ends at once.
Dies(d) ==
  /\ Goto(d, "gone")
  /\ lease' = IF lease = d THEN Nobody ELSE lease
  /\ Disconnected(d)
  /\ operations' = [operations EXCEPT ![d] = 0]
  /\ idleTimer' = [idleTimer EXCEPT ![d] = FALSE]
  /\ UNCHANGED <<socket, pidfile, boot, child, attempt>>

\* SIGTERM ends a starting process; once the handler is there it is shutdown().
Sigterm(d) ==
  /\ sigterm[d] /\ pc[d] \notin {"unborn", "gone"}
  /\ sigterm' = [sigterm EXCEPT ![d] = FALSE]
  /\ \/ pc[d] \in Starting /\ Dies(d)
     \/ /\ pc[d] = "serving" /\ Stop(d)
        /\ UNCHANGED <<files, boot, openClients, operations, connecting>>
     \/ /\ pc[d] \in {"stopping", "closing"}
        /\ UNCHANGED <<files, pc, boot, serving, connecting>>

Crash(d) ==
  /\ pc[d] \notin {"unborn", "gone"}
  /\ Dies(d)
  /\ UNCHANGED sigterm

-----------------------------------------------------------------------------
(***************************************************************************)
(* HeadroomClient.connect().                                               *)
(***************************************************************************)

\* The daemon at the path has accepted c.
Connected(c) ==
  /\ openClients' = [openClients EXCEPT ![socket] = @ \cup {c}]
  /\ idleTimer' = [idleTimer EXCEPT ![socket] = FALSE]
  /\ cpc' = [cpc EXCEPT ![c] = "connected"]
  /\ UNCHANGED operations

\* The daemon there is answers.
Connect(c) ==
  /\ cpc[c] = "idle" /\ "hello" \in Answers
  /\ Connected(c)
  /\ UNCHANGED <<files, process, child, attempt>>

\* The attempt fails (any attempt may time out) and connect() spawns a daemon.
Spawn(c, d) ==
  /\ cpc[c] = "idle" /\ pc[d] = "unborn"
  /\ Goto(d, "probe")
  /\ cpc' = [cpc EXCEPT ![c] = "booting"]
  /\ child' = [child EXCEPT ![c] = d]
  /\ attempt' = [attempt EXCEPT ![c] = 0]
  /\ UNCHANGED <<files, boot, sigterm, serving>>

\* The boot line arrives.
Booted(c) ==
  /\ cpc[c] = "booting" /\ boot[child[c]] # "none"
  /\ cpc' = [cpc EXCEPT ![c] = "retry"]
  /\ UNCHANGED <<files, process, serving, child, attempt>>

\* Mutant: the child is left to itself.
LeaveChild(c) == sigterm

\* child.kill().
KillChild(c) ==
  IF pc[child[c]] = "gone" THEN sigterm ELSE [sigterm EXCEPT ![child[c]] = TRUE]

\* The child ended without a line, wrote another one, or five seconds have passed: connect()
\* rejects before it has read the boot line, which may be there by then.
BootFails(c) ==
  /\ cpc[c] = "booting"
  /\ cpc' = [cpc EXCEPT ![c] = "failed"]
  /\ sigterm' = KillChild(c)
  /\ UNCHANGED <<files, pc, boot, serving, child, attempt>>

\* No attempt is left after this one.
LastAttempt(c) == attempt[c] + 1 >= MaxAttempts

\* One attempt after the boot line; the last one that fails ends connect().
Retry(c) ==
  /\ cpc[c] = "retry"
  /\ attempt' = [attempt EXCEPT ![c] = @ + 1]
  /\ \/ /\ "hello" \in Answers
        /\ Connected(c)
        /\ UNCHANGED sigterm
     \/ /\ ~LastAttempt(c)
        /\ UNCHANGED <<cpc, sigterm, serving>>
     \/ /\ LastAttempt(c)
        /\ cpc' = [cpc EXCEPT ![c] = "failed"]
        /\ sigterm' = KillChild(c)
        /\ UNCHANGED serving
  /\ UNCHANGED <<files, pc, boot, child>>

\* The plugin tries again later.
Reconnect(c) ==
  /\ cpc[c] = "failed"
  /\ cpc' = [cpc EXCEPT ![c] = "idle"]
  /\ UNCHANGED <<files, process, serving, child, attempt>>

-----------------------------------------------------------------------------

Next ==
  \/ \E d \in Daemons :
       \/ Probe(d)
       \/ Unlink(d)
       \/ AcquireLease(d)
       \/ WaitForWinningDaemon(d)
       \/ Bind(d)
       \/ Reprobe(d)
       \/ WritePid(d)
       \/ Respond(d)
       \/ IdleExit(d)
       \/ Drain(d)
       \/ Cleanup(d)
       \/ Sigterm(d)
       \/ Crash(d)
  \/ \E c \in Clients :
       \/ Connect(c)
       \/ \E d \in Daemons : Spawn(c, d)
       \/ \E d \in Daemons : Request(c, d)
       \/ \E d \in Daemons : Close(c, d)
       \/ Booted(c)
       \/ BootFails(c)
       \/ Retry(c)
       \/ Reconnect(c)

Spec == Init /\ [][Next]_vars

\* Due timers fire, signals arrive, a request under way is answered and a stop
\* goes on.  Nothing obliges a starting daemon to get anywhere (its store may
\* take any time to open) or a client to connect, ask or close.
Fairness ==
  /\ \A d \in Daemons :
       /\ WF_vars(Respond(d)) /\ WF_vars(IdleExit(d)) /\ WF_vars(Sigterm(d))
       /\ WF_vars(Drain(d)) /\ WF_vars(Cleanup(d))
  /\ \A c \in Clients :
       WF_vars(Booted(c)) /\ WF_vars(BootFails(c)) /\ WF_vars(Retry(c))

FairSpec == Spec /\ Fairness

-----------------------------------------------------------------------------
(***************************************************************************)
(* Properties.                                                             *)
(***************************************************************************)

\* Nobody works on the store without the writer lease: a daemon holds it from
\* before it listens until its last admitted request is done, also while it
\* stops and whoever else starts meanwhile; and whoever has ended, or lost its bind,
\* has given it back (lease.ts, shutdown, engine.close after a failed listen).
LeaseGuardsStore ==
  \A d \in Daemons : /\ pc[d] \in Working \/ operations[d] > 0 => lease = d
                     /\ lease = d => pc[d] \in Working

\* The idle timer runs exactly while a daemon has neither a client nor a request
\* under way: it never ends a daemon in use, and an unused one always has it,
\* in whatever order connections close and requests finish (armIdleTimer,
\* disarmIdleTimer, handleLine, the close handler).
IdleTimerExact ==
  \A d \in Daemons :
    /\ idleTimer[d] => pc[d] \in Listening /\ openClients[d] = {} /\ operations[d] = 0
    /\ pc[d] = "serving" /\ openClients[d] = {} /\ operations[d] = 0 => idleTimer[d]

\* A daemon whose socket somebody removed does not keep the lease for ever: once
\* its clients have left, it ends (armIdleTimer, shutdown).
UnreachableDaemonEnds ==
  \A d \in Daemons :
    pc[d] = "serving" /\ socket # d /\ openClients[d] = {} ~> pc[d] = "gone"

\* connect() comes to an end, whatever the daemon it spawned does, and one that
\* gives up leaves no daemon behind (the boot timer, MAX_RECONNECT_ATTEMPTS, fail
\* and its child.kill).
ConnectSettles ==
  \A c \in Clients :
    /\ cpc[c] \in {"booting", "retry"} ~> cpc[c] \notin {"booting", "retry"}
    /\ \A d \in Daemons : cpc[c] = "failed" /\ child[c] = d ~> pc[d] = "gone"
=============================================================================
