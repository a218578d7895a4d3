------------------------ MODULE HeadroomDaemonProofs ------------------------
(***************************************************************************)
(* For any number of daemons and clients and any limits: the variables are *)
(* typed, nobody works on the store without the writer lease, and the idle *)
(* timer runs exactly while a daemon is unused.                            *)
(***************************************************************************)
EXTENDS HeadroomDaemon, TLAPS

\* Requests are under way only in a daemon that listens or drains.
WorkIsServed ==
  \A d \in Daemons : operations[d] > 0 => pc[d] \in Listening \cup {"stopping"}

\* A client that retries has an attempt left.
AttemptLeft == \A c \in Clients : cpc[c] \in {"booting", "retry"} => attempt[c] < MaxAttempts

\* The inductive invariant: typing needs AttemptLeft, and releasing the lease
\* after a lost bind needs WorkIsServed.
DaemonInv == TypeOK /\ AttemptLeft /\ WorkIsServed /\ LeaseGuardsStore /\ IdleTimerExact

-----------------------------------------------------------------------------

\* A hello comes from a listening daemon.
LEMMA HelloIsListening ==
  ASSUME TypeOK, "hello" \in Answers
  PROVE  socket \in Daemons /\ pc[socket] \in Listening
  BY DEF TypeOK, Answers

\* Sending a signal keeps the set of signalled daemons typed.
LEMMA KillTyped ==
  ASSUME TypeOK, NEW c \in Clients
  PROVE  KillChild(c) \in [Daemons -> BOOLEAN]
  BY DEF TypeOK, KillChild

\* Every step keeps the variables typed (startHeadroomServer, shutdown, connect).
LEMMA TypeStep ==
  ASSUME TypeOK, AttemptLeft, [Next]_vars
  PROVE  TypeOK' /\ AttemptLeft'
<1> USE HeadroomDaemonAssumption
<1>1. CASE UNCHANGED vars
  BY <1>1 DEF TypeOK, AttemptLeft, vars, files, process, serving, connecting
<1>2. ASSUME NEW d \in Daemons,
             Probe(d) \/ Unlink(d) \/ AcquireLease(d) \/ WaitForWinningDaemon(d)
             \/ Bind(d) \/ Reprobe(d) \/ WritePid(d) \/ IdleExit(d) \/ Cleanup(d)
      PROVE  TypeOK' /\ AttemptLeft'
  BY <1>2, ZenonT(60) DEF TypeOK, AttemptLeft, Probe, Unlink, AcquireLease, WaitForWinningDaemon, Bind,
     Reprobe, WritePid, IdleExit, Cleanup, Stop, Yields, Fails, Goto, ArmIdleTimer,
     Starting, files, serving, connecting
<1>3. ASSUME NEW d \in Daemons, Respond(d)
      PROVE  TypeOK' /\ AttemptLeft'
  BY <1>3 DEF TypeOK, AttemptLeft, Respond, ArmIdleTimer, Quiet, files, process, connecting
<1>4. ASSUME NEW d \in Daemons, Drain(d)
      PROVE  TypeOK' /\ AttemptLeft'
  BY <1>4 DEF TypeOK, AttemptLeft, Drain, Disconnected, Goto
<1>5. ASSUME NEW d \in Daemons, Sigterm(d) \/ Crash(d)
      PROVE  TypeOK' /\ AttemptLeft'
  <2>1. CASE Dies(d) /\ sigterm' \in [Daemons -> BOOLEAN]
    BY <2>1 DEF TypeOK, AttemptLeft, Dies, Disconnected, Goto
  <2>2. CASE /\ Stop(d) /\ sigterm' \in [Daemons -> BOOLEAN]
             /\ UNCHANGED <<files, boot, openClients, operations, connecting>>
    BY <2>2 DEF TypeOK, AttemptLeft, Stop, Goto, files, connecting
  <2>3. CASE /\ sigterm' \in [Daemons -> BOOLEAN]
             /\ UNCHANGED <<files, pc, boot, serving, connecting>>
    BY <2>3 DEF TypeOK, AttemptLeft, files, serving, connecting
  <2>4. sigterm' \in [Daemons -> BOOLEAN]
    BY <1>5 DEF TypeOK, Sigterm, Crash
  <2> QED BY <1>5, <2>1, <2>2, <2>3, <2>4 DEF Sigterm, Crash
<1>6. ASSUME NEW c \in Clients, NEW d \in Daemons, Spawn(c, d) \/ Request(c, d) \/ Close(c, d)
      PROVE  TypeOK' /\ AttemptLeft'
  <2>1. CASE Spawn(c, d)
    BY <2>1 DEF TypeOK, AttemptLeft, Spawn, Goto, Starting, files, serving
  <2>2. CASE Request(c, d)
    <3>1. operations' \in [Daemons -> Nat]
      BY <2>2 DEF TypeOK, Request
    <3>2. idleTimer' \in [Daemons -> BOOLEAN]
      BY <2>2 DEF TypeOK, Request, ArmIdleTimer
    <3> QED BY <2>2, <3>1, <3>2 DEF TypeOK, AttemptLeft, Request, files, process
  <2>3. CASE Close(c, d)
    BY <2>3 DEF TypeOK, AttemptLeft, Close, OnClose, ArmIdleTimer, files, process
  <2> QED BY <1>6, <2>1, <2>2, <2>3
<1>7. ASSUME NEW c \in Clients, Connect(c)
      PROVE  TypeOK' /\ AttemptLeft'
  BY <1>7, HelloIsListening DEF TypeOK, AttemptLeft, Connect, Connected, files, process
<1>8. ASSUME NEW c \in Clients, Booted(c) \/ BootFails(c) \/ Reconnect(c)
      PROVE  TypeOK' /\ AttemptLeft'
  <2>1. CASE Booted(c) \/ Reconnect(c)
    BY <2>1 DEF TypeOK, AttemptLeft, Booted, Reconnect, files, process, serving
  <2>2. CASE BootFails(c)
    BY <2>2, KillTyped DEF TypeOK, AttemptLeft, BootFails, files, serving
  <2> QED BY <1>8, <2>1, <2>2
<1>9. ASSUME NEW c \in Clients, Retry(c)
      PROVE  TypeOK' /\ AttemptLeft'
  <2>1. attempt' \in [Clients -> 0..MaxAttempts]
    BY <1>9 DEF Retry, TypeOK, AttemptLeft
  <2>2. CASE "hello" \in Answers /\ Connected(c) /\ UNCHANGED sigterm
    BY <1>9, <2>1, <2>2, HelloIsListening
       DEF TypeOK, AttemptLeft, Retry, Connected, files
  <2>3. CASE ~LastAttempt(c) /\ UNCHANGED <<cpc, sigterm, serving>>
    BY <1>9, <2>1, <2>3 DEF TypeOK, AttemptLeft, Retry, LastAttempt, files, serving
  <2>4. CASE /\ cpc' = [cpc EXCEPT ![c] = "failed"]
             /\ sigterm' = KillChild(c) /\ UNCHANGED serving
    BY <1>9, <2>1, <2>4, KillTyped DEF TypeOK, AttemptLeft, Retry, files, serving
  <2> QED BY <1>9, <2>2, <2>3, <2>4 DEF Retry
<1> QED BY <1>1, <1>2, <1>3, <1>4, <1>5, <1>6, <1>7, <1>8, <1>9 DEF Next

-----------------------------------------------------------------------------

\* No step takes the lease from a daemon at work, or leaves the timer wrong.
LEMMA WorkStep ==
  ASSUME DaemonInv, [Next]_vars
  PROVE  WorkIsServed' /\ LeaseGuardsStore' /\ IdleTimerExact'
<1> DEFINE Good == WorkIsServed /\ LeaseGuardsStore /\ IdleTimerExact
<1> USE DEF DaemonInv, TypeOK, WorkIsServed, LeaseGuardsStore, IdleTimerExact, Working,
            Listening
<1>1. CASE UNCHANGED vars
  BY <1>1 DEF vars, files, process, serving, connecting
<1>2. ASSUME NEW d \in Daemons, Probe(d) \/ WaitForWinningDaemon(d) \/ Reprobe(d)
      PROVE  Good'
  BY <1>2 DEF Probe, WaitForWinningDaemon, Reprobe, Yields, Fails, Goto, files, serving
<1>3. ASSUME NEW d \in Daemons, Unlink(d) \/ Cleanup(d)
      PROVE  Good'
  BY <1>3 DEF Unlink, Cleanup, Goto, serving
<1>4. ASSUME NEW d \in Daemons, AcquireLease(d)
      PROVE  Good'
  BY <1>4, NobodyAssumption DEF AcquireLease, Fails, Goto, serving
<1>5. ASSUME NEW d \in Daemons, Bind(d)
      PROVE  Good'
  BY <1>5, NobodyAssumption DEF Bind, Fails, Goto, serving
<1>6. ASSUME NEW d \in Daemons, WritePid(d)
      PROVE  Good'
  BY <1>6 DEF WritePid, Goto, ArmIdleTimer, Quiet
<1>7. ASSUME NEW d \in Daemons, IdleExit(d)
      PROVE  Good'
  BY <1>7 DEF IdleExit, Stop, Goto, files
<1>8. ASSUME NEW d \in Daemons, Respond(d)
      PROVE  Good'
  BY <1>8 DEF Respond, ArmIdleTimer, Quiet, files, process
<1>9. ASSUME NEW d \in Daemons, Drain(d)
      PROVE  Good'
  BY <1>9, NobodyAssumption DEF Drain, Drained, Disconnected, Goto
<1>10. ASSUME NEW d \in Daemons, Dies(d)
       PROVE  Good'
  BY <1>10, NobodyAssumption DEF Dies, Disconnected, Goto
<1>11. ASSUME NEW d \in Daemons, Sigterm(d)
       PROVE  Good'
  <2>1. CASE pc[d] = "serving" /\ Stop(d) /\ UNCHANGED <<files, openClients, operations>>
    BY <2>1 DEF Stop, Goto, files
  <2>2. CASE UNCHANGED <<files, pc, serving>>
    BY <2>2 DEF files, serving
  <2> QED BY <1>10, <1>11, <2>1, <2>2 DEF Sigterm
<1>12. ASSUME NEW c \in Clients, NEW d \in Daemons, Spawn(c, d)
       PROVE  Good'
  BY <1>12 DEF Spawn, Goto, files, serving
<1>13. ASSUME NEW c \in Clients, NEW d \in Daemons, Request(c, d)
       PROVE  Good'
  BY <1>13 DEF Request, ArmIdleTimer, Quiet, files, process
<1>14. ASSUME NEW c \in Clients, NEW d \in Daemons, Close(c, d)
       PROVE  Good'
  BY <1>14 DEF Close, OnClose, ArmIdleTimer, Quiet, files, process
<1>15. ASSUME NEW c \in Clients, "hello" \in Answers, Connected(c), UNCHANGED <<files, pc>>
       PROVE  Good'
  BY <1>15, HelloIsListening DEF Connected, files
<1>16. ASSUME NEW c \in Clients, UNCHANGED <<files, pc, serving>>
       PROVE  Good'
  BY <1>16 DEF files, serving
<1>17. ASSUME NEW c \in Clients,
              Connect(c) \/ Booted(c) \/ BootFails(c) \/ Retry(c) \/ Reconnect(c)
       PROVE  Good'
  BY <1>15, <1>16, <1>17 DEF Connect, Booted, BootFails, Retry, Reconnect, process
<1> QED BY <1>1, <1>2, <1>3, <1>4, <1>5, <1>6, <1>7, <1>8, <1>9, <1>10, <1>11, <1>12,
           <1>13, <1>14, <1>17 DEF Next, Crash

-----------------------------------------------------------------------------

\* The inductive invariant holds in every reachable state.
THEOREM DaemonCorrect == Spec => []DaemonInv
<1>1. Init => DaemonInv
  BY HeadroomDaemonAssumption, NobodyAssumption DEF Init, DaemonInv, TypeOK, AttemptLeft, WorkIsServed,
     LeaseGuardsStore, IdleTimerExact, Working, Listening
<1>2. DaemonInv /\ [Next]_vars => DaemonInv'
  BY TypeStep, WorkStep DEF DaemonInv
<1> QED BY <1>1, <1>2, PTL DEF Spec

\* However many daemons start, stop and crash, whoever has the store open or a
\* request under way holds the writer lease (lease.ts, shutdown).
THEOREM LeaseAlwaysGuardsStore == Spec => []LeaseGuardsStore
<1>1. DaemonInv => LeaseGuardsStore
  BY DEF DaemonInv
<1> QED BY <1>1, DaemonCorrect, PTL

\* However connections and requests come and go, the idle timer runs exactly in
\* the daemons nobody uses (armIdleTimer, disarmIdleTimer).
THEOREM IdleTimerAlwaysExact == Spec => []IdleTimerExact
<1>1. DaemonInv => IdleTimerExact
  BY DEF DaemonInv
<1> QED BY <1>1, DaemonCorrect, PTL
=============================================================================
