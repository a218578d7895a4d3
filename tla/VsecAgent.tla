----------------------------- MODULE VsecAgent -----------------------------
(***************************************************************************)
(* The security guard of the plugin in enforce mode (plugin/src/security), *)
(* the VsecClient it asks (vsecagent/src/client.ts), and the scanner in a  *)
(* child process with its cache of decisions and its external adapters     *)
(* (vsecagent/src/engine.ts).  A tool call is evaluated before it runs and *)
(* its output is sanitized after; when the scanner cannot be asked the call*)
(* is refused and the output withheld.                                     *)
(***************************************************************************)
EXTENDS Integers, FiniteSets, SequencesExt

CONSTANTS Calls,           \* tool calls; what follows is a function of the call
          Input,           \* its arguments: equal arguments have one cache key
          Reads,           \* calls of tools that only read
          Risky, Waived,   \* inputs with a critical finding, and those with an exception for it
          Redacted,        \* the output a call with this input has, without its secrets
          FirewallDenies,  \* inputs the external firewall denies
          Adapters,        \* whether external adapters are configured
          Expires,         \* when the exception ends
          MaxTime, MaxGens,\* bounds on the clock and on spawns
          MaxPending,      \* requests in the client: maxPending, maxBytes
          Nothing          \* undefined

ASSUME GuardAssumption ==
  /\ DOMAIN Input = Calls /\ Adapters \in BOOLEAN
  /\ {Expires, MaxTime, MaxGens, MaxPending} \subseteq Nat
  /\ Nothing \notin Calls \X {"evaluate", "sanitize"}

Ops == {"evaluate", "sanitize"}
Reqs == Calls \X Ops
Inputs == Range(Input)
Never == MaxTime + 1     \* Infinity, as the expiry of a cache entry

VARIABLES now,
          call,     \* of each call: where it is, when it was asked, what it showed, and (for the
                    \* properties only) whether it ran lawfully
          reply,    \* how the promise of a request settled, until it is looked at
          client,   \* the fields of VsecClient; pump says where the pump is
          child,    \* the process of the client's generation
          lines     \* lines children have printed and the client has not read

guardVars == <<now, call, reply, client, child, lines>>

NoWork == [req |-> Nothing, expiry |-> 0, result |-> Nothing, pc |-> "idle"]
NoCache == [k \in Inputs \X Ops |-> Nothing]
\* A process that was just spawned, or none.
Fresh(g) == [gen |-> g, alive |-> g # 0, hello |-> FALSE, inbox |-> <<>>, work |-> NoWork,
             cache |-> NoCache]

\* Just after VsecClient.create.
GuardInit ==
  /\ now = 0
  /\ call = [c \in Calls |-> [pc |-> "idle", asked |-> 0, lawful |-> FALSE, shown |-> Nothing]]
  /\ reply = [r \in Reqs |-> Nothing]
  /\ client = [gen |-> 1, ready |-> TRUE, gens |-> 1, pending |-> <<>>, active |-> Nothing,
               pump |-> "off", closed |-> FALSE]
  /\ child = [Fresh(1) EXCEPT !.hello = TRUE]
  /\ lines = {}

Tick ==
  /\ now < MaxTime /\ now' = now + 1
  /\ UNCHANGED <<call, reply, client, child, lines>>

-----------------------------------------------------------------------------
(* VsecClient, as operators on its fields. *)

\* finish; the promise of the request is settled by the caller.
Finish(cl, r) ==
  [cl EXCEPT !.pending = RemoveFirst(@, r), !.active = IF @ = r THEN Nothing ELSE @]

\* finish, for everything that is pending.
FinishAll(cl) ==
  [cl EXCEPT !.pending = <<>>, !.active = IF @ \in Range(cl.pending) THEN Nothing ELSE @]

\* failGeneration: the child is killed, a startup under way is rejected, everything pending fails.
FailGeneration(cl) ==
  [FinishAll(cl) EXCEPT !.gen = 0, !.ready = FALSE,
                        !.pump = IF @ = "starting" THEN "rejected" ELSE @]

\* pump up to its first await, ensureStarted and start included.
Pump(cl) ==
  IF cl.pump # "off" \/ cl.active # Nothing \/ cl.closed \/ cl.pending = <<>> THEN cl
  ELSE IF cl.ready THEN [cl EXCEPT !.pump = "started"]
  ELSE IF cl.gens < MaxGens
         THEN [cl EXCEPT !.pump = "starting", !.gens = @ + 1, !.gen = cl.gens + 1]
         ELSE [cl EXCEPT !.pump = "rejected"]     \* the spawn throws

\* Mutant: what was queued while the pump ran is left.
FinallyStops(cl) == [cl EXCEPT !.pump = "off"]

\* The finally clause of pump.
Finally(cl) == Pump([cl EXCEPT !.pump = "off"])

\* The client's new state, with the requests that failed on the way there.
Become(cl, failed) ==
  /\ client' = cl
  /\ child' = IF cl.gen = child.gen THEN child ELSE Fresh(cl.gen)
  /\ reply' = [r \in Reqs |-> IF r \in failed THEN "unavailable" ELSE reply[r]]

\* The catch clause of pump and the timers: the generation fails, or what is pending does.
Broken(cl) ==
  IF cl.gen # 0 THEN FailGeneration(cl) ELSE FinishAll(cl)

Enqueue(r) ==
  IF client.closed \/ Len(client.pending) >= MaxPending
    THEN Become(client, {r})
    ELSE Become(Pump([client EXCEPT !.pending = Append(@, r)]), {})

\* pump after ensureStarted: send the oldest request, or go on from what happened meanwhile.
PumpResumes ==
  /\ client.pump \in {"started", "rejected"}
  /\ IF client.pump = "started" /\ client.ready /\ client.pending # <<>> /\ ~client.closed
       THEN /\ client' = [client EXCEPT !.active = Head(client.pending), !.pump = "flushing"]
            /\ child' = [child EXCEPT !.inbox = Append(@, Head(client.pending))]
            /\ UNCHANGED reply
       ELSE IF client.pump = "started" THEN Become(Finally(client), {})
       ELSE Become(Finally(Broken(client)), Range(client.pending))
  /\ UNCHANGED <<now, call, lines>>

\* flush resolves, or the pipe is broken.
Flushed(ok) ==
  /\ client.pump = "flushing"
  /\ ~ok => ~child.alive
  /\ IF ok THEN Become(Finally(client), {})
           ELSE Become(Finally(Broken(client)), Range(client.pending))
  /\ UNCHANGED <<now, call, lines>>

\* Mutant: any answer settles the request that is active.
ReceiveForActive(line) ==
  /\ lines' = lines \ {line}
  /\ IF line.gen = client.gen /\ ~client.ready
       THEN /\ client' = [client EXCEPT !.ready = TRUE, !.pump = IF @ = "starting" THEN "started" ELSE @]
            /\ UNCHANGED <<reply, child>>
     ELSE IF client.active # Nothing
       THEN /\ client' = Pump(Finish(client, client.active))
            /\ reply' = [reply EXCEPT ![client.active] = line.value]
            /\ UNCHANGED child
       ELSE UNCHANGED <<reply, client, child>>
  /\ UNCHANGED <<now, call>>

\* receive: a line of another generation, or of another request, has no effect.
Receive(line) ==
  /\ lines' = lines \ {line}
  /\ IF line.gen = client.gen /\ ~client.ready
       THEN /\ client' = [client EXCEPT !.ready = TRUE, !.pump = IF @ = "starting" THEN "started" ELSE @]
            /\ UNCHANGED <<reply, child>>
     ELSE IF line.gen = client.gen /\ line.req = client.active
       THEN /\ client' = Pump(Finish(client, line.req))
            /\ reply' = [reply EXCEPT ![line.req] = line.value]
            /\ UNCHANGED child
       ELSE UNCHANGED <<reply, client, child>>
  /\ UNCHANGED <<now, call>>

\* receive: a line that is no JSON, not of the protocol, or an answer that does not fit the
\* request (a field more or less, another policy), and a frame that is too large.
ReceiveInvalid ==
  /\ client.gen # 0
  /\ Become(FailGeneration(client), Range(client.pending))
  /\ UNCHANGED <<now, call, lines>>

\* The child's exit or the end of its output is noticed, or its startup takes too long.
GenerationFails ==
  /\ client.gen # 0 /\ (~child.alive \/ ~client.ready)
  /\ Become(FailGeneration(client), Range(client.pending))
  /\ UNCHANGED <<now, call, lines>>

\* The timer of a request fails the whole generation.
RequestTimer(r) ==
  /\ r \in Range(client.pending)
  /\ IF client.gen # 0 THEN Become(FailGeneration(client), Range(client.pending))
                       ELSE Become(Finish(client, r), {r})
  /\ UNCHANGED <<now, call, lines>>

Shutdown ==
  /\ ~client.closed
  /\ Become([Broken(client) EXCEPT !.closed = TRUE], Range(client.pending))
  /\ UNCHANGED <<now, call, lines>>

-----------------------------------------------------------------------------
(* The scanner in the child. *)

\* evaluateTool: a critical finding denies unless an exception holds now.
Local(input, t) ==
  IF input \in Risky /\ (input \in Waived => t >= Expires) THEN "deny" ELSE "allow"
\* sanitizeFields: the text without its secrets.
Result(req, t) == IF req[2] = "evaluate" THEN Local(Input[req[1]], t) ELSE Redacted[Input[req[1]]]
Key(req) == <<Input[req[1]], req[2]>>

ChildReady ==
  /\ child.alive /\ ~child.hello
  /\ child' = [child EXCEPT !.hello = TRUE]
  /\ lines' = lines \cup {[gen |-> child.gen, req |-> Nothing, value |-> "ready"]}
  /\ UNCHANGED <<now, call, reply, client>>

ChildDies ==
  /\ child.alive
  /\ child' = [child EXCEPT !.alive = FALSE, !.work = NoWork]
  /\ UNCHANGED <<now, call, reply, client, lines>>

\* The soonest end of an exception that holds now; only an input with exceptions has one.
ExpiryOf(input) == IF input \in Waived /\ now < Expires THEN Expires ELSE Never

\* BoundedCache.get: an entry that has ended is no hit, and is removed.
Hit(entry) == entry # Nothing /\ entry.expires > now

\* request: the expiry is taken before anything is awaited; the cache is looked at.
TakeRequest ==
  /\ child.alive /\ child.work.pc = "idle" /\ child.inbox # <<>>
  /\ LET req == Head(child.inbox)
         entry == child.cache[Key(req)]
         hit == Hit(entry)
     IN child' = [child EXCEPT
                    !.inbox = Tail(@),
                    !.cache[Key(req)] = IF hit THEN @ ELSE Nothing,
                    !.work = [req |-> req, expiry |-> ExpiryOf(Input[req[1]]),
                              result |-> IF hit THEN entry.value ELSE Nothing,
                              pc |-> IF hit THEN "reply" ELSE "scan"]]
  /\ UNCHANGED <<now, call, reply, client, lines>>

\* The local scanners; a parser that throws makes the result unavailable.
Scan(fails) ==
  /\ child.work.pc = "scan"
  /\ child' = [child EXCEPT
                 !.work.result = IF fails THEN "unavailable" ELSE Result(child.work.req, now),
                 !.work.pc = IF Adapters THEN "external" ELSE "store"]
  /\ UNCHANGED <<now, call, reply, client, lines>>

\* callFirewall and callRedactor: an adapter that fails, is late or answers nonsense makes the
\* result unavailable; a local result whose exception ended meanwhile is made again.
Combined(work) ==
  LET own == IF work.req[2] = "evaluate" /\ work.expiry <= now THEN Result(work.req, now)
                                                                ELSE work.result
  IN IF work.req[2] = "evaluate" /\ Input[work.req[1]] \in FirewallDenies THEN "deny" ELSE own
External(fails) ==
  /\ child.work.pc = "external"
  /\ child' = [child EXCEPT !.work.result = IF fails THEN "unavailable" ELSE Combined(child.work),
                            !.work.pc = "store"]
  /\ UNCHANGED <<now, call, reply, client, lines>>

\* Mutant: the expiry is that of the moment of storing, when the exception may have ended.
StoreLateExpiry ==
  /\ child.work.pc = "store"
  /\ child' = [child EXCEPT
                 !.cache[Key(child.work.req)] =
                   IF child.work.result # "unavailable"
                     THEN [value |-> child.work.result, expires |-> ExpiryOf(Input[child.work.req[1]])]
                     ELSE Nothing,
                 !.work.pc = "reply"]
  /\ UNCHANGED <<now, call, reply, client, lines>>

\* cache.set: nothing unavailable, and nothing that has ended by now.
Store ==
  /\ child.work.pc = "store"
  /\ child' = [child EXCEPT
                 !.cache[Key(child.work.req)] =
                   IF child.work.result # "unavailable" /\ child.work.expiry > now
                     THEN [value |-> child.work.result, expires |-> child.work.expiry] ELSE Nothing,
                 !.work.pc = "reply"]
  /\ UNCHANGED <<now, call, reply, client, lines>>

\* An audit record that cannot be written makes the answer a failure.
Reply(audited) ==
  /\ child.work.pc = "reply"
  /\ child' = [child EXCEPT !.work = NoWork]
  /\ lines' = lines \cup {[gen |-> child.gen, req |-> child.work.req,
                           value |-> IF audited THEN child.work.result ELSE "unavailable"]}
  /\ UNCHANGED <<now, call, reply, client>>

-----------------------------------------------------------------------------
(* The guard. *)

\* before, up to its answer; a call that cannot be prepared is not asked about.
Before(c, prepared) ==
  /\ call[c].pc = "idle"
  /\ call' = [call EXCEPT ![c].pc = "asking", ![c].asked = now]
  /\ IF prepared THEN Enqueue(<<c, "evaluate">>) ELSE Become(client, {<<c, "evaluate">>})
  /\ UNCHANGED <<now, lines>>

\* Whether a call was allowed at some moment since it was asked about, or is a read that
\* nobody could answer for.
Allowed(c, t) ==
  Local(Input[c], t) = "allow" /\ ~(Adapters /\ Input[c] \in FirewallDenies)
Lawful(c, verdict) ==
  \/ \E t \in call[c].asked..now : Allowed(c, t)
  \/ c \in Reads /\ verdict = "unavailable"

\* The rest of before: deny, or an unavailable answer about anything but a read, throws.
Decide(c) ==
  /\ call[c].pc = "asking" /\ reply[<<c, "evaluate">>] # Nothing
  /\ LET v == reply[<<c, "evaluate">>]
         denied == v = "deny" \/ (v = "unavailable" /\ c \notin Reads)
     IN call' = [call EXCEPT ![c].pc = IF denied THEN "blocked" ELSE "running",
                             ![c].lawful = Lawful(c, v), ![c].asked = 0]
  /\ reply' = [reply EXCEPT ![<<c, "evaluate">>] = Nothing]
  /\ UNCHANGED <<now, client, child, lines>>

\* after: the tool has run; every text of its output is sanitized or withheld.  One batch
\* stands for the batches, each of which is asked about, or withheld, by itself; a text that
\* is too large is withheld without asking.
After(c, asked) ==
  /\ call[c].pc = "running"
  /\ call' = [call EXCEPT ![c].pc = "cleaning"]
  /\ IF asked THEN Enqueue(<<c, "sanitize">>) ELSE Become(client, {<<c, "sanitize">>})
  /\ UNCHANGED <<now, lines>>

Show(c) ==
  /\ call[c].pc = "cleaning" /\ reply[<<c, "sanitize">>] # Nothing
  /\ call' = [call EXCEPT ![c].pc = "done",
                          ![c].shown = IF reply[<<c, "sanitize">>] = "unavailable"
                                         THEN "withheld" ELSE reply[<<c, "sanitize">>]]
  /\ reply' = [reply EXCEPT ![<<c, "sanitize">>] = Nothing]
  /\ UNCHANGED <<now, client, child, lines>>

-----------------------------------------------------------------------------
GuardNext ==
  \/ Tick \/ PumpResumes \/ ReceiveInvalid \/ GenerationFails \/ Shutdown
  \/ \E b \in BOOLEAN : Flushed(b) \/ Scan(b) \/ External(b) \/ Reply(b)
  \/ \E line \in lines : Receive(line)
  \/ \E r \in Reqs : RequestTimer(r)
  \/ ChildReady \/ ChildDies \/ TakeRequest \/ Store
  \/ \E c \in Calls : Decide(c) \/ Show(c) \/ \E b \in BOOLEAN : Before(c, b) \/ After(c, b)

GuardSpec == GuardInit /\ [][GuardNext]_guardVars

-----------------------------------------------------------------------------
(* Properties *)

(* A tool runs only if it was allowed at some moment between the question and
   the answer: not on the answer to another call or of a scanner that was given
   up, not on a cached decision whose exception has ended, and not, unless it
   only reads, when no answer came (before of plugin/src/security.ts). *)
FailClosed ==
  \A c \in Calls : call[c].pc \in {"running", "cleaning", "done"} => call[c].lawful

(* What a call shows is its own output, redacted, or nothing: never another
   call's output and never the unscanned text, whatever fails on the way (after
   and strings of plugin/src/security.ts). *)
ShowsOwnRedacted ==
  \A c \in Calls : call[c].pc = "done" => call[c].shown \in {"withheld", Redacted[Input[c]]}

(* A request that waits is being worked for: the pump runs, or the oldest
   request was sent to the scanner of now and can be answered.  Otherwise it
   would sit until its timer takes the generation down (pump, finish and
   failGeneration of vsecagent/src/client.ts). *)
PendingIsPumped ==
  /\ (client.pending # <<>> /\ ~client.closed) => (client.pump # "off" \/ client.active # Nothing)
  /\ client.active # Nothing =>
       /\ client.active = Head(client.pending)
       /\ client.gen = child.gen /\ client.ready
       /\ child.alive =>
            \/ client.active \in Range(child.inbox) \cup {child.work.req}
            \/ \E line \in lines : line.gen = client.gen /\ line.req = client.active
=============================================================================
