--------------------------- MODULE PluginRuntime ---------------------------
(***************************************************************************)
(* The runtime of the plugin (packages/plugin/src/runtime.ts): the host's  *)
(* hooks, the session states they share, and the background jobs that      *)
(* plan, persist, hydrate and enhance a session's compacted view.          *)
(*                                                                         *)
(* An action is what runs between two awaits.  The sidecar and the         *)
(* security scanner are external: each of their answers is a choice, and   *)
(* a call may fail.  The strategy is "layered", the mode "on"; a sidecar   *)
(* whose connection broke is absent until the plugin has reconnected.      *)
(*                                                                         *)
(* A history is [epoch, msgs]: the upstream compactions seen and the       *)
(* contents of the messages up to the current user's.  A plan is made for  *)
(* an epoch from a prefix of the messages, and applies to every history    *)
(* that starts with that prefix.                                           *)
(***************************************************************************)
EXTENDS Integers, Sequences, FiniteSets

CONSTANTS
    Ids,            \* session ids
    MaxSessions,    \* entries of the sessions map (64 in the code)
    Permits,        \* jobs that run at once (2)
    QueueLimit,     \* jobs queued and running (32)
    ByteLimit,      \* plans waiting in the queue, for its 8 MiB
    Summarizer,     \* options.headroom.summarizer.enabled
    PortMayDrop,    \* whether the connection to the daemon can break
    MaxStates,      \* bound: session states in use at once
    MaxGeneration,  \* bound: generations of a session state
    MaxEpoch,       \* bound: upstream compactions of a session
    MaxMessages,    \* bound: messages of a history
    MaxContent,     \* bound: edits of a message
    None            \* undefined

ASSUME IdsAssumption == Ids # {}
ASSUME PermitsAssumption == Permits \in Nat \ {0}
ASSUME LimitsAssumption == /\ MaxSessions \in Nat \ {0}
                           /\ QueueLimit \in Nat
                           /\ ByteLimit \in Nat
                           /\ {Summarizer, PortMayDrop} \subseteq BOOLEAN
ASSUME BoundsAssumption == /\ MaxStates \in Nat \ {0}
                           /\ MaxGeneration \in Nat
                           /\ MaxEpoch \in Nat
                           /\ MaxMessages \in Nat \ {0}
                           /\ MaxContent \in Nat

VARIABLES
    rt,         \* the closure's variables: sessions, state, queue, run, bytes
    polls,      \* promises of pollEnhancement, outside the permits
    connected,  \* input.headroom is there
    disposed,   \* "no", "waiting" for the tracked jobs, "closed"
    scanning,   \* per session, the history a transform is having scanned
    resuming,   \* states of hooks that will schedule after their last await
    host        \* per session, the history the host has

vars == <<rt, polls, connected, disposed, scanning, resuming, host>>

Objects == 1..MaxStates
Slots == 1..Permits
Messages == UNION {[1..n -> 0..MaxContent] : n \in 1..MaxMessages}
History == [epoch : 0..MaxEpoch, msgs : Messages]
Plan == [epoch : 0..MaxEpoch, source : Messages, enhanced : BOOLEAN]

ASSUME NoneAssumption == None \notin (0..MaxEpoch) \cup History \cup Plan

SessionState == [id : Ids, paused : BOOLEAN, hydrated : BOOLEAN,
                 hydrating : BOOLEAN, busy : BOOLEAN,
                 generation : 0..MaxGeneration + 2,
                 epoch : (0..MaxEpoch) \cup {None},
                 snapshot : History \cup {None}, view : Plan \cup {None},
                 enhancing : Plan \cup {None}]

HydrateStages == {"hydrate", "hydrateScan", "hydrateClear"}
PlanStages == {"resolve", "compress", "scan", "persist"}
Job == [at : {"idle", "leaked", "clear"} \cup HydrateStages \cup PlanStages,
        o : Objects \cup {0}, gen : 0..MaxGeneration + 2,
        raw : History \cup {None}, plan : Plan \cup {None}]
Poll == [o : Objects, base : Plan, gen : 0..MaxGeneration + 2,
         at : {"ask", "sleep", "scan", "persist"}]

NewJob(at, o, gen, raw) ==
    [at |-> at, o |-> o, gen |-> gen, raw |-> raw, plan |-> None]
Idle == NewJob("idle", 0, 0, None)
Leaked == NewJob("leaked", 0, 0, None)
ClearJob == NewJob("clear", 0, 0, None)

NewState(s) ==
    [id |-> s, paused |-> FALSE, hydrated |-> FALSE, hydrating |-> FALSE,
     busy |-> FALSE, generation |-> 0, epoch |-> None, snapshot |-> None,
     view |-> None, enhancing |-> None]

-----------------------------------------------------------------------------
(* The queue and its permits.                                              *)

Active(r) == {i \in Slots : r.run[i] # Idle}
FreeSlots(r) == Slots \ Active(r)
Lowest(S) == CHOOSE x \in S : \A y \in S : x <= y
\* A plan holds a copy of the snapshot, the other jobs hold nothing.
Cost(job) == IF job.raw = None THEN 0 ELSE 1

\* Without a port the callers return at once, which leaves what a refusal does.
Accepts(r, job) ==
    /\ disposed = "no" /\ connected
    /\ Len(r.queue) + Cardinality(Active(r)) < QueueLimit
    /\ r.bytes + Cost(job) <= ByteLimit

\* The closure of clearView is no async function: with no port it throws in
\* pump, after active++ and before anything would undo it.
Started(job) == IF job = ClearJob /\ ~connected THEN Leaked ELSE job

PumpWithoutRefund(r) ==
    IF disposed # "no" \/ FreeSlots(r) = {} \/ r.queue = << >>
    THEN r
    ELSE [r EXCEPT !.run[Lowest(FreeSlots(r))] = Started(Head(r.queue)),
                   !.queue = Tail(@)]

\* One turn of the loop of pump: WorkExact says that no second is needed.
Pump(r) ==
    IF disposed # "no" \/ FreeSlots(r) = {} \/ r.queue = << >>
    THEN r
    ELSE [r EXCEPT !.run[Lowest(FreeSlots(r))] = Started(Head(r.queue)),
                   !.queue = Tail(@),
                   !.bytes = @ - Cost(Head(r.queue))]

Enqueue(r, job) ==
    IF Accepts(r, job)
    THEN Pump([r EXCEPT !.queue = Append(@, job), !.bytes = @ + Cost(job)])
    ELSE r

Release(r, i) == Pump([r EXCEPT !.run[i] = Idle])

-----------------------------------------------------------------------------
(* The sessions map, in insertion order.                                   *)

Entries(r) == {r.sessions[k] : k \in 1..Len(r.sessions)}
Known(r, s) == \E o \in Entries(r) : r.state[o].id = s
StateOf(r, s) == CHOOSE o \in Entries(r) : r.state[o].id = s
Live(r, o) == o \in Entries(r)

\* The states some closure or entry still reaches; the others are garbage.
InUse(r) ==
    Entries(r) \cup resuming \cup {p.o : p \in polls}
    \cup {r.run[i].o : i \in Slots} \cup {r.queue[k].o : k \in 1..Len(r.queue)}
Garbage(r) == Objects \ InUse(r)

\* The map without its k-th entry.
Without(entries, k) == SubSeq(entries, 1, k - 1) \o SubSeq(entries, k + 1, Len(entries))

Evictable(r) == {k \in 1..Len(r.sessions) : ~r.state[r.sessions[k]].busy}
EvictedLate(r) ==
    IF Len(r.sessions) <= MaxSessions
    THEN r.sessions
    ELSE Without(r.sessions, Lowest(Evictable(r)))

\* When the map is full, the oldest session that is not busy has to go.
Evicted(r) ==
    IF Len(r.sessions) < MaxSessions
    THEN r.sessions
    ELSE Without(r.sessions, Lowest(Evictable(r)))

\* stateFor returns null: the map is full of busy sessions.
Refuses(r, s) ==
    ~Known(r, s) /\ Len(r.sessions) >= MaxSessions /\ Evictable(r) = {}

StateFor(r, s) ==
    IF Known(r, s)
    THEN r
    ELSE LET o == Lowest(Garbage(r))
         IN  [r EXCEPT !.sessions = Append(Evicted(r), o),
                       !.state[o] = NewState(s)]

-----------------------------------------------------------------------------
(* What the hooks and the jobs do to a session.                            *)

IsPrefix(p, q) == Len(p) <= Len(q) /\ SubSeq(q, 1, Len(p)) = p
\* materializeCompaction finds the plan's source in the history: the status is
\* "applied".  It is "already-compacted" only for messages that hold a
\* replacement message, which the host never stores: a view is applied to the
\* hook's own copy.
Applies(history, plan) == IsPrefix(plan.source, history.msgs)

CancelNothing(r, o) == r

\* An event or a hook invalidates everything planned so far.
Cancel(r, o) == [r EXCEPT !.state[o].generation = @ + 1]

ClearView(r, o) ==
    Enqueue(Cancel([r EXCEPT !.state[o].view = None], o), ClearJob)

Hydrate(r, o) ==
    LET job == NewJob("hydrate", o, r.state[o].generation, None)
    IN  IF r.state[o].hydrated \/ ~Accepts(r, job)
        THEN r
        ELSE Enqueue([r EXCEPT !.state[o].hydrated = TRUE,
                               !.state[o].hydrating = TRUE], job)

Blocked(st) == st.hydrating \/ st.paused \/ st.busy \/ st.snapshot = None
PlanJob(st, o) == NewJob("resolve", o, st.generation, st.snapshot)

ScheduleStaysBusy(r, o) ==
    LET job == PlanJob(r.state[o], o)
    IN  IF Blocked(r.state[o])
        THEN r
        ELSE Enqueue([r EXCEPT !.state[o].busy = TRUE], job)

Schedule(r, o) ==
    LET job == PlanJob(r.state[o], o)
    IN  IF Blocked(r.state[o]) \/ ~Accepts(r, job)
        THEN r
        ELSE Enqueue([r EXCEPT !.state[o].busy = TRUE], job)

\* Within the bounds on states and generations, the hook gets a state.
Handles(s) ==
    /\ ~Refuses(rt, s)
    /\ IF Known(rt, s)
       THEN rt.state[StateOf(rt, s)].generation < MaxGeneration
       ELSE Garbage(rt) # {}

\* A hook does its work on the session's state, or nothing when it has none.
Hook(s, Do(_, _)) ==
    /\ ~Refuses(rt, s) => Handles(s)
    /\ rt' = IF Refuses(rt, s) THEN rt
             ELSE LET r == StateFor(rt, s) IN Do(r, StateOf(r, s))

-----------------------------------------------------------------------------
Init ==
    /\ rt = [sessions |-> << >>,
             state |-> [o \in Objects |-> NewState(CHOOSE s \in Ids : TRUE)],
             queue |-> << >>, run |-> [i \in Slots |-> Idle], bytes |-> 0]
    /\ polls = {}
    /\ connected = TRUE
    /\ disposed = "no"
    /\ scanning = [s \in Ids |-> None]
    /\ resuming = {}
    /\ host = [s \in Ids |-> [epoch |-> 0, msgs |-> <<0>>]]

-----------------------------------------------------------------------------
(* experimental.chat.messages.transform                                    *)

\* The host hands over its messages; they are cloned and scanned.
Transform(s) ==
    /\ disposed = "no"
    /\ scanning[s] = None
    /\ scanning' = [scanning EXCEPT ![s] = host[s]]
    /\ UNCHANGED <<connected, rt, polls, disposed, resuming, host>>

\* A new upstream epoch drops the view before it can be applied.
EnterEpoch(r, o, history) ==
    LET old == r.state[o].epoch
        now == IF old # None /\ old # history.epoch THEN ClearView(r, o) ELSE r
    IN  [now EXCEPT !.state[o].epoch = history.epoch,
                    !.state[o].snapshot = history]

\* A view the messages do not start with is dropped, and so is a layered one
\* that affects a turn now among the recent ones, which the policy keeps.
CheckView(r, o, history, keeps) ==
    IF r.state[o].view # None /\ ~(keeps /\ Applies(history, r.state[o].view))
    THEN ClearView(r, o)
    ELSE r

TransformScanned(s) ==
    /\ scanning[s] # None
    /\ scanning' = [scanning EXCEPT ![s] = None]
    /\ \/ /\ Handles(s)
          /\ LET o == StateOf(StateFor(rt, s), s)
                 r == Hydrate(EnterEpoch(StateFor(rt, s), o, scanning[s]), o)
             IN  \/ /\ r.state[o].paused
                    /\ rt' = r
                    /\ UNCHANGED resuming
                 \/ /\ ~r.state[o].paused
                    /\ \E keeps \in BOOLEAN : rt' = CheckView(r, o, scanning[s], keeps)
                    /\ resuming' = resuming \cup {o}
       \/ /\ Refuses(rt, s)
          /\ UNCHANGED <<rt, resuming>>
    /\ UNCHANGED <<connected, polls, disposed, host>>

\* The last await of transform, and the one of a metadata-only event.
Resume(o) ==
    /\ o \in resuming
    /\ resuming' = resuming \ {o}
    /\ rt' = Schedule(rt, o)
    /\ UNCHANGED <<connected, polls, disposed, scanning, host>>

-----------------------------------------------------------------------------
(* Events and the other hooks.  A change of the history and its event are  *)
(* one step: the host publishes an event when it has stored the change.    *)

\* A new message is outside the snapshot: its event changes no state.
AppendMessage(s) ==
    /\ Len(host[s].msgs) < MaxMessages
    /\ host' = [host EXCEPT ![s].msgs = Append(@, 0)]
    /\ Hook(s, LAMBDA r, o : r)
    /\ UNCHANGED <<connected, polls, disposed, scanning, resuming>>

\* An edit of message k: of a source of the view, of the snapshot, of neither.
OnEdit(r, o, k) ==
    LET st == r.state[o] IN
    IF st.view # None /\ k <= Len(st.view.source)
    THEN ClearView([r EXCEPT !.state[o].snapshot = None], o)
    ELSE IF st.snapshot # None /\ k <= Len(st.snapshot.msgs)
    THEN Cancel([r EXCEPT !.state[o].snapshot = None], o)
    ELSE r

EditMessage(s, k) ==
    /\ k \in 1..Len(host[s].msgs)
    /\ host[s].msgs[k] < MaxContent
    /\ host' = [host EXCEPT ![s].msgs[k] = @ + 1]
    /\ Hook(s, LAMBDA r, o : OnEdit(r, o, k))
    /\ UNCHANGED <<connected, polls, disposed, scanning, resuming>>

\* message.updated of an invisible detail: one more scan, then a schedule.
MetadataEvent(s) ==
    /\ Known(rt, s)
    /\ rt.state[StateOf(rt, s)].snapshot # None
    /\ resuming' = resuming \cup {StateOf(rt, s)}
    /\ UNCHANGED <<connected, rt, polls, disposed, scanning, host>>

\* message.updated of a completed message outside the snapshot
MessageCompleted(s) ==
    /\ Hook(s, Schedule)
    /\ UNCHANGED <<connected, polls, disposed, scanning, resuming, host>>

\* session.compacted
Compacted(s) ==
    /\ host[s].epoch < MaxEpoch
    /\ host' = [host EXCEPT ![s].epoch = @ + 1]
    /\ Hook(s, LAMBDA r, o :
              ClearView([r EXCEPT !.state[o].paused = FALSE,
                                  !.state[o].snapshot = None], o))
    /\ UNCHANGED <<connected, polls, disposed, scanning, resuming>>

\* session.deleted
Deleted(s) ==
    /\ Hook(s, LAMBDA r, o :
              [ClearView(r, o) EXCEPT
                 !.sessions = Without(@, CHOOSE k \in 1..Len(@) : @[k] = o)])
    /\ UNCHANGED <<connected, polls, disposed, scanning, resuming, host>>

\* session.idle, or a status that became idle
SessionIdle(s) ==
    /\ Hook(s, LAMBDA r, o :
              LET awake == [r EXCEPT !.state[o].paused = FALSE]
              IN  IF disposed = "no" THEN Schedule(awake, o) ELSE awake)
    /\ UNCHANGED <<connected, polls, disposed, scanning, resuming, host>>

\* chat.params and system.transform: a model other than the last one seen
ModelChanged(s) ==
    /\ Hook(s, LAMBDA r, o : IF disposed = "no" THEN Cancel(r, o) ELSE r)
    /\ UNCHANGED <<connected, polls, disposed, scanning, resuming, host>>

\* experimental.session.compacting pauses the session, and hands upstream the
\* summary of a view that fits the snapshot.
Injects(st) ==
    /\ st.view # None
    /\ st.snapshot # None
    /\ st.view.epoch = st.epoch
    /\ Applies(st.snapshot, st.view)

Compacting(s) ==
    /\ Hook(s, LAMBDA r, o : Cancel([r EXCEPT !.state[o].paused = TRUE], o))
    /\ UNCHANGED <<connected, polls, disposed, scanning, resuming, host>>

-----------------------------------------------------------------------------
(* Jobs.                                                                   *)

\* Job i goes on to its next await; a call needs the port.
Calls == {"hydrateClear", "compress", "persist"}
Advance(i, at, plan) ==
    /\ at \in Calls => connected
    /\ rt' = [rt EXCEPT !.run[i].at = at, !.run[i].plan = plan]

\* headroom.clearView answers or fails.
ClearDone(i) ==
    /\ rt.run[i].at = "clear"
    /\ rt' = Release(rt, i)
    /\ UNCHANGED <<connected, polls, disposed, scanning, resuming, host>>

\* The catch and finally of hydrate; its permit is given back after them.
HydrateEnds(r, i, ok) ==
    LET o == r.run[i].o
        done == [r EXCEPT !.state[o].hydrated = ok, !.state[o].hydrating = FALSE]
    IN  Release(IF disposed = "no" /\ Live(r, o) /\ ok
                THEN Schedule(done, o) ELSE done, i)

\* What the daemon kept may be the plan of any history the session has had.
OlderPlans(history) ==
    {plan \in Plan :
        /\ plan.epoch <= history.epoch
        /\ Len(plan.source) <= Len(history.msgs)
        /\ \A k \in 1..Len(plan.source) : plan.source[k] <= history.msgs[k]}

\* headroom.getView answers with no view, with one that is scanned, or fails.
HydrateAnswered(i) ==
    /\ rt.run[i].at = "hydrate"
    /\ \/ \E ok \in BOOLEAN : rt' = HydrateEnds(rt, i, ok)
       \/ \E plan \in OlderPlans(host[rt.state[rt.run[i].o].id]) :
            Advance(i, "hydrateScan", plan)
    /\ UNCHANGED <<connected, polls, disposed, scanning, resuming, host>>

\* Adopt the view if nothing has happened since the request.
Adopt(r, i) ==
    LET job == r.run[i]
        st == r.state[job.o]
    IN  IF /\ disposed = "no"
           /\ st.view = None
           /\ job.gen = st.generation
           /\ job.plan.epoch = (IF st.epoch = None THEN 0 ELSE st.epoch)
        THEN [r EXCEPT !.state[job.o].view = job.plan]
        ELSE r

\* Withheld by the scan, or the scan, or clearView without a port, throws;
\* enhanced, so not provable after a restart; or adopted.
HydrateScanned(i) ==
    /\ rt.run[i].at = "hydrateScan"
    /\ \/ \E ok \in BOOLEAN : rt' = HydrateEnds(rt, i, ok)
       \/ /\ rt.run[i].plan.enhanced
          /\ Advance(i, "hydrateClear", None)
       \/ /\ ~rt.run[i].plan.enhanced
          /\ rt' = HydrateEnds(Adopt(rt, i), i, TRUE)
    /\ UNCHANGED <<connected, polls, disposed, scanning, resuming, host>>

HydrateCleared(i) ==
    /\ rt.run[i].at = "hydrateClear"
    /\ \E ok \in BOOLEAN : rt' = HydrateEnds(rt, i, ok)
    /\ UNCHANGED <<connected, polls, disposed, scanning, resuming, host>>

\* The finally of a plan.
PlanEnds(r, i) == Release([r EXCEPT !.state[r.run[i].o].busy = FALSE], i)

\* What must still hold for a plan to go on.
Current(job, st) ==
    disposed = "no" /\ ~st.paused /\ job.gen = st.generation

\* The model is resolved: no budget, below the trigger, tried before or
\* overtaken; or the projection is sent to be compressed.
PlanResolved(i) ==
    /\ rt.run[i].at = "resolve"
    /\ \/ rt' = PlanEnds(rt, i)
       \/ LET job == rt.run[i]
              st == rt.state[job.o]
          IN  /\ Current(job, st)
              /\ \E n \in 1..Len(job.raw.msgs) :
                   Advance(i, "compress",
                           [epoch |-> IF st.epoch = None THEN 0 ELSE st.epoch,
                            source |-> SubSeq(job.raw.msgs, 1, n),
                            enhanced |-> FALSE])
    /\ UNCHANGED <<connected, polls, disposed, scanning, resuming, host>>

\* The answer: failed, not compacted or overtaken; or a plan to scan.
PlanCompressed(i) ==
    /\ rt.run[i].at = "compress"
    /\ \/ rt' = PlanEnds(rt, i)
       \/ /\ Current(rt.run[i], rt.state[rt.run[i].o])
          /\ Advance(i, "scan", rt.run[i].plan)
    /\ UNCHANGED <<connected, polls, disposed, scanning, resuming, host>>

\* The plan is validated against the snapshot, or the one it was made from
\* when the snapshot has been deleted, and made durable.
PlanScanned(i) ==
    LET job == rt.run[i]
        st == rt.state[job.o]
        candidate == IF st.snapshot = None THEN job.raw ELSE st.snapshot
    IN  /\ job.at = "scan"
        /\ \/ rt' = PlanEnds(rt, i)
           \/ /\ Applies(candidate, job.plan)
              /\ Advance(i, "persist", job.plan)
        /\ UNCHANGED <<connected, polls, disposed, scanning, resuming, host>>

\* pollEnhancement: one poll for a job, which begins with a request only if
\* the first test of its loop holds; otherwise nothing is left of it.
StartsPoll(o, base) ==
    LET st == rt.state[o] IN
    /\ Summarizer
    /\ disposed = "no" /\ connected
    /\ st.enhancing # base
    /\ Live(rt, o)
    /\ st.snapshot # None
    /\ Applies(st.snapshot, base)

\* setView answers: the plan becomes the view, with or without a poll for its
\* enhancement; or it fails or was overtaken.
PlanPersisted(i) ==
    LET job == rt.run[i]
        st == rt.state[job.o]
        shown == [rt EXCEPT !.state[job.o].view = job.plan]
    IN  /\ job.at = "persist"
        /\ \/ /\ rt' = PlanEnds(rt, i)
              /\ UNCHANGED polls
           \/ /\ Current(job, st)
              /\ rt' = PlanEnds(shown, i)
              /\ UNCHANGED polls
           \/ /\ Current(job, st)
              /\ StartsPoll(job.o, job.plan)
              /\ rt' = PlanEnds([shown EXCEPT !.state[job.o].enhancing = job.plan], i)
              /\ polls' = polls \cup
                   {[o |-> job.o, base |-> job.plan, gen |-> job.gen,
                     at |-> "ask"]}
        /\ UNCHANGED <<connected, disposed, scanning, resuming, host>>

-----------------------------------------------------------------------------
(* The polls for an enhanced candidate.                                    *)

Candidate(base) == [base EXCEPT !.enhanced = TRUE]

\* The tests the poll repeats after each await.
StillWanted(p) ==
    LET st == rt.state[p.o]
    IN  disposed = "no" /\ ~st.paused /\ st.generation = p.gen /\ st.view = p.base

PollGoesOn(p, at) ==
    /\ at \in {"ask", "persist"} => connected
    /\ polls' = (polls \ {p}) \cup {[p EXCEPT !.at = at]}
    /\ UNCHANGED rt

\* The finally of the poll.
PollEnds(p, r) ==
    /\ polls' = polls \ {p}
    /\ rt' = IF r.state[p.o].enhancing = p.base
             THEN [r EXCEPT !.state[p.o].enhancing = None] ELSE r

\* getCandidate: failed or settled; queued or running; ready.
PollAnswered(p) ==
    /\ p.at = "ask"
    /\ \/ PollEnds(p, rt)
       \/ PollGoesOn(p, "sleep")
       \/ PollGoesOn(p, "scan")
    /\ UNCHANGED <<connected, disposed, scanning, resuming, host>>

\* A hundred milliseconds later; the deadline may have passed.
PollWakes(p) ==
    /\ p.at = "sleep"
    /\ \/ PollEnds(p, rt)
       \/ /\ StillWanted(p)
          /\ Live(rt, p.o)
          /\ rt.state[p.o].snapshot # None
          /\ Applies(rt.state[p.o].snapshot, p.base)
          /\ PollGoesOn(p, "ask")
    /\ UNCHANGED <<connected, disposed, scanning, resuming, host>>

\* The candidate is scanned and validated, then made durable.
PollScanned(p) ==
    /\ p.at = "scan"
    /\ \/ PollEnds(p, rt)
       \/ /\ StillWanted(p)
          /\ rt.state[p.o].snapshot # None
          /\ Applies(rt.state[p.o].snapshot, Candidate(p.base))
          /\ PollGoesOn(p, "persist")
    /\ UNCHANGED <<connected, disposed, scanning, resuming, host>>

PollPersisted(p) ==
    /\ p.at = "persist"
    /\ \/ PollEnds(p, rt)
       \/ /\ StillWanted(p)
          /\ PollEnds(p, [rt EXCEPT !.state[p.o].view = Candidate(p.base)])
    /\ UNCHANGED <<connected, disposed, scanning, resuming, host>>

-----------------------------------------------------------------------------
(* dispose                                                                 *)

Dispose ==
    /\ disposed = "no"
    /\ disposed' = "waiting"
    /\ rt' = [rt EXCEPT !.queue = << >>, !.bytes = 0,
                        !.state = [o \in Objects |->
                          IF Live(rt, o)
                          THEN [rt.state[o] EXCEPT !.generation = @ + 1]
                          ELSE rt.state[o]]]
    /\ UNCHANGED <<connected, polls, scanning, resuming, host>>

NoPermitHeld == polls = {} /\ Active(rt) = {}

\* The promises dispose found in `jobs` have settled; the ports are closed.
JobsSettled == polls = {} /\ \A i \in Slots : rt.run[i] \in {Idle, Leaked}
Close ==
    /\ disposed = "waiting"
    /\ JobsSettled
    /\ disposed' = "closed"
    /\ rt' = [rt EXCEPT !.sessions = << >>]
    /\ UNCHANGED <<connected, polls, scanning, resuming, host>>

-----------------------------------------------------------------------------
(* A call that failed with the connection takes the port away; an event    *)
(* brings a new one.                                                       *)

PortLost ==
    /\ PortMayDrop /\ connected
    /\ connected' = FALSE
    /\ UNCHANGED <<rt, polls, disposed, scanning, resuming, host>>

PortBack ==
    /\ ~connected /\ disposed = "no"
    /\ connected' = TRUE
    /\ UNCHANGED <<rt, polls, disposed, scanning, resuming, host>>

-----------------------------------------------------------------------------
HostStep(s) ==
    \/ Transform(s)
    \/ AppendMessage(s)
    \/ \E k \in 1..MaxMessages : EditMessage(s, k)
    \/ MetadataEvent(s)
    \/ MessageCompleted(s)
    \/ Compacted(s)
    \/ Deleted(s)
    \/ SessionIdle(s)
    \/ ModelChanged(s)
    \/ Compacting(s)

JobStep(i) ==
    \/ ClearDone(i)
    \/ HydrateAnswered(i)
    \/ HydrateScanned(i)
    \/ HydrateCleared(i)
    \/ PlanResolved(i)
    \/ PlanCompressed(i)
    \/ PlanScanned(i)
    \/ PlanPersisted(i)

PollStep(p) ==
    PollAnswered(p) \/ PollWakes(p) \/ PollScanned(p) \/ PollPersisted(p)

Next ==
    \/ \E s \in Ids : HostStep(s)
    \/ \E s \in Ids : TransformScanned(s)
    \/ \E o \in Objects : Resume(o)
    \/ \E i \in Slots : JobStep(i)
    \/ \E p \in polls : PollStep(p)
    \/ PortLost
    \/ PortBack
    \/ Dispose
    \/ Close

Spec == Init /\ [][Next]_vars

\* Calls of the sidecars and of the scanner settle: their clients reject them
\* after a timeout.  The continuation of a settled promise runs.
Fairness ==
    /\ \A i \in Slots : WF_vars(JobStep(i))
    /\ WF_vars(\E p \in polls : PollStep(p))
    /\ WF_vars(Close)

FairSpec == Spec /\ Fairness

-----------------------------------------------------------------------------
(* Properties.                                                             *)

\* Every variable keeps its type; in particular the sessions and the bytes of
\* the waiting plans stay within their limits.
TypeOK ==
    /\ rt.sessions \in Seq(Objects) /\ Len(rt.sessions) <= MaxSessions
    /\ rt.state \in [Objects -> SessionState]
    /\ rt.queue \in Seq(Job)
    /\ rt.run \in [Slots -> Job]
    /\ rt.bytes \in 0..ByteLimit
    /\ polls \subseteq Poll
    /\ connected \in BOOLEAN
    /\ disposed \in {"no", "waiting", "closed"}
    /\ scanning \in [Ids -> History \cup {None}]
    /\ resuming \subseteq Objects
    /\ host \in [Ids -> History]

QueuedPlans == {k \in 1..Len(rt.queue) : rt.queue[k].at = "resolve"}

\* The counters of enqueue and pump are exact however jobs end: no job waits
\* beside a free permit, the bytes are those of the plans that wait, and the
\* limit holds for what waits and runs.  Once dispose has emptied the queue
\* it stays empty, and when the ports are closed nothing is left to use them.
WorkExact ==
    /\ rt.queue # << >> => FreeSlots(rt) = {}
    /\ rt.bytes = Cardinality(QueuedPlans)
    /\ Len(rt.queue) + Cardinality(Active(rt)) <= QueueLimit
    /\ disposed # "no" => rt.queue = << >>
    /\ disposed = "closed" => JobsSettled

JobsAt(o, stages) ==
    {i \in Slots : rt.run[i].o = o /\ rt.run[i].at \in stages}
QueuedAt(o, stages) ==
    {k \in 1..Len(rt.queue) : rt.queue[k].o = o /\ rt.queue[k].at \in stages}
HasOneJob(o, stages) ==
    Cardinality(JobsAt(o, stages)) + Cardinality(QueuedAt(o, stages)) = 1
HasNoJob(o, stages) == JobsAt(o, stages) = {} /\ QueuedAt(o, stages) = {}

\* The flags that coalesce a session's work tell the truth: a busy session
\* has exactly one plan queued or running and a hydrating one exactly one
\* request for its view, also when it was evicted or deleted meanwhile.  A
\* flag left behind would block the session for good, one cleared early
\* would let two plans of one session race.
FlagsExact ==
    disposed = "no" =>
      \A o \in Objects :
        /\ IF rt.state[o].busy THEN HasOneJob(o, PlanStages)
                               ELSE HasNoJob(o, PlanStages)
        /\ IF rt.state[o].hydrating THEN HasOneJob(o, HydrateStages)
                                    ELSE HasNoJob(o, HydrateStages)

\* A view is of the upstream epoch its session is in, although plans, polls
\* and hydrations are under way while the host compacts, and nobody compares
\* epochs when a plan or a candidate becomes the view.
ViewMatchesEpoch ==
    \A o \in Objects :
      rt.state[o].view # None => rt.state[o].view.epoch = rt.state[o].epoch

\* Work ends: while no permit is lost a busy or hydrating session does not
\* stay so, and dispose() always gets to close the ports, whatever calls were
\* under way.
NoPermitLost == \A i \in Slots : rt.run[i] # Leaked
WorkEnds ==
    /\ \A o \in Objects :
         /\ rt.state[o].busy ~>
              (~rt.state[o].busy \/ disposed # "no" \/ ~NoPermitLost)
         /\ rt.state[o].hydrating ~>
              (~rt.state[o].hydrating \/ disposed # "no" \/ ~NoPermitLost)
    /\ disposed = "waiting" ~> disposed = "closed"

\* The documented promise that a lost daemon costs only the compaction until
\* the plugin has reconnected: a session busy with a plan gets free again.
BusySessionsGetFree ==
    \A o \in Objects :
      rt.state[o].busy ~> (~rt.state[o].busy \/ disposed # "no")

\* The documented promise that compacting never hands upstream a summary only
\* because an old view and an old snapshot agree with each other: whatever
\* it would inject now fits the history the host has.
NoStaleSummary ==
    \A s \in Ids :
      Known(rt, s) =>
        LET st == rt.state[StateOf(rt, s)]
        IN  Injects(st) => Applies(host[s], st.view)
=============================================================================
