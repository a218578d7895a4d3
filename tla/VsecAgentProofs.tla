-------------------------- MODULE VsecAgentProofs --------------------------
(***************************************************************************)
(* Proofs about VsecAgent for any number of calls, spawns and pending      *)
(* requests, any exception and any adapters: a tool runs only when it was  *)
(* allowed, what a call shows is its own redacted output, and a request    *)
(* that waits is being worked for.                                         *)
(***************************************************************************)
EXTENDS VsecAgent, SequenceTheorems, WellFoundedInduction, TLAPS

Verdicts == {"allow", "deny", "unavailable"}
Values == Verdicts \cup {"ready"} \cup {Redacted[i] : i \in Inputs}

CallType == [pc : {"idle", "asking", "blocked", "running", "cleaning", "done"}, asked : Nat,
             lawful : BOOLEAN, shown : Values \cup {"withheld", Nothing}]
ClientType == [gen : Nat, ready : BOOLEAN, gens : Nat, pending : Seq(Reqs),
               active : Reqs \cup {Nothing}, closed : BOOLEAN,
               pump : {"off", "starting", "started", "rejected", "flushing"}]
WorkType == [req : Reqs, expiry : Nat, result : Values \cup {Nothing},
             pc : {"scan", "external", "store", "reply"}]
EntryType == [value : Values, expires : Nat]
ChildType == [gen : Nat, alive : BOOLEAN, hello : BOOLEAN, inbox : Seq(Reqs),
              work : WorkType \cup {NoWork},
              cache : [Inputs \X Ops -> EntryType \cup {Nothing}]]
LineType == [gen : Nat \ {0}, req : Reqs \cup {Nothing}, value : Values]

\* Where the state lies; a process that works or prints is one that was spawned.
GuardTypeOK ==
  /\ now \in Nat /\ call \in [Calls -> CallType] /\ reply \in [Reqs -> Values \cup {Nothing}]
  /\ client \in ClientType /\ child \in ChildType /\ lines \subseteq LineType
  /\ \A c \in Calls : call[c].asked <= now
  /\ child.alive => child.gen # 0
  /\ child.work # NoWork => child.alive

\* A verdict about the input that was right at some moment since the call was asked about.
AllowedSince(c) == \E t \in call[c].asked..now : Local(Input[c], t) = "allow"
Denied(input) == Adapters /\ input \in FirewallDenies
\* An allowed input is one without critical findings, or with an exception that outlasts e.
Covered(input, e) == input \in Risky => input \in Waived /\ e <= Expires

\* What may be said about a request, once everyone who has a say has spoken.
Truthful(r, v) ==
  IF r[2] = "evaluate"
    THEN v \in Verdicts /\ (v = "allow" => AllowedSince(r[1]) /\ ~Denied(Input[r[1]]))
    ELSE v \in {"unavailable", Redacted[Input[r[1]]]}

\* An entry of the cache under key k is right until it ends.
EntryTrue(k, entry) ==
  IF k[2] = "evaluate"
    THEN /\ entry.value \in {"allow", "deny"}
         /\ entry.value = "allow" => ~Denied(k[1]) /\ Covered(k[1], entry.expires)
    ELSE entry.value = Redacted[k[1]]

\* The request the scanner is at: its expiry bounds any exception that still holds, and its
\* result may be stored.
WorkTrue(w) ==
  LET i == Input[w.req[1]]
      asking == w.req[2] = "evaluate"
      allows == asking /\ w.result = "allow"
  IN /\ (w.pc # "reply" /\ i \in Waived /\ now < Expires) => w.expiry <= Expires
     /\ w.pc \in {"store", "reply"} => Truthful(w.req, w.result)
     /\ w.pc = "external" =>
          IF asking THEN w.result \in Verdicts ELSE w.result \in {"unavailable", Redacted[i]}
     /\ (w.pc = "external" /\ allows) => AllowedSince(w.req[1])
     /\ (w.pc \in {"external", "store"} /\ allows) => Covered(i, w.expiry)

Truth ==
  /\ \A r \in Reqs : reply[r] # Nothing => Truthful(r, reply[r])
  /\ \A l \in lines : l.req # Nothing => Truthful(l.req, l.value)
  /\ child.work # NoWork => WorkTrue(child.work)
  /\ \A k \in Inputs \X Ops : child.cache[k] # Nothing => EntryTrue(k, child.cache[k])

\* Nothing is in flight about a call that was not asked about.
InFlight ==
  Range(client.pending) \cup Range(child.inbox) \cup {child.work.req} \cup {l.req : l \in lines}
AskedOnce ==
  \A c \in Calls : call[c].pc = "idle" =>
    <<c, "evaluate">> \notin InFlight /\ reply[<<c, "evaluate">>] = Nothing

\* What the client's fields say about each other.
ClientOK(cl) ==
  /\ cl \in ClientType
  /\ cl.ready => cl.gen # 0
  /\ cl.pump \in {"starting", "started", "rejected"} => cl.active = Nothing
  /\ cl.active # Nothing => cl.pending # <<>> /\ cl.active = Head(cl.pending) /\ cl.ready
Pumped(cl) == (cl.pending # <<>> /\ ~cl.closed) => (cl.pump # "off" \/ cl.active # Nothing)

\* The request that was sent is with the scanner, or its answer is on the way.
AnswerComing ==
  (client.active # Nothing /\ child.alive) =>
     \/ client.active \in Range(child.inbox) \cup {child.work.req}
     \/ \E l \in lines : l.gen = client.gen /\ l.req = client.active

PumpInv == ClientOK(client) /\ Pumped(client) /\ client.gen = child.gen /\ AnswerComing

CoreInv == GuardTypeOK /\ Truth /\ AskedOnce /\ PumpInv
\* What the properties say of calls.
CallsInv == FailClosed /\ ShowsOwnRedacted
GuardInv == CoreInv /\ CallsInv

-----------------------------------------------------------------------------
(* Sequences *)

\* A set of numbers that is not empty has a least one.
LEMMA LeastNumber ==
  ASSUME NEW S, S \subseteq Nat, S # {}
  PROVE  Min(S) \in S
<1> DEFINE R == {p \in Nat \X Nat : p[1] < p[2]}
<1>1. IsWellFoundedOn(R, Nat)  BY NatLessThanWellFounded DEF OpToRel
<1>2. \A y, z \in Nat : y < z => <<y, z>> \in R  OBVIOUS
<1> HIDE DEF R
<1>3. PICK x \in S : \A y \in S : ~(<<y, x>> \in R)  BY <1>1, WFMin
<1>4. ASSUME NEW y \in S  PROVE x <= y
  <2>1. y \in Nat /\ x \in Nat  OBVIOUS
  <2>2. ~(y < x)  BY <2>1, <1>2, <1>3
  <2>3. QED  BY <2>1, <2>2
<1>5. QED  BY <1>4 DEF Min

\* RemoveFirst leaves requests that were there.
LEMMA RemoveFirstType ==
  ASSUME NEW s \in Seq(Reqs), NEW e
  PROVE  RemoveFirst(s, e) \in Seq(Reqs) /\ Range(RemoveFirst(s, e)) \subseteq Range(s)
<1>1. CASE ~\E i \in 1..Len(s) : s[i] = e  BY <1>1 DEF RemoveFirst
<1>2. CASE \E i \in 1..Len(s) : s[i] = e
  <2> DEFINE I == {i \in 1..Len(s) : s[i] = e}
             k == Min(I)
             a == SubSeq(s, 1, k - 1)
             b == SubSeq(s, k + 1, Len(s))
  <2>1. I \subseteq Nat /\ I # {}  BY <1>2
  <2>2. k \in 1..Len(s)  BY <2>1, LeastNumber
  <2>3. RemoveFirst(s, e) = a \o b  BY <1>2 DEF RemoveFirst, RemoveAt, SelectInSeq
  <2> HIDE DEF k
  <2>4. /\ a \in Seq(Reqs) /\ Len(a) = k - 1 /\ \A i \in 1..(k - 1) : a[i] = s[i]
        /\ b \in Seq(Reqs) /\ Len(b) = Len(s) - k /\ \A i \in 1..(Len(s) - k) : b[i] = s[k + i]
    BY <2>2
  <2>5. \A i \in 1..Len(a \o b) : \E j \in 1..Len(s) : (a \o b)[i] = s[j]
    <3> HIDE DEF a, b
    <3>1. SUFFICES ASSUME NEW i \in 1..Len(a \o b)  PROVE \E j \in 1..Len(s) : (a \o b)[i] = s[j]
      OBVIOUS
    <3>2. Len(a \o b) = Len(s) - 1 /\ (a \o b)[i] = IF i <= k - 1 THEN a[i] ELSE b[i - (k - 1)]
      BY <2>2, <2>4
    <3>3. CASE i <= k - 1  BY <3>2, <3>3, <2>2, <2>4
    <3>4. CASE ~(i <= k - 1)
      <4>1. i - (k - 1) \in 1..(Len(s) - k) /\ k + (i - (k - 1)) = i + 1 /\ i + 1 \in 1..Len(s)
        BY <3>2, <3>4, <2>2
      <4>2. QED  BY <4>1, <3>2, <3>4, <2>4
    <3>5. QED  BY <3>3, <3>4
  <2>6. a \o b \in Seq(Reqs)  BY <2>4
  <2>7. Range(a \o b) \subseteq Range(s)
    <3> HIDE DEF a, b
    <3>1. QED  BY <2>5, <2>6 DEF Range
  <2>8. QED  BY <2>3, <2>6, <2>7
<1>3. QED  BY <1>1, <1>2

\* What the other operators on queues do to who is in them.
LEMMA QueueFacts ==
  ASSUME NEW s \in Seq(Reqs), NEW r \in Reqs
  PROVE  /\ Append(s, r) \in Seq(Reqs) /\ Append(s, r) # <<>>
         /\ Range(Append(s, r)) = Range(s) \cup {r}
         /\ s # <<>> => Head(Append(s, r)) = Head(s)
<1>1. Append(s, r) \in Seq(Reqs) /\ Append(s, r) # <<>> /\ Len(Append(s, r)) = Len(s) + 1
      /\ (\A i \in 1..Len(s) : Append(s, r)[i] = s[i]) /\ Append(s, r)[Len(s) + 1] = r
  BY AppendProperties
<1>2. \A i \in 1..(Len(s) + 1) : i \in 1..Len(s) \/ i = Len(s) + 1  OBVIOUS
<1>3. Range(Append(s, r)) = Range(s) \cup {r}
  <2>1. DOMAIN Append(s, r) = 1..(Len(s) + 1) /\ DOMAIN s = 1..Len(s) /\ Len(s) \in Nat  BY <1>1
  <2>2. Len(s) + 1 \in 1..(Len(s) + 1) /\ 1..Len(s) \subseteq 1..(Len(s) + 1)  BY <2>1
  <2>3. QED  BY <1>1, <1>2, <2>1, <2>2, Zenon DEF Range
<1>4. QED  BY <1>1, <1>3, HeadTailAppend

\* A queue is its head and its tail.
LEMMA HeadFacts ==
  ASSUME NEW s \in Seq(Reqs), s # <<>>
  PROVE  /\ Head(s) \in Reqs /\ Head(s) \in Range(s) /\ Tail(s) \in Seq(Reqs)
         /\ Range(s) = Range(Tail(s)) \cup {Head(s)}
<1>1. Len(s) \in Nat /\ Len(s) >= 1 /\ DOMAIN s = 1..Len(s)  BY EmptySeq, LenProperties
<1>2. Head(s) = s[1] /\ Tail(s) \in Seq(Reqs) /\ Len(Tail(s)) = Len(s) - 1
      /\ (\A i \in 1..(Len(s) - 1) : Tail(s)[i] = s[i + 1]) /\ DOMAIN Tail(s) = 1..(Len(s) - 1)
  BY <1>1, HeadTailProperties
<1>3. Range(s) \subseteq Range(Tail(s)) \cup {Head(s)}
  <2>1. SUFFICES ASSUME NEW i \in 1..Len(s)  PROVE s[i] \in Range(Tail(s)) \cup {Head(s)}
    BY <1>1 DEF Range
  <2>2. CASE i = 1  BY <2>2, <1>2
  <2>3. CASE i # 1
    <3>1. i - 1 \in 1..(Len(s) - 1) /\ (i - 1) + 1 = i  BY <2>3, <1>1
    <3>2. s[i] = Tail(s)[i - 1]  BY <3>1, <1>2
    <3>3. QED  BY <3>1, <3>2, <1>2 DEF Range
  <2>4. QED  BY <2>2, <2>3
<1>4. Range(Tail(s)) \subseteq Range(s)
  <2>1. SUFFICES ASSUME NEW i \in 1..(Len(s) - 1)  PROVE Tail(s)[i] \in Range(s)
    BY <1>2 DEF Range
  <2>2. i + 1 \in 1..Len(s) /\ Tail(s)[i] = s[i + 1]  BY <1>1, <1>2
  <2>3. QED  BY <2>2, <1>1 DEF Range
<1>5. 1 \in 1..Len(s)  BY <1>1
<1>6. Head(s) \in Range(s)  BY <1>1, <1>2, <1>5 DEF Range
<1>7. Head(s) \in Reqs  BY HeadTailProperties
<1>8. QED  BY <1>2, <1>3, <1>4, <1>6, <1>7

-----------------------------------------------------------------------------
(* The client *)

\* pump leaves the client with nobody waiting for nothing.
LEMMA PumpClient ==
  ASSUME NEW cl, ClientOK(cl)
  PROVE  /\ ClientOK(Pump(cl)) /\ Pumped(Pump(cl))
         /\ Pump(cl).pending = cl.pending /\ Pump(cl).active = cl.active
         /\ (cl.active # Nothing \/ cl.ready) => Pump(cl).gen = cl.gen
<1>1. CASE cl.pump # "off" \/ cl.active # Nothing \/ cl.closed \/ cl.pending = <<>>
  BY <1>1 DEF Pump, Pumped
<1>2. CASE ~(cl.pump # "off" \/ cl.active # Nothing \/ cl.closed \/ cl.pending = <<>>) /\ cl.ready
  BY <1>2 DEF ClientOK, ClientType, Pump, Pumped
<1>3. CASE ~(cl.pump # "off" \/ cl.active # Nothing \/ cl.closed \/ cl.pending = <<>>) /\ ~cl.ready
  <2>1. cl.gens + 1 \in Nat /\ cl.gens + 1 # 0  BY DEF ClientOK, ClientType
  <2>2. CASE cl.gens < MaxGens  BY <1>3, <2>1, <2>2 DEF ClientOK, ClientType, Pump, Pumped
  <2>3. CASE ~(cl.gens < MaxGens)  BY <1>3, <2>3 DEF ClientOK, ClientType, Pump, Pumped
  <2>4. QED  BY <2>2, <2>3
<1>4. QED  BY <1>1, <1>2, <1>3

\* The finally clause of the pump keeps the client's fields consistent.
LEMMA FinallyClient ==
  ASSUME NEW cl, ClientOK(cl)
  PROVE  /\ ClientOK(Finally(cl)) /\ Pumped(Finally(cl))
         /\ Finally(cl).pending = cl.pending /\ Finally(cl).active = cl.active
         /\ cl.active # Nothing => Finally(cl).gen = cl.gen
<1> DEFINE off == [cl EXCEPT !.pump = "off"]
<1>1. ClientOK(off) /\ off.pending = cl.pending /\ off.active = cl.active /\ off.gen = cl.gen
  BY DEF ClientOK, ClientType
<1> HIDE DEF off
<1>2. Finally(cl) = Pump(off)  BY DEF Finally, off
<1>3. QED  BY <1>1, <1>2, PumpClient

\* A generation that fails takes what was pending with it.
LEMMA FailClient ==
  ASSUME NEW cl, ClientOK(cl)
  PROVE  \A new \in {FailGeneration(cl), Broken(cl)} :
           ClientOK(new) /\ Pumped(new) /\ new.pending = <<>> /\ new.active = Nothing
<1>1. cl.active # Nothing => cl.active \in Range(cl.pending)  BY HeadFacts DEF ClientOK, ClientType
<1>2. <<>> \in Seq(Reqs)  OBVIOUS
<1>3. ClientOK(FailGeneration(cl)) /\ FailGeneration(cl).pending = <<>>
      /\ FailGeneration(cl).active = Nothing
  BY <1>1, <1>2 DEF ClientOK, ClientType, FailGeneration, FinishAll
<1>4. ClientOK(FinishAll(cl)) /\ FinishAll(cl).pending = <<>> /\ FinishAll(cl).active = Nothing
  BY <1>1, <1>2 DEF ClientOK, ClientType, FinishAll
<1>5. QED  BY <1>3, <1>4 DEF Broken, Pumped

\* finish, for the active request or while none is.
LEMMA FinishClient ==
  ASSUME NEW cl, ClientOK(cl), NEW r, cl.active = Nothing \/ cl.active = r
  PROVE  /\ ClientOK(Finish(cl, r)) /\ Finish(cl, r).active = Nothing
         /\ Range(Finish(cl, r).pending) \subseteq Range(cl.pending)
<1>1. RemoveFirst(cl.pending, r) \in Seq(Reqs)
      /\ Range(RemoveFirst(cl.pending, r)) \subseteq Range(cl.pending)
  BY RemoveFirstType DEF ClientOK, ClientType
<1>2. QED  BY <1>1 DEF ClientOK, ClientType, Finish

\* So does a request more.
LEMMA AppendClient ==
  ASSUME NEW cl, ClientOK(cl), NEW r \in Reqs
  PROVE  LET new == [cl EXCEPT !.pending = Append(@, r)]
         IN /\ ClientOK(new) /\ Range(new.pending) = Range(cl.pending) \cup {r}
            /\ new.active = cl.active /\ new.gen = cl.gen
<1>1. cl.pending \in Seq(Reqs)  BY DEF ClientOK, ClientType
<1>2. QED  BY <1>1, QueueFacts DEF ClientOK, ClientType

-----------------------------------------------------------------------------
(* Steps *)

\* What every step does to the calls and the clock.
CallsGoOn ==
  /\ now' \in Nat /\ now <= now' /\ call' \in [Calls -> CallType]
  /\ \A c \in Calls :
       /\ call'[c].asked <= now'
       /\ call[c].pc # "idle" => call'[c].asked <= call[c].asked
       /\ call'[c].pc = "idle" => call[c].pc = "idle"

\* What was true of a call that was asked about stays true.
LEMMA TruthfulKept ==
  ASSUME GuardTypeOK, CallsGoOn, NEW r \in Reqs, NEW v, Truthful(r, v),
         r[2] = "evaluate" => call[r[1]].pc # "idle"
  PROVE  Truthful(r, v)'
<1>1. r[1] \in Calls  BY DEF Reqs
<1>2. \A t \in call[r[1]].asked..now : r[2] = "evaluate" => t \in call'[r[1]].asked..now'
  BY <1>1 DEF GuardTypeOK, CallsGoOn, CallType
<1>3. QED  BY <1>2 DEF Truthful, AllowedSince

\* A request of a call that was asked about keeps what the scanner knows of it.
LEMMA WorkTrueKept ==
  ASSUME GuardTypeOK, CallsGoOn, NEW w \in WorkType, WorkTrue(w),
         w.req[2] = "evaluate" => call[w.req[1]].pc # "idle"
  PROVE  WorkTrue(w)'
<1>1. w.req \in Reqs /\ w.req[1] \in Calls  BY DEF Reqs, WorkType
<1>2. \A t \in call[w.req[1]].asked..now :
         w.req[2] = "evaluate" => t \in call'[w.req[1]].asked..now'
  BY <1>1 DEF GuardTypeOK, CallsGoOn, CallType
<1>3. w.pc \in {"store", "reply"} => Truthful(w.req, w.result)'
  BY <1>1, TruthfulKept DEF WorkTrue
<1>4. now' < Expires => now < Expires  BY GuardAssumption DEF GuardTypeOK, CallsGoOn
<1>5. QED  BY <1>2, <1>3, <1>4 DEF WorkTrue, AllowedSince, Covered

\* Whoever is in flight was asked about.
LEMMA InFlightAsked ==
  ASSUME AskedOnce, NEW r \in Reqs, r \in InFlight \/ reply[r] # Nothing
  PROVE  r[2] = "evaluate" => call[r[1]].pc # "idle"
<1>1. r[1] \in Calls /\ r = <<r[1], r[2]>>  BY DEF Reqs
<1>2. QED  BY <1>1 DEF AskedOnce

\* What is said stays true while calls go on.
LEMMA TruthKept ==
  ASSUME GuardTypeOK, Truth, AskedOnce, CallsGoOn
  PROVE  /\ \A r \in Reqs, v \in Values : (v = reply[r] /\ v # Nothing) => Truthful(r, v)'
         /\ \A l \in lines : l.req # Nothing => Truthful(l.req, l.value)'
         /\ \A w \in WorkType : w = child.work => WorkTrue(w)'
<1>1. ASSUME NEW r \in Reqs, NEW v \in Values, v = reply[r], v # Nothing
      PROVE  Truthful(r, v)'
  <2>1. Truthful(r, v) /\ (r[2] = "evaluate" => call[r[1]].pc # "idle")
    BY <1>1, InFlightAsked DEF Truth
  <2>2. QED  BY <2>1, TruthfulKept
<1>2. ASSUME NEW l \in lines, l.req # Nothing  PROVE Truthful(l.req, l.value)'
  <2>1. l.req \in Reqs /\ l.req \in InFlight  BY <1>2 DEF GuardTypeOK, LineType, InFlight
  <2>2. Truthful(l.req, l.value)  BY <1>2 DEF Truth
  <2>3. l.req[2] = "evaluate" => call[l.req[1]].pc # "idle"  BY <2>1, InFlightAsked
  <2>4. QED  BY <2>1, <2>2, <2>3, TruthfulKept
<1>3. ASSUME NEW w \in WorkType, w = child.work  PROVE WorkTrue(w)'
  <2>1. w.req \in Reqs /\ w.req \in InFlight /\ w # NoWork  BY <1>3 DEF WorkType, InFlight, NoWork
  <2>2. WorkTrue(w)  BY <1>3, <2>1 DEF Truth
  <2>3. w.req[2] = "evaluate" => call[w.req[1]].pc # "idle"  BY <2>1, InFlightAsked
  <2>4. QED  BY <2>2, <2>3, WorkTrueKept
<1>4. QED  BY <1>1, <1>2, <1>3

\* A step of the client: the fields become cl, requests fail, and those in new are taken in.
LEMMA ClientStep ==
  ASSUME GuardTypeOK, Truth, AskedOnce, PumpInv, CallsGoOn, UNCHANGED lines,
         NEW cl, ClientOK(cl), Pumped(cl), NEW failed, NEW new \in SUBSET Reqs,
         Range(cl.pending) \subseteq Range(client.pending) \cup new,
         failed \subseteq Range(client.pending) \cup new,
         cl.active # Nothing => cl.active = client.active /\ cl.gen = client.gen,
         \A c \in Calls : <<c, "evaluate">> \in new => call'[c].pc # "idle",
         Become(cl, failed)
  PROVE  GuardTypeOK' /\ Truth' /\ AskedOnce' /\ PumpInv'
<1>1. client' = cl /\ (child' = child \/ child' = Fresh(cl.gen)) /\ child'.gen = cl.gen
      /\ reply' = [r \in Reqs |-> IF r \in failed THEN "unavailable" ELSE reply[r]]
  BY DEF Become, Fresh
<1>2. Fresh(cl.gen) \in ChildType
  <2>1. cl.gen \in Nat /\ <<>> \in Seq(Reqs)  BY DEF ClientOK, ClientType
  <2>2. NoCache \in [Inputs \X Ops -> EntryType \cup {Nothing}]  BY DEF NoCache
  <2>3. QED  BY <2>1, <2>2 DEF Fresh, ChildType
<1>3. GuardTypeOK'
  <2>1. reply' \in [Reqs -> Values \cup {Nothing}]  BY <1>1 DEF GuardTypeOK, Values, Verdicts
  <2>2. client' \in ClientType /\ child' \in ChildType  BY <1>1, <1>2 DEF ClientOK, GuardTypeOK
  <2>3. child'.alive => child'.gen # 0
    <3>1. Fresh(cl.gen).alive => Fresh(cl.gen).gen # 0  BY Zenon DEF Fresh
    <3>2. QED  BY <1>1, <3>1 DEF GuardTypeOK
  <2>4. child'.work # NoWork => child'.alive  BY <1>1 DEF GuardTypeOK, Fresh
  <2>5. QED  BY <2>1, <2>2, <2>3, <2>4 DEF GuardTypeOK, CallsGoOn
<1>4. Truth'
  <2>1. ASSUME NEW r \in Reqs, reply'[r] # Nothing  PROVE Truthful(r, reply[r])'
    <3>1. CASE r \in failed
      <4>1. reply'[r] = "unavailable"  BY <1>1, <3>1
      <4>2. QED  BY <4>1 DEF Truthful, Verdicts
    <3>2. CASE r \notin failed
      <4>1. reply'[r] = reply[r] /\ reply[r] \in Values  BY <1>1, <2>1, <3>2 DEF GuardTypeOK
      <4>2. PICK v \in Values : v = reply[r]  BY <4>1
      <4>3. Truthful(r, v)'  BY <2>1, <4>1, <4>2, TruthKept
      <4>4. QED  BY <4>1, <4>2, <4>3
    <3>3. QED  BY <3>1, <3>2
  <2>2. \A l \in lines' : l.req # Nothing => Truthful(l.req, l.value)'  BY TruthKept
  <2>3. child'.work # NoWork => WorkTrue(child.work)'
    <3>1. CASE child' = child
      <4>1. ASSUME child'.work # NoWork  PROVE WorkTrue(child.work)'
        <5>1. PICK w \in WorkType : w = child.work
          BY <3>1, <4>1 DEF GuardTypeOK, ChildType
        <5>2. WorkTrue(w)'  BY <5>1, TruthKept
        <5>3. QED  BY <3>1, <5>1, <5>2
      <4>2. QED  BY <4>1
    <3>2. CASE child' = Fresh(cl.gen)  BY <3>2 DEF Fresh
    <3>3. QED  BY <1>1, <3>1, <3>2
  <2>4. \A k \in Inputs \X Ops : child'.cache[k] # Nothing => EntryTrue(k, child'.cache[k])
    BY <1>1 DEF Truth, Fresh, NoCache
  <2>5. QED  BY <2>1, <2>2, <2>3, <2>4 DEF Truth, EntryTrue, Covered, Denied
<1>5. AskedOnce'
  <2>1. InFlight' \subseteq InFlight \cup new \cup {Nothing}
    <3>1. Range(Fresh(cl.gen).inbox) = {} /\ Fresh(cl.gen).work.req = Nothing
      BY DEF Fresh, NoWork, Range
    <3>2. QED  BY <1>1, <3>1 DEF InFlight
  <2>2. ASSUME NEW c \in Calls, call'[c].pc = "idle"
        PROVE  <<c, "evaluate">> \notin InFlight' /\ reply'[<<c, "evaluate">>] = Nothing
    <3>1. <<c, "evaluate">> \in Reqs /\ <<c, "evaluate">> # Nothing
      BY GuardAssumption DEF Reqs, Ops
    <3>2. <<c, "evaluate">> \notin InFlight \cup new  BY <2>2 DEF AskedOnce, CallsGoOn
    <3>3. <<c, "evaluate">> \notin failed  BY <3>2 DEF InFlight
    <3>4. reply[<<c, "evaluate">>] = Nothing  BY <2>2 DEF AskedOnce, CallsGoOn
    <3>5. QED  BY <1>1, <2>1, <3>1, <3>2, <3>3, <3>4
  <2>3. QED  BY <2>2 DEF AskedOnce
<1>6. PumpInv'
  <2>1. ClientOK(client)' /\ Pumped(client)'  BY <1>1 DEF ClientOK, Pumped
  <2>2. AnswerComing'
    <3>1. SUFFICES ASSUME cl.active # Nothing, child'.alive
                   PROVE  \/ cl.active \in Range(child'.inbox) \cup {child'.work.req}
                          \/ \E l \in lines' : l.gen = cl.gen /\ l.req = cl.active
      BY <1>1 DEF AnswerComing
    <3>2. cl.gen = child.gen  BY <3>1 DEF PumpInv
    <3>3. child' = child  BY <3>2 DEF Become
    <3>4. QED  BY <3>1, <3>3 DEF PumpInv, AnswerComing
  <2>3. QED  BY <1>1, <2>1, <2>2 DEF PumpInv
<1>7. QED  BY <1>3, <1>4, <1>5, <1>6

\* A step of the scanner: it takes, makes or prints what is true.
LEMMA ScannerStep ==
  ASSUME CoreInv, UNCHANGED <<now, call, reply, client>>,
         child' \in ChildType, child'.gen = child.gen, child'.alive => child.alive,
         child'.work # NoWork => child'.alive, lines' \subseteq LineType,
         InFlight' \subseteq InFlight \cup {Nothing},
         \A l \in lines' : l \in lines \/ l.req = Nothing \/ Truthful(l.req, l.value),
         child'.work # NoWork => WorkTrue(child'.work),
         \A k \in Inputs \X Ops : child'.cache[k] # Nothing => EntryTrue(k, child'.cache[k]),
         AnswerComing'
  PROVE  CoreInv'
<1>1. GuardTypeOK'  BY DEF CoreInv, GuardTypeOK
<1>2. Truth'
  <2>1. \A r \in Reqs : reply'[r] # Nothing => Truthful(r, reply[r])'
    BY DEF CoreInv, Truth, Truthful, AllowedSince
  <2>2. \A l \in lines' : l.req # Nothing => Truthful(l.req, l.value)'
    BY DEF CoreInv, Truth, Truthful, AllowedSince
  <2>3. child'.work # NoWork => WorkTrue(child.work)'
    BY DEF WorkTrue, Truthful, AllowedSince, Covered
  <2>4. QED  BY <2>1, <2>2, <2>3 DEF Truth, EntryTrue, Covered, Denied
<1>3. AskedOnce'
  <2>1. \A c \in Calls : <<c, "evaluate">> # Nothing  BY GuardAssumption
  <2>2. QED  BY <2>1 DEF CoreInv, AskedOnce
<1>4. PumpInv'  BY DEF CoreInv, PumpInv, ClientOK, Pumped
<1>5. QED  BY <1>1, <1>2, <1>3, <1>4 DEF CoreInv

\* A scanner that gets ready keeps the invariant.
LEMMA ChildReadyStep == CoreInv /\ ChildReady => CoreInv'
<1> SUFFICES ASSUME CoreInv, ChildReady  PROVE CoreInv'  OBVIOUS
<1> DEFINE line == [gen |-> child.gen, req |-> Nothing, value |-> "ready"]
<1>1. child' = [child EXCEPT !.hello = TRUE] /\ lines' = lines \cup {line} /\ child.alive
      /\ UNCHANGED <<now, call, reply, client>>
  BY DEF ChildReady
<1>2. child \in ChildType /\ child.gen # 0 /\ lines \subseteq LineType  BY <1>1 DEF CoreInv, GuardTypeOK
<1>3. child' \in ChildType /\ child'.gen = child.gen /\ child'.alive = child.alive
      /\ child'.inbox = child.inbox /\ child'.work = child.work /\ child'.cache = child.cache
  BY <1>1, <1>2 DEF ChildType
<1>4. lines' \subseteq LineType  BY <1>1, <1>2 DEF LineType, ChildType, Values
<1>5. InFlight' \subseteq InFlight \cup {Nothing}  BY <1>1, <1>3 DEF InFlight
<1>6. AnswerComing'  BY <1>1, <1>3 DEF CoreInv, PumpInv, AnswerComing
<1>7. QED  BY <1>1, <1>3, <1>4, <1>5, <1>6, ScannerStep DEF CoreInv, GuardTypeOK, Truth

\* A scanner that dies keeps the invariant.
LEMMA ChildDiesStep == CoreInv /\ ChildDies => CoreInv'
<1> SUFFICES ASSUME CoreInv, ChildDies  PROVE CoreInv'  OBVIOUS
<1>1. child' = [child EXCEPT !.alive = FALSE, !.work = NoWork]
      /\ UNCHANGED <<now, call, reply, client, lines>>
  BY DEF ChildDies
<1>2. child \in ChildType /\ lines \subseteq LineType  BY DEF CoreInv, GuardTypeOK
<1>3. child' \in ChildType /\ child'.gen = child.gen /\ ~child'.alive
      /\ child'.inbox = child.inbox /\ child'.work = NoWork /\ child'.cache = child.cache
  BY <1>1, <1>2 DEF ChildType
<1>4. InFlight' \subseteq InFlight \cup {Nothing}  BY <1>1, <1>3 DEF InFlight, NoWork
<1>5. AnswerComing'  BY <1>3 DEF AnswerComing
<1>6. QED  BY <1>1, <1>2, <1>3, <1>4, <1>5, ScannerStep DEF CoreInv, Truth

\* An entry of the cache that has not ended answers for its request now.
LEMMA HitTrue ==
  ASSUME GuardTypeOK, NEW req \in Reqs, NEW entry \in EntryType, EntryTrue(Key(req), entry),
         entry.expires > now, NEW expiry
  PROVE  WorkTrue([req |-> req, expiry |-> expiry, result |-> entry.value, pc |-> "reply"])
<1>1. req[1] \in Calls /\ req[2] \in Ops /\ Key(req) = <<Input[req[1]], req[2]>>  BY DEF Reqs, Key
<1>2. now \in call[req[1]].asked..now  BY <1>1 DEF GuardTypeOK, CallType
<1>3. (req[2] = "evaluate" /\ entry.value = "allow") => Local(Input[req[1]], now) = "allow"
  BY <1>1, GuardAssumption DEF EntryTrue, Covered, Local, GuardTypeOK, EntryType
<1>4. Truthful(req, entry.value)
  BY <1>1, <1>2, <1>3 DEF EntryTrue, Truthful, AllowedSince, Verdicts
<1>5. QED  BY <1>4 DEF WorkTrue

\* A scanner that takes a request keeps the invariant.
LEMMA TakeRequestStep == CoreInv /\ TakeRequest => CoreInv'
<1> SUFFICES ASSUME CoreInv, TakeRequest  PROVE CoreInv'  OBVIOUS
<1> DEFINE req == Head(child.inbox)
           entry == child.cache[Key(req)]
           hit == Hit(entry)
           work == [req |-> req, expiry |-> ExpiryOf(Input[req[1]]),
                    result |-> IF hit THEN entry.value ELSE Nothing,
                    pc |-> IF hit THEN "reply" ELSE "scan"]
           cache == [child.cache EXCEPT ![Key(req)] = IF hit THEN @ ELSE Nothing]
<1>1. /\ child.alive /\ child.work.pc = "idle" /\ child.inbox # <<>>
      /\ child' = [child EXCEPT !.inbox = Tail(@), !.cache = cache, !.work = work]
      /\ UNCHANGED <<now, call, reply, client, lines>>
  BY DEF TakeRequest
<1>2. child \in ChildType /\ lines \subseteq LineType /\ now \in Nat  BY DEF CoreInv, GuardTypeOK
<1>3. child.work = NoWork  BY <1>1, <1>2 DEF ChildType, WorkType
<1>4. /\ req \in Reqs /\ Tail(child.inbox) \in Seq(Reqs)
      /\ Range(child.inbox) = Range(Tail(child.inbox)) \cup {req}
  BY <1>1, <1>2, HeadFacts DEF ChildType
<1>5. Key(req) \in Inputs \X Ops /\ Input[req[1]] \in Inputs
  BY <1>4, GuardAssumption DEF Key, Reqs, Inputs, Range
<1>6. entry \in EntryType \cup {Nothing} /\ cache \in [Inputs \X Ops -> EntryType \cup {Nothing}]
  BY <1>2, <1>5 DEF ChildType
<1>7. work \in WorkType /\ WorkTrue(work)
  <2>1. ExpiryOf(Input[req[1]]) \in Nat  BY GuardAssumption DEF ExpiryOf, Never
  <2>2. (Input[req[1]] \in Waived /\ now < Expires) => ExpiryOf(Input[req[1]]) <= Expires
    BY GuardAssumption DEF ExpiryOf
  <2>3. CASE hit
    <3>1. entry \in EntryType /\ entry.expires > now  BY <1>6, <2>3 DEF Hit
    <3>2. EntryTrue(Key(req), entry)  BY <1>5, <2>3 DEF CoreInv, Truth, Hit
    <3>3. work = [req |-> req, expiry |-> ExpiryOf(Input[req[1]]),
                  result |-> entry.value, pc |-> "reply"]
      BY <2>3
    <3>4. WorkTrue(work)  BY <1>4, <3>1, <3>2, <3>3, HitTrue DEF CoreInv
    <3>5. QED  BY <1>4, <2>1, <3>1, <3>3, <3>4 DEF WorkType, EntryType
  <2>4. CASE ~hit
    <3>1. work = [req |-> req, expiry |-> ExpiryOf(Input[req[1]]), result |-> Nothing, pc |-> "scan"]
      BY <2>4
    <3>2. QED  BY <1>4, <2>1, <2>2, <3>1 DEF WorkType, WorkTrue
  <2>5. QED  BY <2>3, <2>4
<1>8. \A k \in Inputs \X Ops : cache[k] # Nothing => EntryTrue(k, cache[k])
  BY <1>2 DEF CoreInv, Truth, ChildType
<1> HIDE DEF req, work, cache
<1>9. child' \in ChildType /\ child'.gen = child.gen /\ child'.alive
      /\ child'.inbox = Tail(child.inbox) /\ child'.work = work /\ child'.cache = cache
  BY <1>1, <1>2, <1>4, <1>6, <1>7 DEF ChildType
<1>10. InFlight' \subseteq InFlight
  <2>1. child'.work.req = req  BY <1>9 DEF work
  <2>2. QED  BY <1>1, <1>4, <1>9, <2>1 DEF InFlight
<1>11. AnswerComing'
  <2>1. child'.work.req = req  BY <1>9 DEF work
  <2>2. client.active # child.work.req \/ client.active = Nothing  BY <1>3 DEF NoWork
  <2>3. QED  BY <1>1, <1>4, <1>9, <2>1, <2>2 DEF CoreInv, PumpInv, AnswerComing
<1>12. QED  BY <1>1, <1>2, <1>7, <1>8, <1>9, <1>10, <1>11, ScannerStep

\* The scanner goes on with its request.
LEMMA WorkStep ==
  ASSUME CoreInv, UNCHANGED <<now, call, reply, client, lines>>, child.work # NoWork,
         NEW w \in WorkType, w.req = child.work.req, WorkTrue(w),
         NEW cache \in [Inputs \X Ops -> EntryType \cup {Nothing}],
         \A k \in Inputs \X Ops : cache[k] # Nothing => EntryTrue(k, cache[k]),
         child' = [child EXCEPT !.work = w, !.cache = cache]
  PROVE  CoreInv'
<1>1. child \in ChildType /\ lines \subseteq LineType /\ child.alive  BY DEF CoreInv, GuardTypeOK
<1>2. child' \in ChildType /\ child'.gen = child.gen /\ child'.alive = child.alive
      /\ child'.inbox = child.inbox /\ child'.work = w /\ child'.cache = cache
  BY <1>1 DEF ChildType
<1>3. InFlight' \subseteq InFlight  BY <1>2 DEF InFlight
<1>4. AnswerComing'  BY <1>2 DEF CoreInv, PumpInv, AnswerComing
<1>5. QED  BY <1>1, <1>2, <1>3, <1>4, ScannerStep

\* The work under way, and what is known of it.
LEMMA WorkFacts ==
  ASSUME CoreInv, child.work.pc # "idle"
  PROVE  /\ child.work \in WorkType /\ child.work # NoWork /\ WorkTrue(child.work)
         /\ child.work.req \in Reqs /\ child.work.req[1] \in Calls /\ child.work.req[2] \in Ops
         /\ Key(child.work.req) \in Inputs \X Ops /\ Input[child.work.req[1]] \in Inputs
         /\ child.cache \in [Inputs \X Ops -> EntryType \cup {Nothing}]
         /\ child = [child EXCEPT !.work = child.work, !.cache = child.cache]
<1>1. child \in ChildType /\ child.work # NoWork  BY DEF CoreInv, GuardTypeOK, NoWork
<1>2. child.work \in WorkType  BY <1>1 DEF ChildType
<1>3. child.work.req \in Reqs /\ child.work.req[1] \in Calls /\ child.work.req[2] \in Ops
  BY <1>2 DEF WorkType, Reqs
<1>4. Input[child.work.req[1]] \in Inputs  BY <1>3, GuardAssumption DEF Inputs, Range
<1>5. QED  BY <1>1, <1>2, <1>3, <1>4 DEF CoreInv, Truth, ChildType, Key

\* A local result made now is right now, and covered by the expiry that was taken before.
LEMMA LocalTrue ==
  ASSUME CoreInv, child.work.pc \in {"scan", "external"}
  PROVE  LET w == child.work
             v == Result(w.req, now)
         IN /\ v \in Values
            /\ w.req[2] = "evaluate" =>
                 /\ v \in Verdicts
                 /\ v = "allow" => AllowedSince(w.req[1]) /\ Covered(Input[w.req[1]], w.expiry)
            /\ w.req[2] # "evaluate" => v = Redacted[Input[w.req[1]]]
<1>1. child.work \in WorkType /\ WorkTrue(child.work) /\ child.work.req[1] \in Calls
      /\ Input[child.work.req[1]] \in Inputs
  BY WorkFacts
<1>2. now \in Nat /\ now \in call[child.work.req[1]].asked..now
  BY <1>1 DEF CoreInv, GuardTypeOK, CallType
<1>3. Local(Input[child.work.req[1]], now) \in {"allow", "deny"}  BY DEF Local
<1>4. Local(Input[child.work.req[1]], now) = "allow" =>
        AllowedSince(child.work.req[1]) /\ Covered(Input[child.work.req[1]], child.work.expiry)
  <2>1. SUFFICES ASSUME Local(Input[child.work.req[1]], now) = "allow"
                 PROVE  Covered(Input[child.work.req[1]], child.work.expiry)
    BY <1>2 DEF AllowedSince
  <2>2. Input[child.work.req[1]] \in Risky => Input[child.work.req[1]] \in Waived /\ now < Expires
    BY <1>2, <2>1, GuardAssumption DEF Local
  <2>3. QED  BY <1>1, <2>2 DEF Covered, WorkTrue
<1>5. QED  BY <1>1, <1>3, <1>4 DEF Result, Values, Verdicts

\* The rules' verdict keeps the invariant.
LEMMA ScanStep == ASSUME NEW fails \in BOOLEAN  PROVE CoreInv /\ Scan(fails) => CoreInv'
<1> SUFFICES ASSUME CoreInv, Scan(fails)  PROVE CoreInv'  OBVIOUS
<1> DEFINE v == IF fails THEN "unavailable" ELSE Result(child.work.req, now)
           w == [child.work EXCEPT !.result = v, !.pc = IF Adapters THEN "external" ELSE "store"]
<1>1. child.work.pc = "scan" /\ UNCHANGED <<now, call, reply, client, lines>>
      /\ child' = [child EXCEPT !.work = w]
  BY DEF Scan
<1>2. child.work \in WorkType /\ child.work # NoWork /\ WorkTrue(child.work)
      /\ child.cache \in [Inputs \X Ops -> EntryType \cup {Nothing}]
  BY <1>1, WorkFacts
<1>3. /\ v \in Values
      /\ child.work.req[2] = "evaluate" =>
           /\ v \in Verdicts
           /\ v = "allow" => AllowedSince(child.work.req[1])
                             /\ Covered(Input[child.work.req[1]], child.work.expiry)
      /\ child.work.req[2] # "evaluate" => v \in {"unavailable", Redacted[Input[child.work.req[1]]]}
  BY <1>1, LocalTrue DEF Values, Verdicts
<1> HIDE DEF v
<1>4. w \in WorkType /\ w.req = child.work.req /\ w.expiry = child.work.expiry /\ w.result = v
      /\ w.pc = (IF Adapters THEN "external" ELSE "store")
  BY <1>2, <1>3 DEF WorkType
<1>5. WorkTrue(w)
  BY <1>1, <1>2, <1>3, <1>4, GuardAssumption DEF WorkTrue, Truthful, Denied
<1>6. child' = [child EXCEPT !.work = w, !.cache = child.cache]
  BY <1>1 DEF CoreInv, GuardTypeOK, ChildType
<1> HIDE DEF w
<1>7. QED  BY <1>1, <1>2, <1>4, <1>5, <1>6, WorkStep DEF CoreInv, Truth

\* An adapter's verdict keeps the invariant.
LEMMA ExternalStep == ASSUME NEW fails \in BOOLEAN  PROVE CoreInv /\ External(fails) => CoreInv'
<1> SUFFICES ASSUME CoreInv, External(fails)  PROVE CoreInv'  OBVIOUS
<1> DEFINE v == IF fails THEN "unavailable" ELSE Combined(child.work)
           w == [child.work EXCEPT !.result = v, !.pc = "store"]
<1>1. child.work.pc = "external" /\ UNCHANGED <<now, call, reply, client, lines>>
      /\ child' = [child EXCEPT !.work = w]
  BY DEF External
<1>2. child.work \in WorkType /\ child.work # NoWork /\ WorkTrue(child.work)
      /\ child.cache \in [Inputs \X Ops -> EntryType \cup {Nothing}]
      /\ Input[child.work.req[1]] \in Inputs
  BY <1>1, WorkFacts
<1>3. /\ child.work.req[2] = "evaluate" =>
           /\ v \in Verdicts
           /\ v = "allow" => /\ AllowedSince(child.work.req[1]) /\ ~Denied(Input[child.work.req[1]])
                             /\ Covered(Input[child.work.req[1]], child.work.expiry)
      /\ child.work.req[2] # "evaluate" => v \in {"unavailable", Redacted[Input[child.work.req[1]]]}
  BY <1>1, <1>2, LocalTrue DEF Verdicts, Combined, WorkTrue, Denied
<1>4. v \in Values  BY <1>2, <1>3 DEF Values, Verdicts
<1> HIDE DEF v
<1>5. w \in WorkType /\ w.req = child.work.req /\ w.expiry = child.work.expiry /\ w.result = v
      /\ w.pc = "store"
  BY <1>2, <1>4 DEF WorkType
<1>6. WorkTrue(w)  BY <1>1, <1>2, <1>3, <1>5 DEF WorkTrue, Truthful
<1>7. child' = [child EXCEPT !.work = w, !.cache = child.cache]
  BY <1>1 DEF CoreInv, GuardTypeOK, ChildType
<1> HIDE DEF w
<1>8. QED  BY <1>1, <1>2, <1>5, <1>6, <1>7, WorkStep DEF CoreInv, Truth

\* Storing a decision in the cache keeps the invariant.
LEMMA StoreStep == CoreInv /\ Store => CoreInv'
<1> SUFFICES ASSUME CoreInv, Store  PROVE CoreInv'  OBVIOUS
<1> DEFINE k == Key(child.work.req)
           entry == IF child.work.result # "unavailable" /\ child.work.expiry > now
                      THEN [value |-> child.work.result, expires |-> child.work.expiry] ELSE Nothing
           w == [child.work EXCEPT !.pc = "reply"]
           cache == [child.cache EXCEPT ![k] = entry]
<1>1. child.work.pc = "store" /\ UNCHANGED <<now, call, reply, client, lines>>
      /\ child' = [child EXCEPT !.work = w, !.cache = cache]
  BY DEF Store, CoreInv, GuardTypeOK, ChildType
<1>2. /\ child.work \in WorkType /\ child.work # NoWork /\ WorkTrue(child.work)
      /\ child.cache \in [Inputs \X Ops -> EntryType \cup {Nothing}] /\ k \in Inputs \X Ops
      /\ child.work.req[2] \in Ops /\ Input[child.work.req[1]] \in Inputs
      /\ k = <<Input[child.work.req[1]], child.work.req[2]>>
  BY <1>1, WorkFacts DEF Key
<1>3. Truthful(child.work.req, child.work.result)  BY <1>1, <1>2 DEF WorkTrue
<1>4. entry # Nothing => entry \in EntryType /\ EntryTrue(k, entry)
  <2>1. SUFFICES ASSUME child.work.result # "unavailable"
                 PROVE  LET e == [value |-> child.work.result, expires |-> child.work.expiry]
                        IN e \in EntryType /\ EntryTrue(k, e)
    OBVIOUS
  <2>2. child.work.result \in Values
    BY <1>2, <1>3, <2>1 DEF Truthful, Values, Verdicts
  <2>3. QED  BY <1>1, <1>2, <1>3, <2>1, <2>2 DEF EntryType, WorkType, EntryTrue, Truthful, WorkTrue, Verdicts
<1>5. w \in WorkType /\ w.req = child.work.req /\ WorkTrue(w)
  BY <1>1, <1>2, <1>3 DEF WorkType, WorkTrue
<1> HIDE DEF entry, k
<1>6. /\ cache \in [Inputs \X Ops -> EntryType \cup {Nothing}]
      /\ \A j \in Inputs \X Ops : cache[j] # Nothing => EntryTrue(j, cache[j])
  BY <1>2, <1>4 DEF CoreInv, Truth
<1> HIDE DEF w, cache
<1>7. QED  BY <1>1, <1>2, <1>5, <1>6, WorkStep

\* A reply keeps the invariant.
LEMMA ReplyStep == ASSUME NEW audited \in BOOLEAN  PROVE CoreInv /\ Reply(audited) => CoreInv'
<1> SUFFICES ASSUME CoreInv, Reply(audited)  PROVE CoreInv'  OBVIOUS
<1> DEFINE v == IF audited THEN child.work.result ELSE "unavailable"
           line == [gen |-> child.gen, req |-> child.work.req, value |-> v]
<1>1. child.work.pc = "reply" /\ UNCHANGED <<now, call, reply, client>>
      /\ child' = [child EXCEPT !.work = NoWork] /\ lines' = lines \cup {line}
  BY DEF Reply
<1>2. child.work \in WorkType /\ child.work # NoWork /\ WorkTrue(child.work)
      /\ child.work.req \in Reqs /\ Input[child.work.req[1]] \in Inputs
  BY <1>1, WorkFacts
<1>3. child \in ChildType /\ child.gen # 0 /\ lines \subseteq LineType
  BY <1>2 DEF CoreInv, GuardTypeOK
<1>4. Truthful(child.work.req, v)  BY <1>1, <1>2 DEF WorkTrue, Truthful, Verdicts
<1>5. v \in Values  BY <1>2, <1>4 DEF Truthful, Values, Verdicts
<1> HIDE DEF v
<1>6. child' \in ChildType /\ child'.gen = child.gen /\ child'.alive = child.alive
      /\ child'.inbox = child.inbox /\ child'.work = NoWork /\ child'.cache = child.cache
  BY <1>1, <1>3 DEF ChildType
<1>7. lines' \subseteq LineType  BY <1>1, <1>2, <1>3, <1>5 DEF LineType, ChildType
<1>8. InFlight' \subseteq InFlight \cup {Nothing}  BY <1>1, <1>6 DEF InFlight, NoWork
<1>9. AnswerComing'
  <2>1. client.active = child.work.req => \E l \in lines' : l.gen = client.gen /\ l.req = client.active
    <3>1. line \in lines' /\ line.gen = client.gen /\ line.req = child.work.req
      BY <1>1 DEF CoreInv, PumpInv
    <3>2. QED  BY <3>1
  <2>2. QED  BY <1>1, <1>6, <2>1 DEF CoreInv, PumpInv, AnswerComing
<1>10. \A l \in lines' : l \in lines \/ l.req = Nothing \/ Truthful(l.req, l.value)
  BY <1>1, <1>4
<1> HIDE DEF line
<1>11. QED  BY <1>1, <1>6, <1>7, <1>8, <1>9, <1>10, ScannerStep DEF CoreInv, Truth, GuardTypeOK

-----------------------------------------------------------------------------
(* Steps of the client *)

\* Calls that do not move go on.
LEMMA SameCalls ==
  ASSUME GuardTypeOK, UNCHANGED <<now, call>>
  PROVE  CallsGoOn
  BY DEF GuardTypeOK, CallsGoOn, CallType

\* pump sends the oldest request.
LEMMA SendStep ==
  ASSUME CoreInv, client.pump = "started", client.ready, client.pending # <<>>,
         client' = [client EXCEPT !.active = Head(client.pending), !.pump = "flushing"],
         child' = [child EXCEPT !.inbox = Append(@, Head(client.pending))],
         UNCHANGED <<now, call, reply, lines>>
  PROVE  CoreInv'
<1> DEFINE r == Head(client.pending)
<1>1. ClientOK(client) /\ client \in ClientType /\ child \in ChildType
  BY DEF CoreInv, PumpInv, ClientOK, GuardTypeOK
<1>2. r \in Reqs /\ r \in Range(client.pending)  BY <1>1, HeadFacts DEF ClientType
<1>3. Append(child.inbox, r) \in Seq(Reqs) /\ Range(Append(child.inbox, r)) = Range(child.inbox) \cup {r}
  BY <1>1, <1>2, QueueFacts DEF ChildType
<1>4. client' \in ClientType /\ ClientOK(client') /\ client'.active = r /\ client'.gen = client.gen
      /\ client'.pending = client.pending /\ Pumped(client')
  BY <1>1, <1>2 DEF ClientOK, ClientType, Pumped
<1>5. child' \in ChildType /\ child'.gen = child.gen /\ child'.alive = child.alive
      /\ child'.inbox = Append(child.inbox, r) /\ child'.work = child.work /\ child'.cache = child.cache
  BY <1>1, <1>3 DEF ChildType
<1>6. GuardTypeOK'  BY <1>4, <1>5 DEF CoreInv, GuardTypeOK
<1>7. Truth'
  <2>1. \A q \in Reqs : reply'[q] # Nothing => Truthful(q, reply[q])'
    BY DEF CoreInv, Truth, Truthful, AllowedSince
  <2>2. \A l \in lines' : l.req # Nothing => Truthful(l.req, l.value)'
    BY DEF CoreInv, Truth, Truthful, AllowedSince
  <2>3. child'.work # NoWork => WorkTrue(child.work)'
    <3>1. child'.work = child.work  BY <1>5
    <3>2. QED  BY <3>1 DEF CoreInv, Truth, WorkTrue, Truthful, AllowedSince, Covered
  <2>4. \A k \in Inputs \X Ops : child'.cache[k] # Nothing => EntryTrue(k, child.cache[k])'
    <3>1. child'.cache = child.cache  BY <1>5
    <3>2. QED  BY <3>1 DEF CoreInv, Truth, EntryTrue, Covered, Denied
  <2>5. QED  BY <2>1, <2>2, <2>3, <2>4 DEF Truth
<1>8. AskedOnce'
  <2>1. InFlight' = InFlight  BY <1>2, <1>3, <1>4, <1>5 DEF InFlight
  <2>2. QED  BY <2>1 DEF CoreInv, AskedOnce
<1>9. AnswerComing'  BY <1>3, <1>4, <1>5 DEF AnswerComing
<1>10. PumpInv'  BY <1>4, <1>5, <1>9 DEF CoreInv, PumpInv, ClientOK, Pumped
<1>11. QED  BY <1>6, <1>7, <1>8, <1>10 DEF CoreInv

\* A client that goes on with fewer requests keeps the invariant.
LEMMA BecomeStep ==
  ASSUME CoreInv, UNCHANGED <<now, call, lines>>,
         NEW cl, ClientOK(cl), Pumped(cl), NEW failed,
         Range(cl.pending) \subseteq Range(client.pending), failed \subseteq Range(client.pending),
         cl.active # Nothing => cl.active = client.active /\ cl.gen = client.gen,
         Become(cl, failed)
  PROVE  CoreInv'
<1>1. CallsGoOn  BY SameCalls DEF CoreInv
<1>2. {} \in SUBSET Reqs  OBVIOUS
<1>3. QED  BY <1>1, <1>2, ClientStep DEF CoreInv

\* An empty queue has no members.
LEMMA EmptyRange == Range(<<>>) = {}
  BY DEF Range

\* The ways in which a generation fails.
LEMMA FailStep ==
  ASSUME CoreInv, UNCHANGED <<now, call, lines>>,
         NEW cl, cl \in {FailGeneration(client), Broken(client)},
         Become(cl, Range(client.pending)) \/ Become(Finally(cl), Range(client.pending))
  PROVE  CoreInv'
<1>1. ClientOK(cl) /\ Pumped(cl) /\ cl.pending = <<>> /\ cl.active = Nothing
  BY FailClient DEF CoreInv, PumpInv
<1>2. ClientOK(Finally(cl)) /\ Pumped(Finally(cl)) /\ Finally(cl).pending = <<>>
      /\ Finally(cl).active = Nothing
  BY <1>1, FinallyClient
<1>3. QED  BY <1>1, <1>2, EmptyRange, BecomeStep

\* The pump going on keeps the invariant.
LEMMA PumpResumesStep == CoreInv /\ PumpResumes => CoreInv'
<1> SUFFICES ASSUME CoreInv, PumpResumes  PROVE CoreInv'  OBVIOUS
<1>1. UNCHANGED <<now, call, lines>> /\ ClientOK(client)  BY DEF PumpResumes, CoreInv, PumpInv
<1>2. CASE client.pump = "started" /\ client.ready /\ client.pending # <<>> /\ ~client.closed
  BY <1>1, <1>2, SendStep DEF PumpResumes
<1>3. CASE Become(Finally(client), {})
  BY <1>1, <1>3, FinallyClient, BecomeStep
<1>4. CASE Become(Finally(Broken(client)), Range(client.pending))
  BY <1>1, <1>4, FailStep
<1>5. QED  BY <1>2, <1>3, <1>4 DEF PumpResumes

\* The end of a write keeps the invariant.
LEMMA FlushedStep == ASSUME NEW ok \in BOOLEAN  PROVE CoreInv /\ Flushed(ok) => CoreInv'
<1> SUFFICES ASSUME CoreInv, Flushed(ok)  PROVE CoreInv'  OBVIOUS
<1>1. UNCHANGED <<now, call, lines>> /\ ClientOK(client)  BY DEF Flushed, CoreInv, PumpInv
<1>2. CASE Become(Finally(client), {})
  BY <1>1, <1>2, FinallyClient, BecomeStep
<1>3. CASE Become(Finally(Broken(client)), Range(client.pending))
  BY <1>1, <1>3, FailStep
<1>4. QED  BY <1>2, <1>3 DEF Flushed

\* Giving up a scanner keeps the invariant.
LEMMA GenerationFailsStep == CoreInv /\ GenerationFails => CoreInv'
<1> SUFFICES ASSUME CoreInv, GenerationFails  PROVE CoreInv'  OBVIOUS
<1>1. QED  BY FailStep DEF GenerationFails

\* Giving up a scanner that breaks the protocol keeps the invariant.
LEMMA ReceiveInvalidStep == CoreInv /\ ReceiveInvalid => CoreInv'
<1> SUFFICES ASSUME CoreInv, ReceiveInvalid  PROVE CoreInv'  OBVIOUS
<1>1. QED  BY FailStep DEF ReceiveInvalid

\* Closing the client keeps the invariant.
LEMMA ShutdownStep == CoreInv /\ Shutdown => CoreInv'
<1> SUFFICES ASSUME CoreInv, Shutdown  PROVE CoreInv'  OBVIOUS
<1> DEFINE cl == [Broken(client) EXCEPT !.closed = TRUE]
<1>1. ClientOK(Broken(client)) /\ Broken(client).pending = <<>> /\ Broken(client).active = Nothing
  BY FailClient DEF CoreInv, PumpInv
<1>2. ClientOK(cl) /\ Pumped(cl) /\ cl.pending = <<>> /\ cl.active = Nothing
  BY <1>1 DEF ClientOK, ClientType, Pumped
<1>3. Become(cl, Range(client.pending)) /\ UNCHANGED <<now, call, lines>>  BY DEF Shutdown
<1> HIDE DEF cl
<1>4. QED  BY <1>2, <1>3, EmptyRange, BecomeStep

\* A request whose time is up keeps the invariant.
LEMMA RequestTimerStep == ASSUME NEW r \in Reqs  PROVE CoreInv /\ RequestTimer(r) => CoreInv'
<1> SUFFICES ASSUME CoreInv, RequestTimer(r)  PROVE CoreInv'  OBVIOUS
<1>1. r \in Range(client.pending) /\ UNCHANGED <<now, call, lines>>  BY DEF RequestTimer
<1>2. CASE client.gen # 0  BY <1>1, <1>2, FailStep DEF RequestTimer
<1>3. CASE client.gen = 0
  <2>1. ClientOK(client) /\ Pumped(client) /\ client.active = Nothing /\ client.pending # <<>>
    BY <1>1, <1>3, EmptyRange DEF CoreInv, PumpInv, ClientOK
  <2>2. /\ ClientOK(Finish(client, r)) /\ Pumped(Finish(client, r))
        /\ Finish(client, r).active = Nothing
        /\ Range(Finish(client, r).pending) \subseteq Range(client.pending)
    <3>1. client.active = Nothing \/ client.active = r  BY <2>1
    <3>2. /\ ClientOK(Finish(client, r)) /\ Finish(client, r).active = Nothing
          /\ Range(Finish(client, r).pending) \subseteq Range(client.pending)
      BY <2>1, <3>1, FinishClient
    <3>3. Finish(client, r).closed = client.closed /\ Finish(client, r).pump = client.pump
      BY <2>1 DEF Finish, ClientOK, ClientType
    <3>4. Pumped(Finish(client, r))  BY <2>1, <3>2, <3>3 DEF Pumped
    <3>5. QED  BY <3>2, <3>4
  <2>3. Become(Finish(client, r), {r})  BY <1>3 DEF RequestTimer
  <2>4. QED  BY <1>1, <2>2, <2>3, BecomeStep
<1>4. QED  BY <1>2, <1>3

\* A line is read: the client becomes cl, and the request of the line may be settled by it.
LEMMA ReadStep ==
  ASSUME CoreInv, NEW line \in lines, lines' = lines \ {line}, UNCHANGED <<now, call, child>>,
         NEW cl, client' = cl, ClientOK(cl), Pumped(cl), cl.gen = client.gen,
         Range(cl.pending) \subseteq Range(client.pending),
         cl.active # Nothing => /\ cl.active = client.active
                                /\ ~(line.gen = client.gen /\ line.req = client.active),
         reply' \in [Reqs -> Values \cup {Nothing}],
         \A r \in Reqs : reply'[r] = reply[r] \/ (r = line.req /\ reply'[r] = line.value)
  PROVE  CoreInv'
<1>1. CallsGoOn  BY SameCalls DEF CoreInv
<1>2. GuardTypeOK'  BY DEF CoreInv, GuardTypeOK, ClientOK
<1>3. Truth'
  <2>1. ASSUME NEW r \in Reqs, reply'[r] # Nothing  PROVE Truthful(r, reply'[r])
    <3>1. r # Nothing  BY GuardAssumption DEF Reqs, Ops
    <3>2. QED  BY <2>1, <3>1 DEF CoreInv, Truth
  <2>2. QED
    BY <2>1 DEF CoreInv, Truth, Truthful, WorkTrue, EntryTrue, AllowedSince, Covered
<1>4. AskedOnce'
  <2>1. InFlight' \subseteq InFlight  BY DEF InFlight
  <2>2. line.req \in InFlight  BY DEF InFlight
  <2>3. \A c \in Calls : <<c, "evaluate">> \in Reqs  BY DEF Reqs, Ops
  <2>4. QED  BY <2>1, <2>2, <2>3 DEF CoreInv, AskedOnce
<1>5. AnswerComing'  BY DEF CoreInv, PumpInv, AnswerComing
<1>6. PumpInv'  BY <1>5 DEF CoreInv, PumpInv, ClientOK, Pumped
<1>7. QED  BY <1>2, <1>3, <1>4, <1>6 DEF CoreInv

\* A line that is read, late ones too, keeps the invariant.
LEMMA ReceiveStep ==
  ASSUME CoreInv, NEW line \in lines, Receive(line)  PROVE CoreInv'
<1>1. lines' = lines \ {line} /\ UNCHANGED <<now, call>>  BY DEF Receive
<1>2. /\ ClientOK(client) /\ Pumped(client) /\ line \in LineType /\ client \in ClientType
      /\ reply \in [Reqs -> Values \cup {Nothing}]
  BY DEF CoreInv, PumpInv, GuardTypeOK
<1>3. CASE line.gen = client.gen /\ ~client.ready
  <2> DEFINE cl == [client EXCEPT !.ready = TRUE, !.pump = IF @ = "starting" THEN "started" ELSE @]
  <2>1. client' = cl /\ UNCHANGED <<reply, child>>  BY <1>3 DEF Receive
  <2>2. client.active = Nothing /\ client.gen # 0  BY <1>2, <1>3 DEF ClientOK, LineType
  <2>3. ClientOK(cl) /\ Pumped(cl) /\ cl.gen = client.gen /\ cl.pending = client.pending
        /\ cl.active = Nothing
    BY <1>2, <2>2 DEF ClientOK, ClientType, Pumped
  <2> HIDE DEF cl
  <2>4. QED  BY <1>1, <1>2, <2>1, <2>3, ReadStep
<1>4. CASE ~(line.gen = client.gen /\ ~client.ready) /\ line.gen = client.gen /\ line.req = client.active
  <2> DEFINE done == Finish(client, line.req)
             cl == Pump(done)
  <2>1. client' = cl /\ reply' = [reply EXCEPT ![line.req] = line.value] /\ UNCHANGED child
    BY <1>4 DEF Receive
  <2>2. client.active = line.req /\ client.ready  BY <1>2, <1>4 DEF ClientType
  <2>3. ClientOK(done) /\ done.active = Nothing /\ Range(done.pending) \subseteq Range(client.pending)
    BY <1>2, <2>2, FinishClient
  <2>4. done.ready /\ done.gen = client.gen  BY <1>2, <2>2 DEF Finish, ClientType
  <2> HIDE DEF done
  <2>5. ClientOK(cl) /\ Pumped(cl) /\ cl.active = Nothing /\ cl.gen = client.gen
        /\ Range(cl.pending) \subseteq Range(client.pending)
    BY <2>3, <2>4, PumpClient
  <2> HIDE DEF cl
  <2>6. reply' \in [Reqs -> Values \cup {Nothing}]
        /\ \A r \in Reqs : reply'[r] = reply[r] \/ (r = line.req /\ reply'[r] = line.value)
    BY <1>2, <2>1 DEF LineType
  <2>7. QED  BY <1>1, <2>1, <2>5, <2>6, ReadStep
<1>5. CASE ~(line.gen = client.gen /\ ~client.ready) /\ ~(line.gen = client.gen /\ line.req = client.active)
  <2>1. UNCHANGED <<reply, client, child>>  BY <1>5 DEF Receive
  <2>2. QED  BY <1>1, <1>2, <1>5, <2>1, ReadStep
<1>6. QED  BY <1>3, <1>4, <1>5

-----------------------------------------------------------------------------
(* Steps of the guard *)

\* Time passing keeps the invariant.
LEMMA TickStep == CoreInv /\ Tick => CoreInv'
<1> SUFFICES ASSUME CoreInv, Tick  PROVE CoreInv'  OBVIOUS
<1>1. now' = now + 1 /\ now \in Nat /\ UNCHANGED <<call, reply, client, child, lines>>
  BY DEF Tick, CoreInv, GuardTypeOK
<1>2. CallsGoOn  BY <1>1 DEF CoreInv, GuardTypeOK, CallsGoOn, CallType
<1>3. GuardTypeOK'  BY <1>1, <1>2 DEF CoreInv, GuardTypeOK, CallsGoOn
<1>4. Truth'
  <2>1. ASSUME NEW r \in Reqs, reply[r] # Nothing  PROVE Truthful(r, reply[r])'
    <3>1. PICK v \in Values : v = reply[r]  BY <2>1 DEF CoreInv, GuardTypeOK
    <3>2. Truthful(r, v)'  BY <1>2, <2>1, <3>1, TruthKept DEF CoreInv
    <3>3. QED  BY <1>1, <3>1, <3>2
  <2>2. \A l \in lines : l.req # Nothing => Truthful(l.req, l.value)'
    BY <1>2, TruthKept DEF CoreInv
  <2>3. ASSUME child.work # NoWork  PROVE WorkTrue(child.work)'
    <3>1. PICK w \in WorkType : w = child.work  BY <2>3 DEF CoreInv, GuardTypeOK, ChildType
    <3>2. WorkTrue(w)'  BY <1>2, <3>1, TruthKept DEF CoreInv
    <3>3. QED  BY <1>1, <3>1, <3>2
  <2>4. QED  BY <1>1, <2>1, <2>2, <2>3 DEF CoreInv, Truth, EntryTrue, Covered, Denied
<1>5. AskedOnce'  BY <1>1 DEF CoreInv, AskedOnce, InFlight
<1>6. PumpInv'  BY <1>1 DEF CoreInv, PumpInv, ClientOK, Pumped, AnswerComing
<1>7. QED  BY <1>3, <1>4, <1>5, <1>6 DEF CoreInv

\* A call looks at its answer.
LEMMA LookStep ==
  ASSUME CoreInv, CallsGoOn, UNCHANGED <<now, client, child, lines>>,
         reply' \in [Reqs -> Values \cup {Nothing}],
         \A r \in Reqs : reply'[r] \in {reply[r], Nothing}
  PROVE  CoreInv'
<1>1. GuardTypeOK'  BY DEF CoreInv, GuardTypeOK, CallsGoOn
<1>2. Truth'
  <2>1. ASSUME NEW r \in Reqs, reply'[r] # Nothing  PROVE Truthful(r, reply[r])'
    <3>1. PICK v \in Values : v = reply[r] /\ v = reply'[r]
      BY <2>1 DEF CoreInv, GuardTypeOK
    <3>2. Truthful(r, v)'  BY <2>1, <3>1, TruthKept DEF CoreInv
    <3>3. QED  BY <3>1, <3>2
  <2>2. \A l \in lines : l.req # Nothing => Truthful(l.req, l.value)'  BY TruthKept DEF CoreInv
  <2>3. ASSUME child.work # NoWork  PROVE WorkTrue(child.work)'
    <3>1. PICK w \in WorkType : w = child.work  BY <2>3 DEF CoreInv, GuardTypeOK, ChildType
    <3>2. WorkTrue(w)'  BY <3>1, TruthKept DEF CoreInv
    <3>3. QED  BY <3>1, <3>2
  <2>4. QED  BY <2>1, <2>2, <2>3 DEF CoreInv, Truth, EntryTrue, Covered, Denied
<1>3. AskedOnce'
  <2>1. InFlight' = InFlight  BY DEF InFlight
  <2>2. \A c \in Calls : <<c, "evaluate">> \in Reqs  BY DEF Reqs, Ops
  <2>3. QED  BY <2>1, <2>2 DEF CoreInv, AskedOnce, CallsGoOn
<1>4. PumpInv'  BY DEF CoreInv, PumpInv, ClientOK, Pumped, AnswerComing
<1>5. QED  BY <1>1, <1>2, <1>3, <1>4 DEF CoreInv

\* The decision about a call keeps the invariants.
LEMMA DecideStep ==
  ASSUME CoreInv, CallsInv, NEW c \in Calls, Decide(c)
  PROVE  CoreInv' /\ CallsInv'
<1> DEFINE r == <<c, "evaluate">>
           v == reply[r]
           denied == v = "deny" \/ (v = "unavailable" /\ c \notin Reads)
<1>1. /\ call[c].pc = "asking" /\ v # Nothing /\ UNCHANGED <<now, client, child, lines>>
      /\ call' = [call EXCEPT ![c].pc = IF denied THEN "blocked" ELSE "running",
                              ![c].lawful = Lawful(c, v), ![c].asked = 0]
      /\ reply' = [reply EXCEPT ![r] = Nothing]
  BY DEF Decide
<1>2. r \in Reqs /\ r[1] = c /\ r[2] = "evaluate"  BY DEF Reqs, Ops
<1>3. call \in [Calls -> CallType] /\ now \in Nat /\ reply \in [Reqs -> Values \cup {Nothing}]
  BY DEF CoreInv, GuardTypeOK
<1>4. Truthful(r, v)  BY <1>1, <1>2 DEF CoreInv, Truth
<1>5. ~denied => Lawful(c, v)
  BY <1>2, <1>4 DEF Truthful, Verdicts, Lawful, Allowed, AllowedSince, Denied
<1>6. Lawful(c, v) \in BOOLEAN  BY DEF Lawful
<1> HIDE DEF v
<1>7. CallsGoOn /\ CallsInv'
  <2>1. call'[c] = [call[c] EXCEPT !.pc = IF denied THEN "blocked" ELSE "running",
                                   !.lawful = Lawful(c, v), !.asked = 0]
        /\ \A d \in Calls : d # c => call'[d] = call[d]
    BY <1>1, <1>3
  <2>2. /\ call'[c].pc \in {"blocked", "running"} /\ (call'[c].pc = "running" => ~denied)
        /\ call'[c].asked = 0 /\ (Lawful(c, v) => call'[c].lawful) /\ call'[c] \in CallType
    <3>1. PICK x \in CallType : x = call[c]  BY <1>3
    <3>2. PICK p \in {"blocked", "running"} : p = (IF denied THEN "blocked" ELSE "running")
      OBVIOUS
    <3>3. CASE Lawful(c, v)
      <4>1. Lawful(c, v) = TRUE  BY <1>6, <3>3
      <4> DEFINE y == [x EXCEPT !.pc = p, !.lawful = TRUE, !.asked = 0]
      <4>2. call'[c] = y  BY <2>1, <3>1, <3>2, <4>1
      <4>3. y \in CallType /\ y.pc = p /\ y.asked = 0 /\ y.lawful = TRUE  BY DEF CallType
      <4> HIDE DEF y
      <4>4. QED  BY <3>2, <4>2, <3>3, <4>3
    <3>4. CASE ~Lawful(c, v)
      <4>1. Lawful(c, v) = FALSE  BY <1>6, <3>4
      <4> DEFINE y == [x EXCEPT !.pc = p, !.lawful = FALSE, !.asked = 0]
      <4>2. call'[c] = y  BY <2>1, <3>1, <3>2, <4>1
      <4>3. y \in CallType /\ y.pc = p /\ y.asked = 0 /\ y.lawful = FALSE  BY DEF CallType
      <4> HIDE DEF y
      <4>4. QED  BY <3>2, <4>2, <3>4, <4>3
    <3>5. QED  BY <3>3, <3>4
  <2>3. call' \in [Calls -> CallType]  BY <1>1, <1>3, <2>1, <2>2
  <2>4. CallsGoOn
    <3>1. now' = now /\ now \in Nat /\ \A d \in Calls : call[d].asked \in Nat /\ call[d].asked <= now
      BY <1>1 DEF CoreInv, GuardTypeOK, CallType
    <3>2. ASSUME NEW d \in Calls
          PROVE  /\ call'[d].asked <= now' /\ (call[d].pc # "idle" => call'[d].asked <= call[d].asked)
                 /\ (call'[d].pc = "idle" => call[d].pc = "idle")
      <4>1. CASE d = c  BY <2>2, <3>1, <4>1
      <4>2. CASE d # c  BY <2>1, <3>1, <4>2
      <4>3. QED  BY <4>1, <4>2
    <3>3. QED  BY <2>3, <3>1, <3>2 DEF CallsGoOn
  <2>5. CallsInv'  BY <1>5, <2>1, <2>2 DEF CallsInv, FailClosed, ShowsOwnRedacted
  <2>6. QED  BY <2>4, <2>5
<1>8. QED  BY <1>1, <1>2, <1>3, <1>7, LookStep

\* A request of a call that goes on is refused or taken in.
LEMMA EnqueueStep ==
  ASSUME CoreInv, CallsGoOn, UNCHANGED lines, NEW r \in Reqs,
         r[2] = "evaluate" => call'[r[1]].pc # "idle",
         Enqueue(r) \/ Become(client, {r})
  PROVE  CoreInv'
<1>1. ClientOK(client) /\ Pumped(client) /\ {r} \in SUBSET Reqs  BY DEF CoreInv, PumpInv
<1>2. \A c \in Calls : <<c, "evaluate">> \in {r} => call'[c].pc # "idle"  OBVIOUS
<1>3. CASE Become(client, {r})  BY <1>1, <1>2, <1>3, ClientStep DEF CoreInv
<1>4. CASE Become(Pump([client EXCEPT !.pending = Append(@, r)]), {})
  <2> DEFINE new == [client EXCEPT !.pending = Append(@, r)]
  <2>1. ClientOK(new) /\ Range(new.pending) = Range(client.pending) \cup {r}
        /\ new.active = client.active /\ new.gen = client.gen
    BY <1>1, AppendClient
  <2>2. Become(Pump(new), {})  BY <1>4
  <2> HIDE DEF new
  <2>3. /\ ClientOK(Pump(new)) /\ Pumped(Pump(new))
        /\ Range(Pump(new).pending) = Range(client.pending) \cup {r}
        /\ Pump(new).active = client.active /\ (client.active # Nothing => Pump(new).gen = client.gen)
    BY <2>1, PumpClient
  <2>4. QED  BY <1>1, <1>2, <2>2, <2>3, ClientStep DEF CoreInv
<1>5. QED  BY <1>3, <1>4 DEF Enqueue

\* The hook before a call keeps the invariants.
LEMMA BeforeStep ==
  ASSUME CoreInv, CallsInv, NEW c \in Calls, NEW prepared \in BOOLEAN, Before(c, prepared)
  PROVE  CoreInv' /\ CallsInv'
<1>1. /\ call[c].pc = "idle" /\ UNCHANGED <<now, lines>>
      /\ call' = [call EXCEPT ![c].pc = "asking", ![c].asked = now]
      /\ Enqueue(<<c, "evaluate">>) \/ Become(client, {<<c, "evaluate">>})
  BY DEF Before
<1>2. call \in [Calls -> CallType] /\ now \in Nat /\ \A d \in Calls : call[d].asked <= now
  BY DEF CoreInv, GuardTypeOK
<1> DEFINE y == [call[c] EXCEPT !.pc = "asking", !.asked = now]
<1>3. call' \in [Calls -> CallType] /\ call'[c] = y /\ \A d \in Calls : d # c => call'[d] = call[d]
  <2>1. y \in CallType  BY <1>2 DEF CallType
  <2>2. call' = [call EXCEPT ![c] = y]  BY <1>1
  <2> HIDE DEF y
  <2>3. QED  BY <1>2, <2>1, <2>2
<1>4. y.pc = "asking" /\ y.asked = now  BY <1>2 DEF CallType
<1> HIDE DEF y
<1>5. CallsGoOn  BY <1>1, <1>2, <1>3, <1>4 DEF CallsGoOn, CallType
<1>6. CallsInv'  BY <1>3, <1>4 DEF CallsInv, FailClosed, ShowsOwnRedacted
<1>7. <<c, "evaluate">> \in Reqs /\ call'[c].pc # "idle"  BY <1>3, <1>4 DEF Reqs, Ops
<1>8. QED  BY <1>1, <1>5, <1>6, <1>7, EnqueueStep

\* The hook after a call keeps the invariants.
LEMMA AfterStep ==
  ASSUME CoreInv, CallsInv, NEW c \in Calls, NEW asked \in BOOLEAN, After(c, asked)
  PROVE  CoreInv' /\ CallsInv'
<1>1. /\ call[c].pc = "running" /\ UNCHANGED <<now, lines>>
      /\ Enqueue(<<c, "sanitize">>) \/ Become(client, {<<c, "sanitize">>})
      /\ call' = [call EXCEPT ![c].pc = "cleaning"]
  BY DEF After
<1>2. call \in [Calls -> CallType] /\ now \in Nat /\ \A d \in Calls : call[d].asked <= now
  BY DEF CoreInv, GuardTypeOK
<1> DEFINE y == [call[c] EXCEPT !.pc = "cleaning"]
<1>3. call' \in [Calls -> CallType] /\ call'[c] = y /\ \A d \in Calls : d # c => call'[d] = call[d]
  BY <1>1, <1>2 DEF CallType
<1>4. y.pc = "cleaning" /\ y.asked = call[c].asked /\ y.lawful = call[c].lawful  BY <1>2 DEF CallType
<1> HIDE DEF y
<1>5. CallsGoOn  BY <1>1, <1>2, <1>3, <1>4 DEF CallsGoOn, CallType
<1>6. CallsInv'  BY <1>1, <1>3, <1>4 DEF CallsInv, FailClosed, ShowsOwnRedacted
<1>7. <<c, "sanitize">> \in Reqs  BY DEF Reqs, Ops
<1>8. QED  BY <1>1, <1>5, <1>6, <1>7, EnqueueStep

\* Showing an output keeps the invariants.
LEMMA ShowStep ==
  ASSUME CoreInv, CallsInv, NEW c \in Calls, Show(c)
  PROVE  CoreInv' /\ CallsInv'
<1> DEFINE r == <<c, "sanitize">>
           v == IF reply[r] = "unavailable" THEN "withheld" ELSE reply[r]
<1>1. /\ call[c].pc = "cleaning" /\ reply[r] # Nothing /\ UNCHANGED <<now, client, child, lines>>
      /\ call' = [call EXCEPT ![c].pc = "done", ![c].shown = v]
      /\ reply' = [reply EXCEPT ![r] = Nothing]
  BY DEF Show
<1>2. /\ call \in [Calls -> CallType] /\ now \in Nat /\ \A d \in Calls : call[d].asked <= now
      /\ reply \in [Reqs -> Values \cup {Nothing}]
  BY DEF CoreInv, GuardTypeOK
<1>3. r \in Reqs /\ r[1] = c /\ r[2] = "sanitize"  BY DEF Reqs, Ops
<1>4. Truthful(r, reply[r])  BY <1>1, <1>3 DEF CoreInv, Truth
<1>5. v \in {"withheld", Redacted[Input[c]]} /\ v \in Values \cup {"withheld", Nothing}
  BY <1>2, <1>3, <1>4 DEF Truthful
<1> HIDE DEF v
<1> DEFINE y == [call[c] EXCEPT !.pc = "done", !.shown = v]
<1>6. call' \in [Calls -> CallType] /\ call'[c] = y /\ \A d \in Calls : d # c => call'[d] = call[d]
  BY <1>1, <1>2, <1>5, ZenonT(60) DEF CallType
<1>7. y.pc = "done" /\ y.asked = call[c].asked /\ y.lawful = call[c].lawful /\ y.shown = v
  BY <1>2 DEF CallType
<1> HIDE DEF y
<1>8. CallsGoOn  BY <1>1, <1>2, <1>6, <1>7 DEF CallsGoOn, CallType
<1>9. CallsInv'  BY <1>1, <1>5, <1>6, <1>7 DEF CallsInv, FailClosed, ShowsOwnRedacted
<1>10. QED  BY <1>1, <1>2, <1>3, <1>8, <1>9, LookStep

-----------------------------------------------------------------------------
(* Theorems *)

\* The guard starts with the invariant.
LEMMA GuardStarts == GuardInit => GuardInv
<1> SUFFICES ASSUME GuardInit  PROVE GuardInv  OBVIOUS
<1>1. <<>> \in Seq(Reqs) /\ Range(<<>>) = {}  BY EmptyRange
<1>2. NoCache \in [Inputs \X Ops -> EntryType \cup {Nothing}]  BY DEF NoCache
<1>3. /\ child = [gen |-> 1, alive |-> 1 # 0, hello |-> TRUE, inbox |-> <<>>, work |-> NoWork,
                 cache |-> NoCache]
  BY DEF GuardInit, Fresh
<1>4. child \in ChildType /\ child.gen = 1 /\ child.inbox = <<>> /\ child.work = NoWork
      /\ child.cache = NoCache
  BY <1>1, <1>2, <1>3 DEF ChildType
<1>5. client \in ClientType /\ client.gen = 1 /\ client.pending = <<>> /\ client.active = Nothing
      /\ client.pump = "off"
  BY <1>1 DEF GuardInit, ClientType
<1>6. call \in [Calls -> CallType] /\ \A c \in Calls : call[c].pc = "idle" /\ call[c].asked = 0
  BY DEF GuardInit, CallType
<1>7. GuardTypeOK
  <2>1. now = 0 /\ reply \in [Reqs -> Values \cup {Nothing}] /\ lines = {}  BY DEF GuardInit
  <2>2. QED  BY <1>4, <1>5, <1>6, <2>1 DEF GuardTypeOK
<1>8. Truth  BY <1>4 DEF GuardInit, Truth, NoCache
<1>9. AskedOnce
  <2>1. \A c \in Calls : <<c, "evaluate">> \in Reqs /\ <<c, "evaluate">> # Nothing
    BY GuardAssumption DEF Reqs, Ops
  <2>2. InFlight = {Nothing}  BY <1>1, <1>4, <1>5 DEF GuardInit, InFlight, NoWork
  <2>3. QED  BY <2>1, <2>2 DEF AskedOnce, GuardInit
<1>10. PumpInv  BY <1>4, <1>5 DEF PumpInv, ClientOK, Pumped, AnswerComing
<1>11. CallsInv  BY <1>6 DEF CallsInv, FailClosed, ShowsOwnRedacted
<1>12. QED  BY <1>7, <1>8, <1>9, <1>10, <1>11 DEF GuardInv, CoreInv

(* Every step of the guard, of the client and of the scanner keeps the
   invariant: what is said about a request is true of its own call, whoever
   holds it, and the client's queue, pump and generation agree. *)
THEOREM GuardCorrect == GuardSpec => []GuardInv
<1>1. GuardInv /\ [GuardNext]_guardVars => GuardInv'
  <2>1. SUFFICES ASSUME CoreInv, CallsInv, [GuardNext]_guardVars  PROVE CoreInv' /\ CallsInv'
    BY DEF GuardInv
  <2>2. UNCHANGED call => CallsInv'  BY <2>1 DEF CallsInv, FailClosed, ShowsOwnRedacted
  <2>3. CASE Tick  BY <2>1, <2>2, <2>3, TickStep DEF Tick
  <2>4. CASE PumpResumes  BY <2>1, <2>2, <2>4, PumpResumesStep DEF PumpResumes
  <2>5. CASE GenerationFails  BY <2>1, <2>2, <2>5, GenerationFailsStep DEF GenerationFails
  <2>23. CASE ReceiveInvalid  BY <2>1, <2>2, <2>23, ReceiveInvalidStep DEF ReceiveInvalid
  <2>6. CASE Shutdown  BY <2>1, <2>2, <2>6, ShutdownStep DEF Shutdown
  <2>7. ASSUME NEW b \in BOOLEAN, Flushed(b)  PROVE CoreInv' /\ CallsInv'
    BY <2>1, <2>2, <2>7, FlushedStep DEF Flushed
  <2>8. ASSUME NEW b \in BOOLEAN, Scan(b)  PROVE CoreInv' /\ CallsInv'
    BY <2>1, <2>2, <2>8, ScanStep DEF Scan
  <2>9. ASSUME NEW b \in BOOLEAN, External(b)  PROVE CoreInv' /\ CallsInv'
    BY <2>1, <2>2, <2>9, ExternalStep DEF External
  <2>10. ASSUME NEW b \in BOOLEAN, Reply(b)  PROVE CoreInv' /\ CallsInv'
    BY <2>1, <2>2, <2>10, ReplyStep DEF Reply
  <2>11. ASSUME NEW line \in lines, Receive(line)  PROVE CoreInv' /\ CallsInv'
    BY <2>1, <2>2, <2>11, ReceiveStep DEF Receive
  <2>12. ASSUME NEW r \in Reqs, RequestTimer(r)  PROVE CoreInv' /\ CallsInv'
    BY <2>1, <2>2, <2>12, RequestTimerStep DEF RequestTimer
  <2>13. CASE ChildReady  BY <2>1, <2>2, <2>13, ChildReadyStep DEF ChildReady
  <2>14. CASE ChildDies  BY <2>1, <2>2, <2>14, ChildDiesStep DEF ChildDies
  <2>15. CASE TakeRequest  BY <2>1, <2>2, <2>15, TakeRequestStep DEF TakeRequest
  <2>16. CASE Store  BY <2>1, <2>2, <2>16, StoreStep DEF Store
  <2>17. ASSUME NEW c \in Calls, Decide(c)  PROVE CoreInv' /\ CallsInv'
    BY <2>1, <2>17, DecideStep
  <2>18. ASSUME NEW c \in Calls, NEW b \in BOOLEAN, After(c, b)  PROVE CoreInv' /\ CallsInv'
    BY <2>1, <2>18, AfterStep
  <2>19. ASSUME NEW c \in Calls, Show(c)  PROVE CoreInv' /\ CallsInv'
    BY <2>1, <2>19, ShowStep
  <2>20. ASSUME NEW c \in Calls, NEW b \in BOOLEAN, Before(c, b)  PROVE CoreInv' /\ CallsInv'
    BY <2>1, <2>20, BeforeStep
  <2>21. CASE UNCHANGED guardVars
    <3>1. CallsGoOn  BY <2>1, <2>21, SameCalls DEF CoreInv, guardVars
    <3>2. QED  BY <2>1, <2>2, <2>21, <3>1, LookStep DEF guardVars, CoreInv, GuardTypeOK
  <2>22. QED
    BY <2>1, <2>3, <2>4, <2>5, <2>6, <2>7, <2>8, <2>9, <2>10, <2>11, <2>12, <2>13, <2>14, <2>15,
       <2>16, <2>17, <2>18, <2>19, <2>20, <2>21, <2>23 DEF GuardNext
<1>2. QED  BY GuardStarts, <1>1, PTL DEF GuardSpec

(* A tool runs only if it was allowed at some moment between the question and
   the answer, or only reads and nobody could answer: before of
   plugin/src/security.ts fails closed, whatever the scanner, its cache, its
   adapters and the client do. *)
THEOREM AlwaysFailClosed == GuardSpec => []FailClosed
<1>1. GuardInv => FailClosed  BY DEF GuardInv, CallsInv
<1>2. QED  BY GuardCorrect, <1>1, PTL

(* What a call shows is its own output, redacted, or nothing (after and
   strings of plugin/src/security.ts). *)
THEOREM AlwaysShowsOwnRedacted == GuardSpec => []ShowsOwnRedacted
<1>1. GuardInv => ShowsOwnRedacted  BY DEF GuardInv, CallsInv
<1>2. QED  BY GuardCorrect, <1>1, PTL

(* A request that waits is being worked for: the pump runs, or the oldest was
   sent to the scanner of now and can be answered (pump, finish and
   failGeneration of vsecagent/src/client.ts). *)
THEOREM PendingAlwaysPumped == GuardSpec => []PendingIsPumped
<1>1. GuardInv => PendingIsPumped
  BY DEF GuardInv, CoreInv, PumpInv, ClientOK, Pumped, AnswerComing, PendingIsPumped
<1>2. QED  BY GuardCorrect, <1>1, PTL
=============================================================================
