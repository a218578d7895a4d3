---------------------------- MODULE LayeredPlan ----------------------------
(***************************************************************************)
(* What compression shows instead of a session's history.  The layered     *)
(* planner (layered.ts) replaces tool outputs and quoted material of older *)
(* turns by references to notes, which cite the text they stand for; the   *)
(* legacy plan replaces the oldest turns by one message.  A plan is made   *)
(* for the messages of one moment and applied (layered-operations.ts,      *)
(* compaction.ts) to what the host shows later: more messages, an answer   *)
(* that has grown, a history that was edited or reverted.                  *)
(*                                                                         *)
(* A text is a sequence of units, one token each; a reference to a note is *)
(* a unit as well.  A message has one part.                                *)
(***************************************************************************)
LOCAL INSTANCE Integers
LOCAL INSTANCE FiniteSets
LOCAL INSTANCE SequencesExt

CONSTANTS Outputs,       \* tool outputs: <<status, length, protected>>
          RetainTurns,   \* retainRecentTurns
          LeafTokens,    \* LEAF_SOURCE_TOKENS
          Arity,         \* notes merged into one: 4
          NoteTokens,    \* the size of the text of a note
          Target, MemoryMax,
          MaxMessages, MaxEdits   \* bounds

VARIABLES host,     \* the messages of the session
          plan,     \* the plan in force
          edits     \* messages of the host that were edited or dropped

planVars == <<host, plan, edits>>

NoPlan == [kind |-> "none", source |-> <<>>, ops |-> <<>>, leaves |-> <<>>, top |-> <<>>]

PlanInit == host = <<>> /\ plan = NoPlan /\ edits = 0

-----------------------------------------------------------------------------
(* Messages of the host.  Units name their message, version and position. *)

Raw(id, ver, n) == [k \in 1..n |-> <<"raw", id, ver, k>>]
\* A request of three units that quotes the last two.
User(id) == [id |-> id, role |-> "user", kind |-> "text", text |-> Raw(id, 0, 3), from |-> 1,
             to |-> 3, protected |-> FALSE]
\* A tool's output; "running" until it is completed, "failed" when it reports a failure,
\* "kept" when no note can stand for it: a failure whose diagnosis is longer than a note
\* (safeToReplace), or an output that holds references to notes (NODE_MARKER).
Tool(id, kind, n, protected) ==
  [id |-> id, role |-> "assistant", kind |-> kind, text |-> Raw(id, 0, n), from |-> 0, to |-> n,
   protected |-> protected]
\* What a plan shows for the turns it replaced.
Replacement(n) == [User("compaction") EXCEPT !.text = <<<<"note", n, 0>>, <<"text", n, 0>>>>]

NextId == Len(host) + 10 * edits + 1
Say(m) ==
  /\ Len(host) < MaxMessages
  /\ host' = Append(host, m)
  /\ UNCHANGED <<plan, edits>>
SayUser == Say(User(NextId))
SayTool ==
  /\ host # <<>>
  /\ \E o \in Outputs : Say(Tool(NextId, o[1], o[2], o[3]))
\* The tool that runs completes; its message changes under the same id.
FinishTool ==
  /\ host # <<>> /\ host[Len(host)].kind = "running"
  /\ host' = [host EXCEPT ![Len(host)].kind = "done",
                          ![Len(host)].text = Raw(host[Len(host)].id, 1, Len(@))]
  /\ UNCHANGED <<plan, edits>>
\* The user edits a message, or reverts to an earlier point.  (Without a plan that is
\* just another history.)
Rewrite ==
  /\ plan # NoPlan
  /\ edits < MaxEdits /\ edits' = edits + 1
  /\ \E i \in DOMAIN host :
       host' \in {[host EXCEPT ![i].text = Raw(host[i].id, 2, Len(@))], SubSeq(host, 1, i - 1)}
  /\ UNCHANGED plan

-----------------------------------------------------------------------------
(* Turns and candidates. *)

SumOf(seq) == FoldSeq(LAMBDA x, acc : x + acc, 0, seq)
TokensOf(m) == SumOf([k \in DOMAIN m.text |-> IF m.text[k][1] = "text" THEN NoteTokens ELSE 1])
AllTokens(ms) == SumOf([i \in DOMAIN ms |-> TokensOf(ms[i])])

\* A user message, and the first one, opens a turn.
TurnStarts(ms) == SetToSortSeq({i \in DOMAIN ms : i = 1 \/ ms[i].role = "user"}, <)
\* The first message of the turns that stay as they are.
RecentStart(ms, keep) ==
  LET starts == TurnStarts(ms)
  IN IF starts = <<>> THEN 1 ELSE starts[IF Len(starts) > keep THEN Len(starts) - keep + 1 ELSE 1]

\* The observation of a message: a completed output or quoted material.
Observed(m) == m.to > m.from /\ m.kind \notin {"running", "kept"}
Failure(m) == m.kind = "failed"
\* A reference to its note, and for a failure the note's text, must be shorter.
MinimumReplacement(m) == 1 + (IF Failure(m) THEN NoteTokens ELSE 0)
Candidates(ms) ==
  SelectSeq([i \in 1..(RecentStart(ms, RetainTurns + 1) - 1) |-> i],
            LAMBDA i : /\ ~ms[i].protected /\ Observed(ms[i])
                       /\ ms[i].to - ms[i].from > MinimumReplacement(ms[i]))

-----------------------------------------------------------------------------
(* Leaves: the sources, cut into pieces that fit one, in order. *)

PiecesOf(ms, i) ==
  LET m == ms[i]
      count == (m.to - m.from + LeafTokens - 1) \div LeafTokens
      End(k) == IF k = count THEN m.to ELSE m.from + k * LeafTokens
  IN [k \in 1..count |-> [msg |-> i, from |-> m.from + (k - 1) * LeafTokens, to |-> End(k)]]

PieceTokens(pieces) == SumOf([k \in DOMAIN pieces |-> pieces[k].to - pieces[k].from])

\* addPiece: the open group is flushed when the piece does not fit, and when it is full.
AddPiece(acc, piece) ==
  LET fits == PieceTokens(Append(acc.group, piece)) <= LeafTokens
      closed == IF fits \/ acc.group = <<>> THEN acc.leaves ELSE Append(acc.leaves, acc.group)
      group == IF fits THEN Append(acc.group, piece) ELSE <<piece>>
  IN IF PieceTokens(group) >= LeafTokens
       THEN [leaves |-> Append(closed, group), group |-> <<>>]
       ELSE [leaves |-> closed, group |-> group]

LeavesOf(ms) ==
  LET found == Candidates(ms)
      pieces == FlattenSeq([k \in DOMAIN found |-> PiecesOf(ms, found[k])])
      acc == FoldLeft(AddPiece, [leaves |-> <<>>, group |-> <<>>], pieces)
  IN IF acc.group = <<>> THEN acc.leaves ELSE Append(acc.leaves, acc.group)

\* The leaves a candidate was cut into: ids.at(-1) # nodeId keeps each once.
NodesFor(leaves, i) ==
  SelectSeq([n \in DOMAIN leaves |-> n],
            LAMBDA n : \E k \in DOMAIN leaves[n] : leaves[n][k].msg = i)

\* The hierarchy: runs of Arity nodes of one level are merged until nothing merges.
\* A node is [level, leaves]; parents keep the leaves below them in order.
MergeRound(frontier) ==
  LET at[i \in 1..Len(frontier) + 1] ==   \* the new frontier from position i on
        IF i > Len(frontier) THEN <<>>
        ELSE IF /\ i + Arity - 1 <= Len(frontier)
                /\ \A k \in i..(i + Arity - 1) : frontier[k].level = frontier[i].level
          THEN <<[level |-> frontier[i].level + 1,
                  leaves |-> FlattenSeq([k \in 1..Arity |-> frontier[i + k - 1].leaves])]>>
               \o at[i + Arity]
          ELSE <<frontier[i]>> \o at[i + 1]
  IN at[1]
Roots(leaves) == [k \in DOMAIN leaves |-> [level |-> 0, leaves |-> <<k>>]]
Hierarchy(leaves) ==
  LET round[n \in 0..Len(leaves)] ==
        IF n = 0 THEN Roots(leaves)
        ELSE IF Len(round[n - 1]) < Arity THEN round[n - 1] ELSE MergeRound(round[n - 1])
  IN round[Len(leaves)]

-----------------------------------------------------------------------------
(* Operations, and their application to the messages of a later moment. *)

\* Replaces the observation of message i by references to notes, then by texts of notes.
Operation(ms, leaves, i, texts) ==
  LET refs == NodesFor(leaves, i)
      size == texts + (IF Failure(ms[i]) THEN 1 ELSE 0)
  IN [id |-> ms[i].id, digest |-> ms[i], from |-> ms[i].from, to |-> ms[i].to,
      replacement |-> [k \in DOMAIN refs |-> <<"note", refs[k], i>>]
                      \o [k \in 1..size |-> <<"text", i, 0>>]]

\* Every operation is checked against the snapshot first, then all are applied: the
\* snapshot is a prefix of the messages as they were, and an operation touches only it.
SnapshotEnd(ms) ==
  LET users == {i \in DOMAIN ms : ms[i].role = "user"}
  IN IF users = {} THEN Len(ms) ELSE Max(users)

\* Mutant: messages are looked for by their ids, whatever has become of them.
ValidById(ms, source, ops) ==
  /\ ops # <<>>
  /\ \A k \in DOMAIN ops : \E i \in DOMAIN ms :
       ms[i].id = ops[k].id /\ ~ms[i].protected /\ ms[i].kind # "running"

Valid(ms, source, ops) ==
  /\ ops # <<>>
  /\ Len(ms) >= SnapshotEnd(source)
  /\ \A i \in 1..SnapshotEnd(source) : ms[i] = source[i]
  /\ \A k \in DOMAIN ops : \E i \in 1..SnapshotEnd(source) :
       /\ ms[i].id = ops[k].id /\ ms[i] = ops[k].digest
       /\ ~ms[i].protected /\ ms[i].kind # "running"
MaterializeOperations(ms, source, ops) ==
  IF ~Valid(ms, source, ops) THEN ms
  ELSE [i \in DOMAIN ms |->
          LET mine == {k \in DOMAIN ops : ops[k].id = ms[i].id}
          IN IF mine = {} THEN ms[i]
             ELSE LET op == ops[CHOOSE k \in mine : TRUE]
                  IN [ms[i] EXCEPT !.text = SubSeq(@, 1, op.from) \o op.replacement
                                            \o SubSeq(@, op.to + 1, Len(@))]]

\* A legacy plan: its messages must be there, unchanged and in a row.
MaterializeCompaction(ms, source, n) ==
  LET at == {i \in DOMAIN ms : ms[i].id = source[1].id}
  IN IF \E i \in at : /\ i + n - 1 <= Len(ms)
                      /\ \A k \in 1..n : ms[i + k - 1] = source[k]
       THEN LET i == CHOOSE j \in at : TRUE
            IN SubSeq(ms, 1, i - 1) \o <<Replacement(n)>> \o SubSeq(ms, i + n, Len(ms))
       ELSE ms

View(ms, p) ==
  CASE p.kind = "layered" -> MaterializeOperations(ms, p.source, p.ops)
    [] p.kind = "legacy" -> MaterializeCompaction(ms, p.source, p.ops[1])
    [] OTHER -> ms

\* The budget for optional texts of notes, and the candidates that get theirs: failures
\* have it already, then the most recent first.
HistoryBudget(ms, leaves) ==
  LET found == Candidates(ms)
      ops == [k \in DOMAIN found |-> Operation(ms, leaves, found[k], 0)]
      room == Target - AllTokens(MaterializeOperations(ms, ms, ops))
  IN Max({0, Min({MemoryMax, room})})
Selected(ms, leaves) ==
  LET order == Reverse(SelectSeq(Candidates(ms), LAMBDA i : ~Failure(ms[i])))
      budget == HistoryBudget(ms, leaves)
      Take(acc, i) ==
        IF /\ acc.tokens + NoteTokens <= budget
           /\ ms[i].to - ms[i].from > Len(NodesFor(leaves, i)) + NoteTokens
          THEN [tokens |-> acc.tokens + NoteTokens, chosen |-> acc.chosen \cup {i}] ELSE acc
  IN FoldLeft(Take, [tokens |-> 0, chosen |-> {}], order)

\* buildLayeredPlan; a plan without gain is not published, a hierarchy is built only when
\* the history is over its target.
BuildLayered ==
  LET found == Candidates(host)
      leaves == LeavesOf(host)
      chosen == Selected(host, leaves).chosen
      ops == [k \in DOMAIN found |->
                Operation(host, leaves, found[k], IF found[k] \in chosen THEN 1 ELSE 0)]
  IN /\ ops # <<>>
     /\ AllTokens(MaterializeOperations(host, host, ops)) < AllTokens(host)
     /\ plan' = [kind |-> "layered", source |-> host, ops |-> ops, leaves |-> leaves,
                 top |-> IF AllTokens(host) > Target THEN Hierarchy(leaves) ELSE Roots(leaves)]
     /\ UNCHANGED <<host, edits>>

\* The prefixes a legacy plan may replace: whole turns before the recent ones, up to the
\* first turn with a protected message or a tool that has not completed.
LegacyPrefixes(ms) ==
  {n \in 1..(RecentStart(ms, RetainTurns + 1) - 1) :
     /\ ms[n + 1].role = "user"
     /\ \A i \in 1..n : ~ms[i].protected /\ ms[i].kind # "running"}
Gain(ms, n) == AllTokens(SubSeq(ms, 1, n)) - TokensOf(Replacement(n))

\* The legacy strategy: the fewest turns that bring the history to its target, else the
\* most that gain anything.
BuildLegacy ==
  LET gaining == {n \in LegacyPrefixes(host) : Gain(host, n) > 0}
      enough == {n \in gaining : AllTokens(host) - Gain(host, n) <= Target}
      n == IF enough # {} THEN Min(enough) ELSE Max(gaining)
  IN /\ gaining # {}
     /\ plan' = [kind |-> "legacy", source |-> SubSeq(host, 1, n), ops |-> <<n>>,
                 leaves |-> <<>>, top |-> <<>>]
     /\ UNCHANGED <<host, edits>>

PlanNext == SayUser \/ SayTool \/ FinishTool \/ Rewrite \/ BuildLayered \/ BuildLegacy

-----------------------------------------------------------------------------
(* Properties *)

\* The text behind a unit of a view: itself, or what the note holds of that message.
Expand(unit) ==
  CASE unit[1] = "note" /\ plan.kind = "layered" ->
         FlattenSeq([k \in DOMAIN plan.leaves[unit[2]] |->
           LET piece == plan.leaves[unit[2]][k]
           IN IF piece.msg = unit[3]
                THEN SubSeq(plan.source[piece.msg].text, piece.from + 1, piece.to) ELSE <<>>])
    [] unit[1] = "note" -> FlattenSeq([i \in 1..unit[2] |-> plan.source[i].text])
    [] unit[1] = "text" -> <<>>
    [] OTHER -> <<unit>>
ExpandText(text) == FlattenSeq([k \in DOMAIN text |-> Expand(text[k])])

Whole(view) ==
  FlattenSeq([i \in DOMAIN view |-> ExpandText(view[i].text)])
    = FlattenSeq([i \in DOMAIN host |-> host[i].text])
Careful(view) ==
  /\ \A i \in DOMAIN host : view[i] # host[i] =>
       /\ ~host[i].protected /\ host[i].kind \notin {"running", "kept"}
       /\ i < RecentStart(host, RetainTurns + 1)
       /\ \A k \in 1..host[i].from : view[i].text[k] = host[i].text[k]
  /\ \A n \in DOMAIN plan.leaves : PieceTokens(plan.leaves[n]) \in 1..LeafTokens
  /\ FlattenSeq([k \in DOMAIN plan.top |-> plan.top[k].leaves]) = [n \in DOMAIN plan.leaves |-> n]

(* Whatever the host did since the plan was made, reading the view with every
   reference followed gives the host's own text back, unit for unit: outputs cut
   over several notes and notes shared by several outputs included.  A plan for
   a history that has changed shows the host's messages as they are.  A layered
   view never touches a user's own words, a protected message, an output no note
   can stand for, a tool that is still running, or any message said since the last
   request the plan saw; its leaves are within their bound, and each is below
   exactly one node at the top. *)
Recoverable ==
  LET view == View(host, plan)
  IN Whole(view) /\ (plan.kind = "layered" => Careful(view))
=============================================================================
