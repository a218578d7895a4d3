---------------------------- MODULE MCComponents ----------------------------
(***************************************************************************)
(* Instances for TLC of the components that have a small state of their    *)
(* own: Enhancement, HeadroomRetrieval, LayeredPlan, HeadroomWire,         *)
(* Migration and ToolOutput.  They share no state, so one of them moves in *)
(* a behaviour, chosen at its start.                                       *)
(***************************************************************************)
EXTENDS Enhancement, Migration, HeadroomWire, HeadroomRetrieval, TLC

VARIABLES part,                                  \* the component that moves
          host, plan, edits,                     \* LayeredPlan
          tool, output                           \* ToolOutput

-----------------------------------------------------------------------------
(* HeadroomRetrieval: "old" is an archive of one message, "new" replaces it  *)
(* by r1 and goes on with a message copied from another session (r2, whose   *)
(* archive this session does not own) and one of three code points, one of   *)
(* them a pair of surrogates.                                                *)

MCMessages == [old |-> <<"m1">>, new |-> <<"r1", "r2", "m2">>, elsewhere |-> <<>>]
MCChildOf == [m1 |-> Nobody, m2 |-> Nobody, r1 |-> "old", r2 |-> "elsewhere"]
MCNodeChildren == [leaf |-> <<>>, other |-> <<>>, top |-> <<"leaf", "other">>]
MCNodeSources == [leaf |-> <<"r1">>, other |-> <<"m2">>, top |-> <<>>]
MCRanked == <<"m2", "m1">>
MCText == [m1 |-> <<2, 1>>, m2 |-> <<1, 4, 1>>, r1 |-> <<1>>, r2 |-> <<1>>]

\* An output longer than a leaf, a protected, a failed, a running and a kept one.
P == INSTANCE LayeredPlan WITH
       Outputs <- {<<"done", 5, FALSE>>, <<"done", 3, TRUE>>, <<"failed", 3, FALSE>>,
                   <<"running", 3, FALSE>>, <<"kept", 3, FALSE>>},
       RetainTurns <- 0, LeafTokens <- 4, Arity <- 2, NoteTokens <- 1, Target <- 7,
       MemoryMax <- 1, MaxMessages <- 4, MaxEdits <- 1

\* HeadroomWire: one question and one answer are as long as a frame may be, one answer holds
\* a pair of surrogates.
Xs(n) == [i \in 1..n |-> "x"]
MCQuestion == [c1 |-> <<>>, c2 |-> Xs(1), c3 |-> Xs(5)]
MCReply == [c1 |-> <<"hi", "lo">>, c2 |-> Xs(5), c3 |-> <<>>]

\* Migration: i1 exchanges two projects, i2 renames one without rows.
MCRows == {<<"a", "h1">>, <<"b", "h1">>, <<"b", "h2">>}
MCMapping == [i1 |-> [a |-> "b", b |-> "a"], i2 |-> [zz |-> "a"]]

Line(class, size, file, no) == [class |-> class, size |-> size, file |-> file, no |-> no]
Plain(class, size) == Line(class, size, "-", 0)
T == INSTANCE ToolOutput WITH
       Tools <- {"test", "ls", "paths", "grep", "diff"},
       LinesOf <-
         [test |-> {Plain("seed", 3), Plain("detail", 2), Plain("case", 4), Plain("pass", 3),
                    Plain("blank", 0), Plain("total", 2), Line("passed", 1, "s", 0),
                    Line("suite", 1, "t", 0), Line("failed", 1, "t", 0)},
          ls |-> {Line("section", 1, "a", 0), Plain("dir", 2), Plain("file", 4), Plain("blank", 0),
                  Plain("total", 2)},
          paths |-> {Line("path", 4, <<"a">>, 0), Line("path", 3, <<"a", "b">>, 0),
                     Line("path", 3, <<"c">>, 0), Line("text", 2, <<>>, 0), Line("blank", 0, <<>>, 0)},
          grep |-> {Line("match", 4, "a", 1), Line("error", 4, "a", 2), Line("match", 4, "a", 7),
                    Line("match", 5, "b", 1), Line("heading", 1, "b", 0)},
          diff |-> {Plain("change", 3), Plain("hunk", 1), Plain("context", 4), Plain("odd", 2)}],
       MaxLines <- 5, MarkerSize <- 2, SummarySize <- 2, FooterSize <- 1, CharsPerToken <- 2,
       OutputBudget <- 5, KeepFiles <- 1, KeepEntries <- 1, MergeGap <- 3

-----------------------------------------------------------------------------
planVars == <<host, plan, edits>>
outputVars == <<tool, output>>
AllVars == <<vars, part, retrievalVars, planVars, wireVars, migrationVars, outputVars>>

AllInit ==
  /\ part \in {"enhancement", "retrieval", "plan", "wire", "migration", "output"}
  /\ Init /\ RetrievalInit /\ P!PlanInit /\ WireInit /\ MigrationInit /\ T!OutputInit

EnhancementMoves ==
  /\ part = "enhancement" /\ Next
  /\ UNCHANGED <<part, retrievalVars, planVars, wireVars, migrationVars, outputVars>>
RetrievalMoves ==
  /\ part = "retrieval" /\ RetrievalNext
  /\ UNCHANGED <<part, vars, planVars, wireVars, migrationVars, outputVars>>
PlanMoves ==
  /\ part = "plan" /\ P!PlanNext
  /\ UNCHANGED <<part, vars, retrievalVars, wireVars, migrationVars, outputVars>>
WireMoves ==
  /\ part = "wire" /\ WireNext
  /\ UNCHANGED <<part, vars, retrievalVars, planVars, migrationVars, outputVars>>
MigrationMoves ==
  /\ part = "migration" /\ MigrationNext
  /\ UNCHANGED <<part, vars, retrievalVars, planVars, wireVars, outputVars>>
OutputMoves ==
  /\ part = "output" /\ T!OutputNext
  /\ UNCHANGED <<part, vars, retrievalVars, planVars, wireVars, migrationVars>>
AllNext ==
  \/ EnhancementMoves \/ RetrievalMoves \/ PlanMoves
  \/ WireMoves \/ MigrationMoves \/ OutputMoves

AllSpec == AllInit /\ [][AllNext]_AllVars

-----------------------------------------------------------------------------
(* The properties of the instances, for TLC. *)

\* Layered plans: the view with its references followed is the host's text, and only old,
\* unprotected outputs are touched (layered.ts, view.ts).
Recoverable == part = "plan" => P!Recoverable

\* Tool outputs: what is left out is declared exactly, and nothing vital is
\* (pipeline.ts, budget.ts, strategies).
OmissionsExact == part = "output" => T!OmissionsExact

\* The sessions of Enhancement are alike.
Symmetry == Permutations(Sessions)
=============================================================================
