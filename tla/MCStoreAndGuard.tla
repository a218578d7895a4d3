-------------------------- MODULE MCStoreAndGuard --------------------------
(***************************************************************************)
(* Instances for TLC of HeadroomStore and of VsecAgent, which share no     *)
(* state: one of them moves in a behaviour, chosen at its start.           *)
(*                                                                         *)
(* In the store, "new" is a layered plan over two messages, with a leaf    *)
(* and a note merged from it, which two sessions (a fork has the messages  *)
(* of its parent) archive; "better" is its enhanced candidate.  The guard  *)
(* sees two calls with the same arguments, whose finding has an exception  *)
(* that ends, and a read of something else.                                *)
(***************************************************************************)
EXTENDS HeadroomStore, VsecAgent, TLC

MCMessages == [new |-> <<"m1", "m2">>, better |-> <<"m1", "m2">>]
MCSeqBase == [new |-> 1, better |-> 1]
MCNodesOf == [new |-> {"leaf", "top"}, better |-> {"note"}]
MCSources == [leaf |-> {"m2"}, top |-> {"m1", "m2"}, note |-> {}]
MCChildren == [leaf |-> {}, top |-> {"leaf"}, note |-> {"leaf"}]
MCCandidateOf == [new |-> "better", better |-> None]
MCArchives == {<<"a", "new">>, <<"b", "new">>}
MCViews == {<<"a", "better">>}

CONSTANTS c1, c2, c3   \* tool calls

MCInput == [c \in {c1, c2, c3} |-> IF c = c3 THEN "plain" ELSE "waived"]
MCRedacted == [waived |-> "[REDACTED]", plain |-> "plain text"]

VARIABLE part          \* "store" or "guard"

BothInit == part \in {"store", "guard"} /\ Init /\ GuardInit
StoreMoves == part = "store" /\ Next /\ UNCHANGED <<part, guardVars>>
GuardMoves == part = "guard" /\ GuardNext /\ UNCHANGED <<part, vars>>
BothNext == StoreMoves \/ GuardMoves
BothSpec == BothInit /\ [][BothNext]_<<vars, part, guardVars>>

Symmetry == Permutations({c1, c2})
=============================================================================
