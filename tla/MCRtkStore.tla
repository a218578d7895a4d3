----------------------------- MODULE MCRtkStore -----------------------------
(***************************************************************************)
(* Instances of RtkStore for TLC.                                          *)
(***************************************************************************)
EXTENDS RtkStore

Sets == INSTANCE FiniteSetsExt

\* Objects are numbered 1, 2, ...; the last one is twice as long.
MCSize == [h \in Hashes |-> IF h = 3 THEN 2 ELSE 1]
MCBytes(S) == Sets!MapThenSumSet(LAMBDA h : MCSize[h], S)
=============================================================================
