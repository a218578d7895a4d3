----------------------------- MODULE QuotaStore -----------------------------
(***************************************************************************)
(* What the rtk store promises its callers: objects appear whole, within   *)
(* the byte limit, and are never taken away; a session comes to own only   *)
(* an object that is there, and owns it for good.                          *)
(***************************************************************************)
EXTENDS Naturals

CONSTANTS
  Sessions, Hashes,
  Legacy,     \* objects the store root held before the ledger existed
  Bytes(_),   \* the bytes a set of objects takes up
  Limit       \* maxStorageBytes

VARIABLES stored, owned

vars == <<stored, owned>>

Init == stored = Legacy /\ owned \in SUBSET (Sessions \X Legacy)

Store(h) ==
  /\ Bytes(stored \cup {h}) <= Limit
  /\ stored' = stored \cup {h}
  /\ UNCHANGED owned

Own(s, h) ==
  /\ h \in stored
  /\ owned' = owned \cup {<<s, h>>}
  /\ UNCHANGED stored

Next ==
  \/ \E h \in Hashes : Store(h)
  \/ \E s \in Sessions, h \in Hashes : Own(s, h)

Spec == Init /\ [][Next]_vars
=============================================================================
