---------------------------- MODULE RtkStoreProofs ----------------------------
(***************************************************************************)
(* Proofs about RtkStore for any number of servers, sessions and objects:  *)
(* the quota, the safety of reservations, honest refusals, and that the    *)
(* servers implement QuotaStore.                                           *)
(***************************************************************************)
EXTENDS RtkStore, TLAPS

\* Once a server has started, every object has its row; while it starts, the
\* only objects without one are those it has yet to backfill.
Counted ==
  \A p \in Servers :
    /\ scan[p] \subseteq objects
    /\ pc[p] \notin {"down", "starting"} => objects \subseteq Rows
    /\ pc[p] = "starting" => objects \ scan[p] \subseteq Rows

\* Published rows have their object, and so do all rows when one is reserved.
RowsBacked ==
  /\ published \subseteq objects
  /\ \A p \in Servers : pc[p] = "reserve" => pending \subseteq objects

\* Past the write the object is there; what is owned is there.
OwnedBacked ==
  /\ \A p \in Servers : pc[p] \in {"sync", "grant"} => hash[p] \in objects
  /\ \A s \in Sessions, h \in Hashes : <<s, h>> \in refs => h \in objects

\* A publication that succeeded has its reference; its row is published when the
\* finally clause is done.
OkBacked ==
  \A p \in Servers : failure[p] = "ok" =>
    /\ pc[p] \in {"finally", "rollback", "idle"}
    /\ <<session[p], hash[p]>> \in refs /\ hash[p] \in objects \cap Rows
    /\ pc[p] # "finally" => hash[p] \in published

\* A new object about to be linked fits what is there.
WriteFits ==
  \A p \in Servers : pc[p] = "write" /\ hash[p] \notin objects =>
    Bytes(objects \cup {hash[p]}) <= Limit

StoreInv ==
  /\ TypeOK /\ Counted /\ ReservationKept /\ RowsBacked /\ OwnedBacked
  /\ OkBacked /\ WriteFits /\ QuotaHolds

-----------------------------------------------------------------------------

\* The sum of sizes grows with the set and by the size of what is added.
LEMMA BytesGrow ==
  /\ \A S, T \in SUBSET Hashes : S \subseteq T => Bytes(S) <= Bytes(T)
  /\ \A S \in SUBSET Hashes : \A h \in Hashes \ S : Bytes(S \cup {h}) = Bytes(S) + Size[h]
  /\ \A S \in SUBSET Hashes : Bytes(S) \in Nat
  /\ Limit \in Nat /\ \A h \in Hashes : Size[h] \in Nat
BY RtkStoreAssumption

\* A step that adds nothing to objects and rows keeps the quota.
LEMMA QuotaShrinks ==
  ASSUME TypeOK, QuotaHolds,
         objects' \cup Rows' \subseteq objects \cup Rows
  PROVE  QuotaHolds'
<1>1. objects \cup Rows \in SUBSET Hashes
  BY DEF TypeOK, Rows
<1>2. objects' \cup Rows' \in SUBSET Hashes
  BY <1>1
<1>3. Bytes(objects' \cup Rows') <= Bytes(objects \cup Rows)
  BY <1>1, <1>2, BytesGrow
<1>4. Legacy \in SUBSET Hashes
  BY RtkStoreAssumption
<1> QED
  BY <1>1, <1>2, <1>3, <1>4, BytesGrow DEF QuotaHolds, Allowance

\* Every step of a server keeps the invariant.
LEMMA StoreStep ==
  ASSUME StoreInv, [Next]_vars
  PROVE  StoreInv'
<1> USE NoServerAssumption DEF StoreInv, TypeOK, Rows, Held, Goto, disk, ledger, job
<1>1. CASE UNCHANGED vars
  BY <1>1 DEF vars, Counted, ReservationKept, RowsBacked, OwnedBacked,
     OkBacked, WriteFits, QuotaHolds
<1> SUFFICES ASSUME NEW p \in Servers,
                    \/ Start(p) \/ (\E h \in Hashes : Backfill(p, h)) \/ Ready(p)
                    \/ (\E s \in Sessions, h \in Hashes : Compress(p, s, h))
                    \/ Publish(p) \/ Crash(p)
             PROVE  StoreInv'
  BY <1>1 DEF Next, Publish
<1>2. CASE Start(p)
  <2>1. TypeOK'
    BY <1>2 DEF Start, Failures
  <2>2. Counted'
    BY <1>2 DEF Start, Counted, ReservationKept
  <2>3. ReservationKept'
    BY <1>2 DEF Start, ReservationKept
  <2>4. RowsBacked'
    BY <1>2 DEF Start, RowsBacked, Counted
  <2>5. OwnedBacked'
    BY <1>2 DEF Start, OwnedBacked
  <2>6. OkBacked'
    BY <1>2 DEF Start, OkBacked, OwnedBacked, ReservationKept
  <2>7. WriteFits'
    BY <1>2 DEF Start, WriteFits, ReservationKept
  <2>8. QuotaHolds'
    BY <1>2, QuotaShrinks DEF Start, Counted, ReservationKept
  <2> QED
    BY <2>1, <2>2, <2>3, <2>4, <2>5, <2>6, <2>7, <2>8
<1>3. ASSUME NEW h \in Hashes, Backfill(p, h) PROVE StoreInv'
  <2>1. TypeOK'
    BY <1>3 DEF Backfill, Failures
  <2>2. Counted'
    BY <1>3 DEF Backfill, Counted, ReservationKept
  <2>3. ReservationKept'
    BY <1>3 DEF Backfill, ReservationKept
  <2>4. RowsBacked'
    BY <1>3 DEF Backfill, RowsBacked, Counted
  <2>5. OwnedBacked'
    BY <1>3 DEF Backfill, OwnedBacked
  <2>6. OkBacked'
    BY <1>3 DEF Backfill, OkBacked, OwnedBacked, ReservationKept
  <2>7. WriteFits'
    BY <1>3 DEF Backfill, WriteFits, ReservationKept
  <2>8. QuotaHolds'
    BY <1>3, QuotaShrinks DEF Backfill, Counted, ReservationKept
  <2> QED
    BY <2>1, <2>2, <2>3, <2>4, <2>5, <2>6, <2>7, <2>8
<1>4. CASE Ready(p)
  <2>1. TypeOK'
    BY <1>4 DEF Ready, PendingAfterStart, Failures
  <2>2. Counted'
    BY <1>4 DEF Ready, PendingAfterStart, Counted, ReservationKept
  <2>3. ReservationKept'
    BY <1>4 DEF Ready, PendingAfterStart, ReservationKept
  <2>4. RowsBacked'
    BY <1>4 DEF Ready, PendingAfterStart, RowsBacked, Counted
  <2>5. OwnedBacked'
    BY <1>4 DEF Ready, PendingAfterStart, OwnedBacked
  <2>6. OkBacked'
    BY <1>4 DEF Ready, PendingAfterStart, OkBacked, OwnedBacked, ReservationKept
  <2>7. WriteFits'
    BY <1>4 DEF Ready, PendingAfterStart, WriteFits, ReservationKept
  <2>8. QuotaHolds'
    BY <1>4, QuotaShrinks DEF Ready, PendingAfterStart, Counted, ReservationKept
  <2> QED
    BY <2>1, <2>2, <2>3, <2>4, <2>5, <2>6, <2>7, <2>8
<1>5. ASSUME NEW s \in Sessions, NEW h \in Hashes, Compress(p, s, h) PROVE StoreInv'
  <2>1. TypeOK'
    BY <1>5 DEF Compress, Failures
  <2>2. Counted'
    BY <1>5 DEF Compress, Counted, ReservationKept
  <2>3. ReservationKept'
    BY <1>5 DEF Compress, ReservationKept
  <2>4. RowsBacked'
    BY <1>5 DEF Compress, RowsBacked, Counted
  <2>5. OwnedBacked'
    BY <1>5 DEF Compress, OwnedBacked
  <2>6. OkBacked'
    BY <1>5 DEF Compress, OkBacked, OwnedBacked, ReservationKept
  <2>7. WriteFits'
    BY <1>5 DEF Compress, WriteFits, ReservationKept
  <2>8. QuotaHolds'
    BY <1>5, QuotaShrinks DEF Compress, Counted, ReservationKept
  <2> QED
    BY <2>1, <2>2, <2>3, <2>4, <2>5, <2>6, <2>7, <2>8
<1>6. CASE Begin(p)
  <2>1. TypeOK'
    BY <1>6 DEF Begin, Failures
  <2>2. Counted'
    BY <1>6 DEF Begin, Counted, ReservationKept
  <2>3. ReservationKept'
    BY <1>6 DEF Begin, ReservationKept
  <2>4. RowsBacked'
    BY <1>6 DEF Begin, RowsBacked, Counted
  <2>5. OwnedBacked'
    BY <1>6 DEF Begin, OwnedBacked
  <2>6. OkBacked'
    BY <1>6 DEF Begin, OkBacked, OwnedBacked, ReservationKept
  <2>7. WriteFits'
    BY <1>6 DEF Begin, WriteFits, ReservationKept
  <2>8. QuotaHolds'
    BY <1>6, QuotaShrinks DEF Begin, Counted, ReservationKept
  <2> QED
    BY <2>1, <2>2, <2>3, <2>4, <2>5, <2>6, <2>7, <2>8
<1>7. CASE Reconcile(p)
  <2>1. TypeOK'
    BY <1>7 DEF Reconcile, ReconcilePending, Throws, Failures
  <2>2. Counted'
    BY <1>7 DEF Reconcile, ReconcilePending, Throws, Counted, ReservationKept
  <2>3. ReservationKept'
    BY <1>7 DEF Reconcile, ReconcilePending, Throws, ReservationKept
  <2>4. RowsBacked'
    BY <1>7 DEF Reconcile, ReconcilePending, Throws, RowsBacked, Counted
  <2>5. OwnedBacked'
    BY <1>7 DEF Reconcile, ReconcilePending, Throws, OwnedBacked
  <2>6. OkBacked'
    BY <1>7 DEF Reconcile, ReconcilePending, Throws, OkBacked, OwnedBacked, ReservationKept
  <2>7. WriteFits'
    BY <1>7 DEF Reconcile, ReconcilePending, Throws, WriteFits, ReservationKept
  <2>8. QuotaHolds'
    BY <1>7, QuotaShrinks DEF Reconcile, ReconcilePending, Throws, Counted, ReservationKept
  <2> QED
    BY <2>1, <2>2, <2>3, <2>4, <2>5, <2>6, <2>7, <2>8
<1>8. CASE Reserve(p)
  <2>1. TypeOK'
    BY <1>8 DEF Reserve, Throws, Failures
  <2>2. Counted'
    BY <1>8 DEF Reserve, Throws, Counted, ReservationKept
  <2>3. ReservationKept'
    BY <1>8 DEF Reserve, Throws, ReservationKept
  <2>4. RowsBacked'
    BY <1>8 DEF Reserve, Throws, RowsBacked, Counted
  <2>5. OwnedBacked'
    BY <1>8 DEF Reserve, Throws, OwnedBacked
  <2>6. OkBacked'
    BY <1>8 DEF Reserve, Throws, OkBacked, OwnedBacked, ReservationKept
  <2>7. WriteFits'
    <3>1. ASSUME NEW q \in Servers, pc'[q] = "write", hash'[q] \notin objects'
          PROVE  Bytes(objects' \cup {hash'[q]}) <= Limit
      <4>1. q = p /\ hash[p] \notin objects /\ UNCHANGED <<objects, hash>>
        BY <1>8, <3>1 DEF Reserve, ReservationKept, Throws
      <4>2. hash[p] \notin Rows /\ Fits(hash[p])
        BY <1>8, <3>1, <4>1 DEF Reserve, RowsBacked, Throws
      <4>3. /\ objects \subseteq Rows /\ hash[p] \in Hashes \ Rows
            /\ Rows \in SUBSET Hashes /\ objects \cup {hash[p]} \in SUBSET Hashes
            /\ Rows \cup {hash[p]} \in SUBSET Hashes
        BY <1>8, <4>2 DEF Reserve, Counted
      <4>4. Bytes(objects \cup {hash[p]}) <= Bytes(Rows \cup {hash[p]})
        BY <4>3, BytesGrow
      <4>5. Bytes(Rows \cup {hash[p]}) <= Limit
        BY <4>2, <4>3, BytesGrow DEF Fits
      <4> QED
        BY <4>1, <4>3, <4>4, <4>5, BytesGrow
    <3> QED
      BY <3>1 DEF WriteFits
  <2>8. QuotaHolds'
    <3>1. CASE hash[p] \notin Rows /\ Fits(hash[p]) /\ pending' = pending \cup {hash[p]}
      <4>1. /\ objects' \cup Rows' = Rows \cup {hash[p]}
            /\ Rows \in SUBSET Hashes /\ hash[p] \in Hashes \ Rows
        BY <1>8, <3>1 DEF Reserve, Counted
      <4>2. Bytes(objects' \cup Rows') <= Limit
        BY <3>1, <4>1, BytesGrow DEF Fits
      <4>3. Legacy \in SUBSET Hashes
        BY RtkStoreAssumption
      <4>4. Bytes(objects' \cup Rows') \in Nat /\ Limit \in Nat /\ Bytes(Legacy) \in Nat
        BY <4>1, <4>3, BytesGrow
      <4>5. Bytes(objects' \cup Rows') <= Allowance
        BY <4>2, <4>4 DEF Allowance
      <4> QED
        BY <4>5 DEF QuotaHolds, Allowance
    <3>2. CASE pending' = pending
      BY <1>8, <3>2, QuotaShrinks DEF Reserve
    <3> QED
      BY <1>8, <3>1, <3>2 DEF Reserve
  <2> QED
    BY <2>1, <2>2, <2>3, <2>4, <2>5, <2>6, <2>7, <2>8
<1>9. CASE WriteObject(p)
  <2>1. TypeOK'
    BY <1>9 DEF WriteObject, WriteFails, Throws, Failures
  <2>2. Counted'
    BY <1>9 DEF WriteObject, WriteFails, Throws, Counted, ReservationKept
  <2>3. ReservationKept'
    BY <1>9 DEF WriteObject, WriteFails, Throws, ReservationKept
  <2>4. RowsBacked'
    BY <1>9 DEF WriteObject, WriteFails, Throws, RowsBacked, Counted
  <2>5. OwnedBacked'
    BY <1>9 DEF WriteObject, WriteFails, Throws, OwnedBacked
  <2>6. OkBacked'
    BY <1>9 DEF WriteObject, WriteFails, Throws, OkBacked, OwnedBacked, ReservationKept
  <2>7. WriteFits'
    BY <1>9 DEF WriteObject, WriteFails, Throws, WriteFits, ReservationKept
  <2>8. QuotaHolds'
    BY <1>9, QuotaShrinks DEF WriteObject, WriteFails, Throws, Counted, ReservationKept
  <2> QED
    BY <2>1, <2>2, <2>3, <2>4, <2>5, <2>6, <2>7, <2>8
<1>10. CASE SyncDirectory(p)
  <2>1. TypeOK'
    BY <1>10 DEF SyncDirectory, Throws, Failures
  <2>2. Counted'
    BY <1>10 DEF SyncDirectory, Throws, Counted, ReservationKept
  <2>3. ReservationKept'
    BY <1>10 DEF SyncDirectory, Throws, ReservationKept
  <2>4. RowsBacked'
    BY <1>10 DEF SyncDirectory, Throws, RowsBacked, Counted
  <2>5. OwnedBacked'
    BY <1>10 DEF SyncDirectory, Throws, OwnedBacked
  <2>6. OkBacked'
    BY <1>10 DEF SyncDirectory, Throws, OkBacked, OwnedBacked, ReservationKept
  <2>7. WriteFits'
    BY <1>10 DEF SyncDirectory, Throws, WriteFits, ReservationKept
  <2>8. QuotaHolds'
    BY <1>10, QuotaShrinks DEF SyncDirectory, Throws, Counted, ReservationKept
  <2> QED
    BY <2>1, <2>2, <2>3, <2>4, <2>5, <2>6, <2>7, <2>8
<1>11. CASE Grant(p)
  <2>1. TypeOK'
    BY <1>11 DEF Grant, Throws, Failures
  <2>2. Counted'
    BY <1>11 DEF Grant, Throws, Counted, ReservationKept
  <2>3. ReservationKept'
    BY <1>11 DEF Grant, Throws, ReservationKept
  <2>4. RowsBacked'
    BY <1>11 DEF Grant, Throws, RowsBacked, Counted
  <2>5. OwnedBacked'
    BY <1>11 DEF Grant, Throws, OwnedBacked
  <2>6. OkBacked'
    BY <1>11 DEF Grant, Throws, OkBacked, OwnedBacked, ReservationKept
  <2>7. WriteFits'
    BY <1>11 DEF Grant, Throws, WriteFits, ReservationKept
  <2>8. QuotaHolds'
    BY <1>11, QuotaShrinks DEF Grant, Throws, Counted, ReservationKept
  <2> QED
    BY <2>1, <2>2, <2>3, <2>4, <2>5, <2>6, <2>7, <2>8
<1>12. CASE Finally(p)
  <2>1. TypeOK'
    BY <1>12 DEF Finally, ReconcilePending, Failures
  <2>2. Counted'
    BY <1>12 DEF Finally, ReconcilePending, Counted, ReservationKept
  <2>3. ReservationKept'
    BY <1>12 DEF Finally, ReconcilePending, ReservationKept
  <2>4. RowsBacked'
    BY <1>12 DEF Finally, ReconcilePending, RowsBacked, Counted
  <2>5. OwnedBacked'
    BY <1>12 DEF Finally, ReconcilePending, OwnedBacked
  <2>6. OkBacked'
    BY <1>12 DEF Finally, ReconcilePending, OkBacked, OwnedBacked, ReservationKept
  <2>7. WriteFits'
    BY <1>12 DEF Finally, ReconcilePending, WriteFits, ReservationKept
  <2>8. QuotaHolds'
    BY <1>12, QuotaShrinks DEF Finally, ReconcilePending, Counted, ReservationKept
  <2> QED
    BY <2>1, <2>2, <2>3, <2>4, <2>5, <2>6, <2>7, <2>8
<1>13. CASE Rollback(p)
  <2>1. TypeOK'
    BY <1>13 DEF Rollback, Failures
  <2>2. Counted'
    BY <1>13 DEF Rollback, Counted, ReservationKept
  <2>3. ReservationKept'
    BY <1>13 DEF Rollback, ReservationKept
  <2>4. RowsBacked'
    BY <1>13 DEF Rollback, RowsBacked, Counted
  <2>5. OwnedBacked'
    BY <1>13 DEF Rollback, OwnedBacked
  <2>6. OkBacked'
    BY <1>13 DEF Rollback, OkBacked, OwnedBacked, ReservationKept
  <2>7. WriteFits'
    BY <1>13 DEF Rollback, WriteFits, ReservationKept
  <2>8. QuotaHolds'
    BY <1>13, QuotaShrinks DEF Rollback, Counted, ReservationKept
  <2> QED
    BY <2>1, <2>2, <2>3, <2>4, <2>5, <2>6, <2>7, <2>8
<1>14. CASE Crash(p)
  <2>1. TypeOK'
    BY <1>14 DEF Crash, LockAfterCrash, Failures
  <2>2. Counted'
    BY <1>14 DEF Crash, LockAfterCrash, Counted, ReservationKept
  <2>3. ReservationKept'
    BY <1>14 DEF Crash, LockAfterCrash, ReservationKept
  <2>4. RowsBacked'
    BY <1>14 DEF Crash, LockAfterCrash, RowsBacked, Counted
  <2>5. OwnedBacked'
    BY <1>14 DEF Crash, LockAfterCrash, OwnedBacked
  <2>6. OkBacked'
    BY <1>14 DEF Crash, LockAfterCrash, OkBacked, OwnedBacked, ReservationKept
  <2>7. WriteFits'
    BY <1>14 DEF Crash, LockAfterCrash, WriteFits, ReservationKept
  <2>8. QuotaHolds'
    BY <1>14, QuotaShrinks DEF Crash, LockAfterCrash, Counted, ReservationKept
  <2> QED
    BY <2>1, <2>2, <2>3, <2>4, <2>5, <2>6, <2>7, <2>8
<1> QED
  BY <1>2, <1>3, <1>4, <1>5, <1>6, <1>7, <1>8, <1>9, <1>10, <1>11, <1>12, <1>13, <1>14 DEF Publish

\* The inductive invariant holds in every reachable state.
THEOREM StoreCorrect == Spec => []StoreInv
<1>1. Init => StoreInv
  <2> SUFFICES ASSUME Init PROVE StoreInv
    OBVIOUS
  <2>1. TypeOK
    BY RtkStoreAssumption, NoServerAssumption DEF Init, TypeOK, Held, Failures
  <2>2. /\ Counted /\ ReservationKept /\ RowsBacked /\ OwnedBacked /\ OkBacked
        /\ WriteFits
    BY RtkStoreAssumption
       DEF Init, Counted, ReservationKept, RowsBacked, OwnedBacked, OkBacked, WriteFits, Rows
  <2>3. objects \cup Rows = Legacy /\ Legacy \in SUBSET Hashes
    BY RtkStoreAssumption DEF Init, Rows
  <2>4. QuotaHolds
    BY <2>3, BytesGrow DEF QuotaHolds, Allowance
  <2> QED
    BY <2>1, <2>2, <2>4 DEF StoreInv
<1> QED
  BY <1>1, StoreStep, PTL DEF Spec

\* Objects and reservations never exceed the limit (or what the root held at
\* first), for any number of servers crashing anywhere.
THEOREM QuotaAlwaysHolds == Spec => []QuotaHolds
<1>1. StoreInv => QuotaHolds
  BY DEF StoreInv
<1> QED
  BY <1>1, StoreCorrect, PTL

\* Nobody reclaims the reservation of a live publication.
THEOREM ReservationAlwaysKept == Spec => []ReservationKept
<1>1. StoreInv => ReservationKept
  BY DEF StoreInv
<1> QED
  BY <1>1, StoreCorrect, PTL

\* A compression reported as stored can be fetched by its session.
THEOREM StoredAlwaysFetchable == Spec => []StoredIsFetchable
<1>1. StoreInv => StoredIsFetchable
  BY DEF StoreInv, OkBacked, StoredIsFetchable
<1> QED
  BY <1>1, StoreCorrect, PTL

\* A publication is refused for lack of space only when there is none.
THEOREM RefusalsHonest == Spec => CapacityHonest
<1> DEFINE Honest == \A p \in Servers :
             failure[p] # "storage_capacity" /\ failure'[p] = "storage_capacity" =>
               Bytes(objects \cup {hash[p]}) > Limit
<1>1. StoreInv /\ [Next]_vars => [Honest]_vars
  <2> SUFFICES ASSUME StoreInv, Next, NEW p \in Servers,
                      failure[p] # "storage_capacity", failure'[p] = "storage_capacity"
               PROVE  Bytes(objects \cup {hash[p]}) > Limit
    OBVIOUS
  <2>1. Reserve(p) /\ hash[p] \notin Rows /\ ~Fits(hash[p])
    BY DEF Next, StoreInv, TypeOK, Start, Backfill, Ready, Compress, Begin, Reconcile, Reserve,
       WriteObject, WriteFails, SyncDirectory, Grant, Finally, Rollback, Crash, Throws
  <2>2. Rows = objects /\ Rows \in SUBSET Hashes /\ hash[p] \in Hashes
    BY <2>1 DEF StoreInv, TypeOK, Counted, RowsBacked, Rows, Reserve
  <2>3. Bytes(objects \cup {hash[p]}) = Bytes(Rows) + Size[hash[p]]
    BY <2>1, <2>2, BytesGrow
  <2> QED
    BY <2>1, <2>2, <2>3, BytesGrow DEF Fits
<1> QED
  BY <1>1, StoreCorrect, PTL DEF Spec, CapacityHonest

\* The servers, however many and whatever their interleaving, implement the
\* store QuotaStore describes.
THEOREM StoreImplementsPromise == Spec => ImplementsPromise
<1>1. Init => Promise!Init
  BY DEF Init, Promise!Init
<1>2. StoreInv /\ [Next]_vars => [Promise!Next]_(Promise!vars)
  <2> SUFFICES ASSUME StoreInv, [Next]_vars
               PROVE  [Promise!Next]_(Promise!vars)
    OBVIOUS
  <2>1. ASSUME NEW p \in Servers, WriteObject(p) PROVE [Promise!Next]_(Promise!vars)
    <3>1. CASE UNCHANGED <<objects, refs>>
      BY <3>1 DEF Promise!vars
    <3>2. CASE hash[p] \notin objects /\ objects' = objects \cup {hash[p]}
      <4>1. /\ hash[p] \in Hashes /\ refs' = refs
            /\ objects \cup {hash[p]} \subseteq Rows
        BY <2>1, <3>2 DEF WriteObject, StoreInv, TypeOK, Counted, ReservationKept
      <4>2. Bytes(objects \cup {hash[p]}) <= Limit
        BY <2>1, <3>2 DEF WriteObject, StoreInv, WriteFits
      <4> QED
        BY <3>2, <4>1, <4>2 DEF Promise!Next, Promise!Store
    <3> QED
      BY <2>1, <3>1, <3>2 DEF WriteObject, disk
  <2>2. ASSUME NEW p \in Servers, Grant(p) PROVE [Promise!Next]_(Promise!vars)
    <3>1. CASE UNCHANGED <<objects, refs>>
      BY <3>1 DEF Promise!vars
    <3>2. CASE refs' = refs \cup {<<session[p], hash[p]>>} /\ objects' = objects
      <4>1. session[p] \in Sessions /\ hash[p] \in Hashes /\ hash[p] \in objects
        BY <2>2 DEF Grant, StoreInv, TypeOK, OwnedBacked
      <4> QED
        BY <3>2, <4>1 DEF Promise!Next, Promise!Own
    <3> QED
      BY <2>2, <3>1, <3>2 DEF Grant, disk
  <2>3. CASE UNCHANGED <<objects, refs>>
    BY <2>3 DEF Promise!vars
  <2> QED
    BY <2>1, <2>2, <2>3 DEF Next, vars, disk, Start, Backfill, Ready, Compress, Begin,
       Reconcile, Reserve, SyncDirectory, Finally, Rollback, Crash
<1> QED
  BY <1>1, <1>2, StoreCorrect, PTL DEF Spec, ImplementsPromise, Promise!Spec
=============================================================================
