------------------------------ MODULE RtkStore ------------------------------
(***************************************************************************)
(* The durable store of the rtk servers: the object directory of           *)
(* packages/shared/src/cas.ts, the ledger and the writer lock of           *)
(* packages/rtk/src/ownership.ts, and the publication that                 *)
(* packages/rtk/src/engine.ts makes of each compression.                   *)
(*                                                                         *)
(* Several server processes (one per host session) share a store root.     *)
(* Each runs one publication at a time (storageTail); an action is one     *)
(* SQLite transaction or one file-system call, so the steps of two         *)
(* servers interleave and a server may crash between any two.  Statements  *)
(* and calls that can fail (a busy database, a full disk) may fail.        *)
(*                                                                         *)
(* An object is its hash; equal hashes have equal bytes.  Temporary files  *)
(* are left out: they never carry an object's name.                        *)
(***************************************************************************)
EXTENDS Naturals

CONSTANTS
  Servers, Sessions, Hashes,
  Legacy,     \* objects the store root held before the ledger existed
  Size,       \* the bytes of each object
  Bytes(_),   \* the bytes of a set of objects: SUM(size)
  Limit       \* maxStorageBytes

ASSUME RtkStoreAssumption ==
  /\ Legacy \subseteq Hashes /\ Limit \in Nat /\ Size \in [Hashes -> Nat]
  /\ \A S \in SUBSET Hashes : Bytes(S) \in Nat
  /\ \A S \in SUBSET Hashes : \A h \in Hashes \ S : Bytes(S \cup {h}) = Bytes(S) + Size[h]
  /\ \A S, T \in SUBSET Hashes : S \subseteq T => Bytes(S) <= Bytes(T)

NoServer == "no server"

ASSUME NoServerAssumption == NoServer \notin Servers

VARIABLES
  objects,    \* the files under <dataDir>/objects
  unsynced,   \* those whose directory entry was never synced
  pending, published,  \* rtk_storage, by the column state
  refs,       \* rtk_refs
  writer,     \* who holds the exclusive transaction on rtk-writer.db
  pc,         \* where each server is
  scan,       \* existingObjects each starting server has yet to backfill
  session, hash,       \* parsed.sessionId and expectedHex of its compression
  failure     \* what its latest publication returned

disk == <<objects, unsynced>>
ledger == <<pending, published>>
job == <<session, hash>>
vars == <<disk, ledger, refs, writer, pc, scan, job, failure>>

Rows == pending \cup published

Held == {"reconcile", "reserve", "write", "sync", "grant", "finally", "rollback"}
Failures == {"none", "ok", "storage_capacity", "storage_error"}

\* Every variable has its type, a row has one state, and the lock is held by
\* exactly the server inside publish().
TypeOK ==
  /\ objects \in SUBSET Hashes /\ unsynced \in SUBSET objects
  /\ pending \in SUBSET Hashes /\ published \in SUBSET (Hashes \ pending)
  /\ refs \in SUBSET (Sessions \X Hashes)
  /\ writer \in Servers \cup {NoServer}
  /\ pc \in [Servers -> {"down", "starting", "idle", "begin"} \cup Held]
  /\ scan \in [Servers -> SUBSET Hashes]
  /\ session \in [Servers -> Sessions] /\ hash \in [Servers -> Hashes]
  /\ failure \in [Servers -> Failures]
  /\ \A p \in Servers : writer = p <=> pc[p] \in Held

Init ==
  /\ objects = Legacy /\ unsynced = {}
  /\ pending = {} /\ published = {}
  /\ refs \in SUBSET (Sessions \X Legacy)
  /\ writer = NoServer
  /\ pc = [p \in Servers |-> "down"]
  /\ scan = [p \in Servers |-> {}]
  /\ session \in [Servers -> Sessions] /\ hash \in [Servers -> Hashes]
  /\ failure = [p \in Servers |-> "none"]

-----------------------------------------------------------------------------

Goto(p, label) == pc' = [pc EXCEPT ![p] = label]

\* The step throws: publish() goes to its finally clause with an error.
Throws(p) ==
  /\ Goto(p, "finally")
  /\ failure' = [failure EXCEPT ![p] = "storage_error"]

\* createEngine() lists the objects there are.
Start(p) ==
  /\ pc[p] = "down"
  /\ Goto(p, "starting")
  /\ scan' = [scan EXCEPT ![p] = objects]
  /\ UNCHANGED <<disk, ledger, refs, writer, job, failure>>

\* reserve() of an object already there, without a limit.
Backfill(p, h) ==
  /\ pc[p] = "starting" /\ h \in scan[p]
  /\ pending' = IF h \in Rows THEN pending ELSE pending \cup {h}
  /\ scan' = [scan EXCEPT ![p] = @ \ {h}]
  /\ UNCHANGED <<disk, published, refs, writer, pc, job, failure>>

\* Mutant: a starting server reclaims the pending rows without the lock.
ReclaimOnStart == pending \cap objects

\* What startup leaves of the pending rows: all of them, they may be somebody's.
PendingAfterStart == pending

\* createEngine() returns.
Ready(p) ==
  /\ pc[p] = "starting" /\ scan[p] = {}
  /\ Goto(p, "idle")
  /\ pending' = PendingAfterStart
  /\ UNCHANGED <<disk, published, refs, writer, scan, job, failure>>

\* The next compression of this server reaches the store.
Compress(p, s, h) ==
  /\ pc[p] = "idle"
  /\ Goto(p, "begin")
  /\ session' = [session EXCEPT ![p] = s] /\ hash' = [hash EXCEPT ![p] = h]
  /\ failure' = [failure EXCEPT ![p] = "none"]
  /\ UNCHANGED <<disk, ledger, refs, writer, scan>>

\* Mutant: the lock is waited for without a timeout.
BeginWaits(p) ==
  /\ pc[p] = "begin" /\ writer = NoServer
  /\ writer' = p
  /\ Goto(p, "reconcile")
  /\ UNCHANGED <<disk, ledger, refs, scan, job, failure>>

\* BEGIN EXCLUSIVE.  Another server's lock, held longer than busy_timeout,
\* makes it throw before the try block.
Begin(p) ==
  /\ pc[p] = "begin"
  /\ \/ /\ writer = NoServer
        /\ writer' = p
        /\ Goto(p, "reconcile")
        /\ UNCHANGED failure
     \/ /\ writer # NoServer
        /\ Goto(p, "idle")
        /\ failure' = [failure EXCEPT ![p] = "storage_error"]
        /\ UNCHANGED writer
  /\ UNCHANGED <<disk, ledger, refs, scan, job>>

\* Mutant: rows of abandoned publications are kept.
KeepAbandoned ==
  /\ published' = published \cup (pending \cap objects)
  /\ pending' = pending \ objects

\* reconcilePending(): a pending row is published if its object is there and
\* dropped if it is not.  Rows leave the ledger only under the lock, so the list
\* read before the transaction is still good inside it.
ReconcilePending ==
  /\ published' = published \cup (pending \cap objects)
  /\ pending' = {}

\* The first thing publish() does.
Reconcile(p) ==
  /\ pc[p] = "reconcile"
  /\ \/ ReconcilePending /\ Goto(p, "reserve") /\ UNCHANGED failure
     \/ Throws(p) /\ UNCHANGED ledger
  /\ UNCHANGED <<disk, refs, writer, scan, job>>

\* Mutant: only what is already used is compared with the limit.
FitsBefore(h) == Bytes(Rows) <= Limit

\* The bytes of every row and of the new one are within the limit.
Fits(h) == Bytes(Rows) + Size[h] <= Limit

\* reserve(): a row for the object is there already, or fits, or is refused.
Reserve(p) ==
  /\ pc[p] = "reserve"
  /\ \/ /\ hash[p] \in Rows
        /\ Goto(p, "write")
        /\ UNCHANGED <<pending, failure>>
     \/ /\ hash[p] \notin Rows /\ Fits(hash[p])
        /\ pending' = pending \cup {hash[p]}
        /\ Goto(p, "write")
        /\ UNCHANGED failure
     \/ /\ hash[p] \notin Rows /\ ~Fits(hash[p])
        /\ Goto(p, "finally")
        /\ failure' = [failure EXCEPT ![p] = "storage_capacity"]
        /\ UNCHANGED pending
     \/ Throws(p) /\ UNCHANGED pending
  /\ UNCHANGED <<disk, published, refs, writer, scan, job>>

\* Mutant: a failed write goes on to the grant.
WriteErrorIgnored(p) == Goto(p, "grant") /\ UNCHANGED failure

\* The temporary file or the link could not be made.
WriteFails(p) == Throws(p)

\* writeObject(): an object that is there is compared and left alone; a new one
\* is written to a temporary file and linked under its name.
WriteObject(p) ==
  /\ pc[p] = "write"
  /\ \/ /\ hash[p] \in objects
        /\ Goto(p, "grant")
        /\ UNCHANGED <<disk, failure>>
     \/ /\ hash[p] \notin objects
        /\ objects' = objects \cup {hash[p]}
        /\ unsynced' = unsynced \cup {hash[p]}
        /\ Goto(p, "sync")
        /\ UNCHANGED failure
     \/ WriteFails(p) /\ UNCHANGED disk
  /\ UNCHANGED <<ledger, refs, writer, scan, job>>

\* writeObject() syncs the directory of the new name.
SyncDirectory(p) ==
  /\ pc[p] = "sync"
  /\ \/ /\ unsynced' = unsynced \ {hash[p]}
        /\ Goto(p, "grant")
        /\ UNCHANGED failure
     \/ Throws(p) /\ UNCHANGED unsynced
  /\ UNCHANGED <<objects, ledger, refs, writer, scan, job>>

\* grant().
Grant(p) ==
  /\ pc[p] = "grant"
  /\ \/ /\ refs' = refs \cup {<<session[p], hash[p]>>}
        /\ Goto(p, "finally")
        /\ failure' = [failure EXCEPT ![p] = "ok"]
     \/ Throws(p) /\ UNCHANGED refs
  /\ UNCHANGED <<disk, ledger, writer, scan, job>>

\* Mutant: publish() ends without reconciling.
FinallyQuiet(p) ==
  /\ pc[p] = "finally"
  /\ Goto(p, "rollback")
  /\ UNCHANGED <<disk, ledger, refs, writer, scan, job, failure>>

\* The finally clause reconciles again; its own failure replaces the result.
Finally(p) ==
  /\ pc[p] = "finally"
  /\ Goto(p, "rollback")
  /\ \/ ReconcilePending /\ UNCHANGED failure
     \/ /\ failure' = [failure EXCEPT ![p] = "storage_error"]
        /\ UNCHANGED ledger
  /\ UNCHANGED <<disk, refs, writer, scan, job>>

\* ROLLBACK of the lock's transaction; publish() returns.
Rollback(p) ==
  /\ pc[p] = "rollback"
  /\ writer' = NoServer
  /\ Goto(p, "idle")
  /\ UNCHANGED <<disk, ledger, refs, scan, job, failure>>

\* SQLite's lock is the operating system's: it goes with the process.
LockAfterCrash(p) == IF writer = p THEN NoServer ELSE writer

\* The process ends, in the middle of anything.
Crash(p) ==
  /\ pc[p] # "down"
  /\ Goto(p, "down")
  /\ writer' = LockAfterCrash(p)
  /\ scan' = [scan EXCEPT ![p] = {}]
  /\ failure' = [failure EXCEPT ![p] = "none"]
  /\ UNCHANGED <<disk, ledger, refs, job>>

-----------------------------------------------------------------------------

\* The steps of the publication under way.
Publish(p) ==
  \/ Begin(p) \/ Reconcile(p) \/ Reserve(p) \/ WriteObject(p)
  \/ SyncDirectory(p) \/ Grant(p) \/ Finally(p) \/ Rollback(p)

Next ==
  \E p \in Servers :
    \/ Start(p)
    \/ \E h \in Hashes : Backfill(p, h)
    \/ Ready(p)
    \/ \E s \in Sessions, h \in Hashes : Compress(p, s, h)
    \/ Begin(p)
    \/ Reconcile(p)
    \/ Reserve(p)
    \/ WriteObject(p)
    \/ SyncDirectory(p)
    \/ Grant(p)
    \/ Finally(p)
    \/ Rollback(p)
    \/ Crash(p)

Spec == Init /\ [][Next]_vars

\* A server that has begun a publication goes on with it until it crashes.
FairSpec == Spec /\ \A p \in Servers : WF_vars(Publish(p))

-----------------------------------------------------------------------------
(***************************************************************************)
(* Properties.                                                             *)
(***************************************************************************)

\* The bytes a store may come to hold: the limit, or what it started with.
Allowance == IF Bytes(Legacy) > Limit THEN Bytes(Legacy) ELSE Limit

\* Uncounted bytes cannot appear: objects and live reservations together stay
\* within the limit, whoever crashes where (ownership.ts reserve, engine.ts).
QuotaHolds == Bytes(objects \cup Rows) <= Allowance

\* No server reclaims the reservation another one is about to fill
\* (reconcilePending, the lock of publish, the backfill of createEngine).
ReservationKept ==
  \A p \in Servers : pc[p] \in {"write", "sync", "grant"} =>
    writer = p /\ hash[p] \in Rows

\* A publication is refused for lack of space only when there is none: a
\* reservation abandoned by a crash never counts (reconcilePending, reserve).
CapacityHonest ==
  [][\A p \in Servers :
       failure[p] # "storage_capacity" /\ failure'[p] = "storage_capacity" =>
         Bytes(objects \cup {hash[p]}) > Limit]_vars

\* A compression reported as stored can be fetched by its session, and its bytes
\* are counted as published for good (publish, grant, the finally clause).
StoredIsFetchable ==
  \A p \in Servers : pc[p] = "idle" /\ failure[p] = "ok" =>
    /\ <<session[p], hash[p]>> \in refs
    /\ hash[p] \in objects \cap published

\* The servers together implement the store their callers are promised.
Promise == INSTANCE QuotaStore WITH stored <- objects, owned <- refs
ImplementsPromise == Promise!Spec

\* The lock does not stay with anybody, and a publication comes to an end
\* (publish's finally clause, busy_timeout).
PublicationEnds ==
  \A p \in Servers : pc[p] \notin {"down", "starting", "idle"} ~> pc[p] \in {"down", "idle"}

\* What docs/architecture.md says of publication: the directory of a new object
\* is synced before its ownership is granted.
OwnedIsDurable == \A r \in refs : r[2] \notin unsynced
=============================================================================
