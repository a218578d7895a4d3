----------------------------- MODULE Migration -----------------------------
(***************************************************************************)
(* The offline migrations of a legacy store to storage-v2: RTK's           *)
(* (rtk/src/migration.ts) copies row by row, headroom's                    *)
(* (headroomd/src/migration.ts) copies everything, verifies it and renames *)
(* projects.  Both take a lock file, work in a stage directory of their    *)
(* own and publish it with one rename.  Two invocations race each other    *)
(* and a version 2 server that opens, and so creates, the target.          *)
(***************************************************************************)
EXTENDS Naturals, FiniteSets

CONSTANTS Migrators,    \* invocations
          Kinds,        \* "rtk", "headroom"
          Rows,         \* rows of the legacy ledger: <<session or project, hash>>
          Identities,   \* what an invocation asks for: a project, or a project mapping
          Mapping,      \* headroom: the project mapping of an identity
          StoreQuota,   \* objects that fit the quota
          MaxMishaps    \* bound on crashes and on invocations repeated

VARIABLES store,      \* "rtk" or "headroom", "none" before there is a legacy store
          legacy,     \* the hashes whose legacy object can be read
          lock,       \* the owner of the lock file, "left" by a dead one, or "none"
          target,     \* what is at the target path
          migrators,  \* one record per invocation
          mishaps

migrationVars == <<store, legacy, lock, target, migrators, mishaps>>

Absent == [kind |-> "absent", id |-> "none", rows |-> {}, objects |-> {}]
Hash(row) == row[2]
Idle == [pc |-> "idle", id |-> "none", rows |-> {}, objects |-> {}, result |-> "none"]

MigrationInit ==
  /\ store = "none" /\ legacy = {}
  /\ lock = "none" /\ target = Absent /\ mishaps = 0
  /\ migrators = [m \in Migrators |-> Idle]
\* A version 1 program has left a store, some of whose objects may be damaged.
LegacyStore ==
  /\ store = "none" /\ store' \in Kinds
  /\ legacy' \in SUBSET {Hash(r) : r \in Rows}
  /\ UNCHANGED <<lock, target, migrators, mishaps>>

Move(m, pc) == migrators' = [migrators EXCEPT ![m].pc = pc]
Conclude(m, result) ==
  migrators' = [migrators EXCEPT ![m].pc = "finally", ![m].result = result]

\* open(lockPath, "wx"); EEXIST ends the invocation before the try.
TakeLock(m) ==
  /\ store # "none" /\ migrators[m].pc = "idle"
  /\ \E id \in Identities : migrators' = [migrators EXCEPT
       ![m].id = id,
       ![m].pc = IF lock = "none" THEN "check" ELSE "end",
       ![m].result = IF lock = "none" THEN @ ELSE "error"]
  /\ lock' = IF lock = "none" THEN m ELSE lock
  /\ UNCHANGED <<store, legacy, target, mishaps>>

\* A marker of the same identity: nothing to do.  Any other target is refused.
Check(m) ==
  /\ migrators[m].pc = "check"
  /\ CASE target.kind = "migrated" ->
            Conclude(m, IF target.id = migrators[m].id THEN "already" ELSE "error")
       [] target.kind \in {"empty", "live"} -> Conclude(m, "error")
       [] OTHER -> Move(m, "copy")
  /\ UNCHANGED <<store, legacy, lock, target, mishaps>>

\* Mutant: a row is granted also when its object is missing.
CopyRowWithoutObject(m) ==
  LET mig == migrators[m]
      left == {row \in Rows : ~\E r \in mig.rows : r[1] = row}
  IN /\ mig.pc = "copy" /\ store = "rtk"
     /\ \/ left = {} /\ Move(m, "mark")
        \/ \E row \in left :
             migrators' = [migrators EXCEPT ![m].objects = @ \cup ({Hash(row)} \cap legacy),
                                            ![m].rows = @ \cup {<<row, mig.id, row[1]>>}]
     /\ UNCHANGED <<store, legacy, lock, target, mishaps>>

\* RTK: read, reserve and write the object of a row unless it is copied already, then
\* grant it to the session in its project.  A missing object or a full quota throws.
CopyRow(m) ==
  LET mig == migrators[m]
      left == {row \in Rows : ~\E r \in mig.rows : r[1] = row}
  IN /\ mig.pc = "copy" /\ store = "rtk"
     /\ \/ left = {} /\ Move(m, "mark")
        \/ \E row \in left :
             IF Hash(row) \in mig.objects
                  \/ (Hash(row) \in legacy /\ Cardinality(mig.objects) < StoreQuota)
               THEN migrators' = [migrators EXCEPT
                      ![m].objects = @ \cup {Hash(row)},
                      ![m].rows = @ \cup {<<row, mig.id, row[1]>>}]
               ELSE Conclude(m, "error")
     /\ UNCHANGED <<store, legacy, lock, target, mishaps>>

\* Headroom: copy the ledger and the objects, then check the quota and every row.
CopyAll(m) ==
  /\ migrators[m].pc = "copy" /\ store = "headroom"
  /\ IF \/ Cardinality(legacy) > StoreQuota
        \/ \E row \in Rows : Hash(row) \notin legacy
       THEN Conclude(m, "error")
       ELSE migrators' = [migrators EXCEPT ![m].pc = "map", ![m].objects = legacy,
                                           ![m].rows = {<<row, "name", row[1]>> : row \in Rows}]
  /\ UNCHANGED <<store, legacy, lock, target, mishaps>>

\* One transaction of two passes: every renamed project gets a temporary name of its own,
\* then the name asked for.  A project without rows is refused.
Apart(rows, mapping) ==
  {IF r[3] \in DOMAIN mapping THEN <<r[1], "temp", r[3]>> ELSE r : r \in rows}
Together(rows, mapping) ==
  {IF r[2] = "temp" THEN <<r[1], "name", mapping[r[3]]>> ELSE r : r \in rows}
MapProjects(m) ==
  LET mapping == Mapping[migrators[m].id]
  IN /\ migrators[m].pc = "map"
     /\ IF \E p \in DOMAIN mapping : ~\E row \in Rows : row[1] = p
          THEN Conclude(m, "error")
          ELSE migrators' = [migrators EXCEPT ![m].pc = "mark",
                               ![m].rows = Together(Apart(@, mapping), mapping)]
     /\ UNCHANGED <<store, legacy, lock, target, mishaps>>

\* migration.json is written and the quota checked again with the metadata (for headroom
\* after the index was built), which may be too much.
Mark(m) ==
  /\ migrators[m].pc = "mark"
  /\ Move(m, "rename") \/ Conclude(m, "error")
  /\ UNCHANGED <<store, legacy, lock, target, mishaps>>

\* rename(stage, target) replaces nothing or an empty directory, and fails otherwise; the
\* sync of the parent may fail after it, and the error is reported although the store is
\* there (the next invocation finds it migrated).
Publish(m) ==
  LET mig == migrators[m]
  IN /\ mig.pc = "rename"
     /\ IF target.kind \in {"absent", "empty"}
          THEN /\ target' = [kind |-> "migrated", id |-> mig.id, rows |-> mig.rows,
                             objects |-> mig.objects]
               /\ Conclude(m, "migrated") \/ Conclude(m, "error")
          ELSE UNCHANGED target /\ Conclude(m, "error")
     /\ UNCHANGED <<store, legacy, lock, mishaps>>

\* finally: the lock goes first, then whatever is left of the stage.
Finally(m) ==
  /\ migrators[m].pc = "finally"
  /\ Move(m, "end") /\ lock' = "none"
  /\ UNCHANGED <<store, legacy, target, mishaps>>

\* The process dies: its lock file and its stage stay behind.
Dies(m) ==
  /\ mishaps < MaxMishaps /\ mishaps' = mishaps + 1
  /\ migrators[m].pc \notin {"idle", "end"}
  /\ Move(m, "end") /\ lock' = "left"
  /\ UNCHANGED <<store, legacy, target>>

\* The migration is run again, the left lock file removed by hand or not.
RunAgain(m) ==
  /\ mishaps < MaxMishaps /\ mishaps' = mishaps + 1
  /\ migrators[m].pc = "end"
  /\ migrators' = [migrators EXCEPT ![m] = Idle]
  /\ lock' \in {lock, IF lock = "left" THEN "none" ELSE lock}
  /\ UNCHANGED <<store, legacy, target>>

\* A version 2 server creates its directory, then its database in what is there.
ServerStarts ==
  /\ target' = CASE target.kind = "absent" -> [Absent EXCEPT !.kind = "empty"]
                 [] target.kind = "empty" -> [Absent EXCEPT !.kind = "live"]
                 [] OTHER -> target
  /\ store # "none" /\ target' # target
  /\ UNCHANGED <<store, legacy, lock, migrators, mishaps>>

MigrationNext ==
  \/ LegacyStore \/ ServerStarts
  \/ \E m \in Migrators : \/ TakeLock(m) \/ Check(m) \/ CopyRow(m) \/ CopyAll(m) \/ MapProjects(m)
                          \/ Mark(m) \/ Publish(m) \/ Finally(m) \/ Dies(m) \/ RunAgain(m)

MigrationSpec == MigrationInit /\ [][MigrationNext]_migrationVars

-----------------------------------------------------------------------------
(* Properties *)

\* The row a migration owes for a row of the ledger: exchanged projects are exchanged.
Owed(id, row) ==
  IF store = "rtk" THEN <<row, id, row[1]>>
  ELSE <<row, "name", IF row[1] \in DOMAIN Mapping[id] THEN Mapping[id][row[1]] ELSE row[1]>>

(* A store that says it is migrated has every row of the ledger under the owner
   asked for, and every object, whichever invocations, crashes and servers raced
   for the target; an invocation that reports success finds its own there. *)
MigratedIsComplete ==
  /\ target.kind = "migrated" =>
       /\ target.rows = {Owed(target.id, row) : row \in Rows}
       /\ {Hash(row) : row \in Rows} \subseteq target.objects
  /\ \A m \in Migrators : migrators[m].result \in {"migrated", "already"} =>
       target.kind = "migrated" /\ target.id = migrators[m].id
=============================================================================
