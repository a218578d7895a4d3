--------------------------- MODULE HeadroomStore ---------------------------
(***************************************************************************)
(* The archive of headroomd: the object directory, meta.db (attribution,   *)
(* layered nodes, manifests, views, cursors) and index.db (everything the  *)
(* search needs, derivable from the other two).                            *)
(*                                                                         *)
(* The two databases and the directory never commit together.  meta.db     *)
(* runs with synchronous=FULL, index.db with NORMAL: a power loss may roll *)
(* index.db back to its last WAL checkpoint.  One compress or candidate    *)
(* runs at a time (the engine's `tail`).  Retrieval is in HeadroomRetrieval. *)
(***************************************************************************)
EXTENDS Integers, FiniteSets, SequencesExt

CONSTANTS Namespaces,   \* (project, session) pairs
          Histories,    \* history hashes
          Hashes,       \* content hashes of messages
          Nodes,        \* layered node ids
          Messages,     \* the messages a history archives, in order
          SeqBase,      \* where the first of them stands in the host's history
          NodesOf,      \* the layered nodes a plan brings; {} for the legacy strategy
          Sources,      \* the messages a node cites
          Children,     \* the nodes a node was merged from
          CandidateOf,  \* the history of the enhanced plan of a base plan, or None
          Archives,     \* the <<namespace, history>> that sessions compress
          Views,        \* the <<namespace, history>> that plugins confirm as their view
          MaxFaults,    \* bound on damage to files, crashes and power losses
          None

ASSUME StoreAssumption ==
  /\ Messages \in [Histories -> Seq(Hashes)]
  /\ SeqBase \in [Histories -> Nat]
  /\ NodesOf \in [Histories -> SUBSET Nodes]
  /\ Sources \in [Nodes -> SUBSET Hashes]
  /\ Children \in [Nodes -> SUBSET Nodes]
  /\ CandidateOf \in [Histories -> Histories \cup {None}]
  /\ \A h \in Histories : CandidateOf[h] # None =>
       /\ Messages[CandidateOf[h]] = Messages[h] /\ SeqBase[CandidateOf[h]] = SeqBase[h]
       /\ \A n \in NodesOf[CandidateOf[h]] : Sources[n] = {} /\ Children[n] \subseteq NodesOf[h]
  /\ Archives \subseteq Namespaces \X Histories /\ Views \subseteq Namespaces \X Histories
  /\ \A a \in Archives : Messages[a[2]] # <<>>    \* nothing to archive is nothing to compress
  /\ None \notin Histories /\ None \notin [expected : Nat, skipped : Nat]
  /\ MaxFaults \in Nat

VARIABLES open,        \* an engine holds the writer lease and has opened the store
          objects,     \* the file of each hash: "absent", "ok", or "lost" or "corrupt" by damage
          casMeta,     \* meta.db: cas_meta, one row for each hash
          refs,        \* meta.db: archive_refs, <<namespace, history, msg_seq, hash>>
          nodes,       \* meta.db: layered_nodes, <<namespace, node>>
          manifests,   \* meta.db: archive_manifests, <<namespace, history>>
          views,       \* meta.db: active_views, the history of each namespace's view
          index,       \* index.db as committed
          checkpoint,  \* index.db as a power loss may leave it
          job,         \* the compress under way, or None
          damaged,     \* some object was ever damaged
          faults       \* damage, crashes and power losses so far

vars == <<open, objects, casMeta, refs, nodes, manifests, views, index, checkpoint,
          job, damaged, faults>>
meta == <<casMeta, refs, nodes, manifests, views>>
disk == <<objects, meta, index, checkpoint>>

EmptyIndex == [chunks |-> {}, chunkRefs |-> {}, histories |-> {},
               recorded |-> None, healthy |-> TRUE]

-----------------------------------------------------------------------------
(* Queries of the two databases. *)

HasHistoryMeta(ns, h) == \E r \in refs : r[1] = ns /\ r[2] = h
OwnsCasMeta(ns, hash) == \E r \in refs : r[1] = ns /\ r[4] = hash

\* chunk_refs keeps repeated occurrences of a message in one history once.
Logical(R) == {<<r[1], r[2], r[4]>> : r \in R}

\* searchChunks joins segments of chunks with the namespace's chunk_refs.
SearchHits(ns) ==
  {hash \in index.chunks : \E h \in Histories : <<ns, h, hash>> \in index.chunkRefs}

\* Only a present, undamaged object is ever returned.
Readable(hash) == objects[hash] = "ok"

\* Mutant: only the chunks are counted.
LostByChunks(ix) ==
  Cardinality(ix.chunks) < (IF ix.recorded = None THEN Cardinality(casMeta) ELSE ix.recorded.expected)

IndexLooksLost(ix) ==
  IF ix.recorded = None
    THEN \/ Cardinality(ix.chunks) < Cardinality(casMeta)
         \/ Cardinality(ix.chunkRefs) < Cardinality(Logical(refs))
    ELSE \/ Cardinality(ix.chunks) < ix.recorded.expected
         \/ Cardinality(ix.chunkRefs) + ix.recorded.skipped < Cardinality(Logical(refs))

\* schemaMismatch, a failed integrity check and a lost index lead to the same rebuild.
NeedsHeal(ix) == ~ix.healthy \/ IndexLooksLost(ix)

\* Mutant: rows whose object cannot be read are not recorded.
RebuildWithoutSkips ==
  LET resolved == {r \in refs : Readable(r[4])}
  IN [chunks |-> {r[4] : r \in resolved}, chunkRefs |-> Logical(resolved),
      histories |-> {r[2] : r \in resolved},
      recorded |-> [expected |-> Cardinality({r[4] : r \in resolved}), skipped |-> 0],
      healthy |-> TRUE]

RebuildFromObjects ==
  LET resolved == {r \in refs : Readable(r[4])}
      chunks   == {r[4] : r \in resolved}
  IN [chunks    |-> chunks,
      chunkRefs |-> Logical(resolved),
      histories |-> {r[2] : r \in resolved},
      recorded  |-> [expected |-> Cardinality(chunks),
                     skipped  |-> Cardinality(Logical(refs \ resolved))],
      healthy   |-> TRUE]

-----------------------------------------------------------------------------
(* The engine's life. *)

Init ==
  /\ open = FALSE
  /\ objects = [hash \in Hashes |-> "absent"]
  /\ casMeta = {} /\ refs = {} /\ nodes = {} /\ manifests = {}
  /\ views = [ns \in Namespaces |-> None]
  /\ index = EmptyIndex /\ checkpoint = EmptyIndex
  /\ job = None
  /\ damaged = FALSE /\ faults = 0

\* createEngine: lease, open both databases, rebuild the index when it looks lost.
\* The rebuild is one transaction, so a crash in it leaves the index as it was, and a
\* rebuild that the security inspection of the derived rows aborts changes nothing: the
\* engine does not open.  An object the inspection refuses is skipped like a corrupt one.
Start ==
  /\ ~open /\ open' = TRUE
  /\ index' = IF NeedsHeal(index) THEN RebuildFromObjects ELSE index
  /\ UNCHANGED <<objects, meta, checkpoint, job, damaged, faults>>

\* Whatever was in memory is gone.
Stopped ==
  /\ open /\ open' = FALSE
  /\ job' = None
  /\ UNCHANGED <<objects, meta, damaged>>

\* The last connection to index.db checkpoints it.
Close == Stopped /\ checkpoint' = index /\ UNCHANGED <<index, faults>>

Crash ==
  /\ faults < MaxFaults /\ faults' = faults + 1
  /\ Stopped
  /\ UNCHANGED <<index, checkpoint>>

PowerLoss ==
  /\ faults < MaxFaults /\ faults' = faults + 1
  /\ Stopped
  /\ index' = checkpoint
  /\ UNCHANGED checkpoint

\* SQLite checkpoints the WAL when it has grown.
Checkpoint ==
  /\ open /\ checkpoint # index /\ checkpoint' = index
  /\ UNCHANGED <<open, objects, meta, index, job, damaged, faults>>

-----------------------------------------------------------------------------
(* compress: objects, then meta.db, then index.db, then nodes and manifest.
   A refusal before the first write (nothing to gain, no capacity left) has
   no effect and is not a step. *)

\* The engine's tail: the operation before has ended.
MyTurn == open /\ job = None

\* Mutant: the rows of a known archive are taken for its objects.
CompressTrustsRows(ns, h) ==
  /\ MyTurn
  /\ job' = [ns |-> ns, hist |-> h, pc |-> IF HasHistoryMeta(ns, h) THEN "index" ELSE "objects",
             i |-> 1, known |-> h \in index.histories, hurt |-> {}]
  /\ UNCHANGED <<open, disk, damaged, faults>>

\* A history the index already knows takes the path of backfill, which differs in
\* writing the histories row outside the transaction of the derived rows.
Compress(ns, h) ==
  /\ MyTurn
  /\ job' = [ns |-> ns, hist |-> h, pc |-> "objects", i |-> 1,
              known |-> h \in index.histories,
              hurt  |-> {}]    \* messages whose object was damaged since
  /\ UNCHANGED <<open, disk, damaged, faults>>

\* Mutant: an object that was there is taken for an archive that is complete.
WriteObjectSkipsMeta ==
  /\ open /\ job # None /\ job.pc = "objects"
  /\ LET hash == Messages[job.hist][job.i]
     IN /\ objects[hash] # "corrupt"
        /\ objects' = [objects EXCEPT ![hash] = "ok"]
        /\ job' = IF objects[hash] = "ok" THEN [job EXCEPT !.pc = "index"]
                  ELSE IF job.i = Len(Messages[job.hist]) THEN [job EXCEPT !.pc = "meta"]
                  ELSE [job EXCEPT !.i = job.i + 1]
  /\ UNCHANGED <<open, meta, index, checkpoint, damaged, faults>>

\* writeMessageObject: publish a new object, or compare with the one that is there.
WriteObject ==
  /\ open /\ job # None /\ job.pc = "objects"
  /\ LET hash == Messages[job.hist][job.i]
     IN /\ objects[hash] # "corrupt"
        /\ objects' = [objects EXCEPT ![hash] = "ok"]
        /\ job' = IF job.i = Len(Messages[job.hist]) THEN [job EXCEPT !.pc = "meta"]
                  ELSE [job EXCEPT !.i = job.i + 1]
  /\ UNCHANGED <<open, meta, index, checkpoint, damaged, faults>>

\* The history hash covers every message before the archived ones, so a history has
\* one base; the legacy strategy archives from the start, its base is 0.
MsgSeq(h, i) == SeqBase[h] + i - 1
ArchiveRows(ns, h) == {<<ns, h, MsgSeq(h, i), Messages[h][i]>> : i \in 1..Len(Messages[h])}

\* INSERT OR IGNORE on the key (namespace, history, msg_seq).
WithRows(R, rows) ==
  R \cup {r \in rows : ~\E s \in R : s[1] = r[1] /\ s[2] = r[2] /\ s[3] = r[3]}

WriteMeta ==
  /\ open /\ job # None /\ job.pc = "meta"
  /\ casMeta' = casMeta \cup Range(Messages[job.hist])
  /\ refs' = WithRows(refs, ArchiveRows(job.ns, job.hist))
  /\ job' = [job EXCEPT !.pc = "index"]
  /\ UNCHANGED <<open, objects, nodes, manifests, views, index, checkpoint, damaged,
                 faults>>

\* Chunks and their segments are replaced, the references added.
InsertChunks(ix, ns, h, hashes) ==
  [ix EXCEPT !.chunks = @ \cup hashes, !.chunkRefs = @ \cup ({ns} \X {h} \X hashes)]
WriteDerivedRows(ix, ns, h) == InsertChunks(ix, ns, h, Range(Messages[h]))

WriteIndex ==
  /\ open /\ job # None /\ job.pc = "index"
  /\ index' = [WriteDerivedRows(index, job.ns, job.hist) EXCEPT
                 !.histories = IF job.known THEN @ ELSE @ \cup {job.hist}]
  /\ job' = [job EXCEPT !.pc = IF job.known THEN "history" ELSE "nodes"]
  /\ UNCHANGED <<open, objects, meta, checkpoint, damaged, faults>>

UpsertHistory ==
  /\ open /\ job # None /\ job.pc = "history"
  /\ index' = [index EXCEPT !.histories = @ \cup {job.hist}]
  /\ job' = [job EXCEPT !.pc = "nodes"]
  /\ UNCHANGED <<open, objects, meta, checkpoint, damaged, faults>>

\* saveNodes throws unless the namespace owns the sources and has the children.
CanSaveNodes(ns, N) ==
  \A n \in N : /\ \A hash \in Sources[n] : OwnsCasMeta(ns, hash)
               /\ \A c \in Children[n] : c \in N \/ <<ns, c>> \in nodes

SaveNodes ==
  /\ open /\ job # None /\ job.pc = "nodes"
  /\ CanSaveNodes(job.ns, NodesOf[job.hist])
  /\ nodes' = nodes \cup ({job.ns} \X NodesOf[job.hist])
  /\ job' = [job EXCEPT !.pc = "manifest"]
  /\ UNCHANGED <<open, objects, casMeta, refs, manifests, views, index, checkpoint,
                 damaged, faults>>

\* The last write; compress then returns the plan.
SaveManifest ==
  /\ open /\ job # None /\ job.pc = "manifest"
  /\ manifests' = manifests \cup {<<job.ns, job.hist>>}
  /\ job' = None
  /\ UNCHANGED <<open, objects, casMeta, refs, nodes, views, index, checkpoint, damaged,
                 faults>>

\* Different bytes under the hash of a message, or any failed write: compress throws
\* and leaves what it has written.
CompressFails ==
  /\ open /\ job # None /\ job' = None
  /\ \/ /\ job.pc = "objects" /\ objects[Messages[job.hist][job.i]] = "corrupt"
        /\ UNCHANGED faults
     \/ faults < MaxFaults /\ faults' = faults + 1
  /\ UNCHANGED <<open, disk, damaged>>

-----------------------------------------------------------------------------
(* Views and enhanced candidates: one meta.db transaction each. *)

\* Called outside the tail, so also in the middle of a compress.
SetView(ns, h) ==
  /\ open /\ <<ns, h>> \in manifests
  /\ views' = [views EXCEPT ![ns] = h]
  /\ UNCHANGED <<open, objects, casMeta, refs, nodes, manifests, index, checkpoint, job,
                 damaged, faults>>

ClearView(ns) ==
  /\ open
  /\ views' = [views EXCEPT ![ns] = None]
  /\ UNCHANGED <<open, objects, casMeta, refs, nodes, manifests, index, checkpoint, job,
                 damaged, faults>>

\* The one node of a candidate is a summary of leaves of its base; it cites them and no message.
Evidence(h) == UNION {Children[n] : n \in NodesOf[h]}

\* The rows of one history once more, under the hash of another.
LinkHistoryMeta(ns, from, to) ==
  WithRows(refs, {<<ns, to, r[3], r[4]>> : r \in {s \in refs : s[1] = ns /\ s[2] = from}})

\* The transaction of coordinator.candidate; index.db is not touched.
LinkCandidate(ns, base) ==
  LET target == CandidateOf[base]
  IN /\ MyTurn
     /\ target # None /\ <<ns, base>> \in manifests
     /\ \A leaf \in Evidence(target) : \A hash \in Sources[leaf] : Readable(hash)
     /\ CanSaveNodes(ns, NodesOf[target]) /\ HasHistoryMeta(ns, base)
     /\ nodes' = nodes \cup ({ns} \X NodesOf[target])
     /\ refs' = LinkHistoryMeta(ns, base, target)
     /\ manifests' = manifests \cup {<<ns, target>>}
     /\ UNCHANGED <<open, objects, casMeta, views, index, checkpoint, job, damaged,
                    faults>>

-----------------------------------------------------------------------------
(* Damage from outside. *)

DamageObject(hash, how) ==
  /\ faults < MaxFaults /\ faults' = faults + 1
  /\ objects[hash] = "ok"
  /\ objects' = [objects EXCEPT ![hash] = how]
  /\ damaged' = TRUE
  /\ job' = IF job = None THEN None ELSE [job EXCEPT !.hurt = @ \cup {hash}]
  /\ UNCHANGED <<open, meta, index, checkpoint>>

\* index.db was removed or is moved aside as unreadable, or fails its integrity check.
DamageIndex ==
  /\ faults < MaxFaults /\ faults' = faults + 1
  /\ ~open
  /\ index' \in {EmptyIndex, [index EXCEPT !.healthy = FALSE]}
  /\ checkpoint' = index'
  /\ UNCHANGED <<open, objects, meta, job, damaged>>

CompressStep ==
  \/ \E a \in Archives : Compress(a[1], a[2])
  \/ WriteObject \/ WriteMeta \/ WriteIndex \/ UpsertHistory \/ SaveNodes \/ SaveManifest
  \/ CompressFails

ViewStep ==
  \/ \E v \in Views : SetView(v[1], v[2])
  \/ \E a \in Archives : LinkCandidate(a[1], a[2])
  \/ \E ns \in Namespaces : ClearView(ns)

FaultStep ==
  \/ Crash \/ PowerLoss \/ DamageIndex
  \/ \E hash \in Hashes, how \in {"lost", "corrupt"} : DamageObject(hash, how)

Next == Start \/ Close \/ Checkpoint \/ CompressStep \/ ViewStep \/ FaultStep

Spec == Init /\ [][Next]_vars

-----------------------------------------------------------------------------
(* Properties *)

TypeOK ==
  /\ open \in BOOLEAN
  /\ objects \in [Hashes -> {"absent", "ok", "lost", "corrupt"}]
  /\ casMeta \subseteq Hashes
  /\ refs \subseteq Namespaces \X Histories \X Nat \X Hashes
  /\ nodes \subseteq Namespaces \X Nodes
  /\ manifests \subseteq Namespaces \X Histories
  /\ views \in [Namespaces -> Histories \cup {None}]
  /\ damaged \in BOOLEAN /\ faults \in 0..MaxFaults

(* A search never shows a session a message that meta.db does not attribute
   to it, whatever crash, power loss or rebuild came between the two
   databases (persistArchive writes attribution before the index). *)
SearchIsOwned ==
  \A ns \in Namespaces : \A hash \in SearchHits(ns) : OwnsCasMeta(ns, hash)

(* A plan that was published, and so every view, has all its attribution rows
   in the order of the messages, its nodes with their sources and children,
   and its objects, unless a file was damaged from outside.  A compress about to
   publish has every object on disk, also when the archive was known and an
   object had been lost before: a replay revalidates the objects instead of
   trusting the rows (backfill). *)
Backed ==
  /\ \A m \in manifests :
       /\ ArchiveRows(m[1], m[2]) \subseteq refs
       /\ \A hash \in Range(Messages[m[2]]) : objects[hash] # "absent"
       /\ ({m[1]} \X NodesOf[m[2]]) \subseteq nodes
  /\ \A n \in nodes : CanSaveNodes(n[1], {n[2]})
  /\ \A ns \in Namespaces : views[ns] # None => <<ns, views[ns]>> \in manifests
  /\ (job # None /\ job.pc = "manifest") =>
       \A hash \in Range(Messages[job.hist]) : Readable(hash) \/ hash \in job.hurt

(* While no object was ever damaged, an engine that has started finds every
   archived message by search, whatever part of an archive a crash cut off and
   however far a power loss rolled index.db back (indexLooksLost). *)
HealCompletes ==
  [][(~open /\ open' /\ ~damaged) =>
       index'.chunkRefs = Logical(refs) /\ index'.chunks = {r[4] : r \in refs}]_vars

(* The state an engine has started from needs no rebuild at the next start,
   also when objects are missing: no rebuild on every boot (rebuild_state). *)
HealConverges == [][(~open /\ open') => ~NeedsHeal(index')]_vars
=============================================================================
