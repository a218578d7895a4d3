------------------------ MODULE HeadroomStoreProofs ------------------------
(***************************************************************************)
(* Proofs about HeadroomStore for any number of sessions, histories,       *)
(* messages and nodes and any number of faults: what a search shows is     *)
(* owned, and what is published is backed.                                 *)
(***************************************************************************)
EXTENDS HeadroomStore, FiniteSetTheorems, TLAPS

JobType ==
  [ns : Namespaces, hist : Histories, i : Nat, known : BOOLEAN, hurt : SUBSET Hashes,
   pc : {"objects", "meta", "index", "history", "nodes", "manifest"}]

\* What index.db may hold; counts are those of sets of hashes and of references.
References == Namespaces \X Histories \X Hashes
Recorded ==
  {None} \cup [expected : {Cardinality(c) : c \in SUBSET Hashes},
               skipped  : {Cardinality(c) : c \in SUBSET References}]
IndexType ==
  [chunks : SUBSET Hashes, chunkRefs : SUBSET References, histories : SUBSET Histories,
   recorded : Recorded, healthy : BOOLEAN]

StateShape ==
  /\ objects \in [Hashes -> {"absent", "ok", "lost", "corrupt"}]
  /\ views \in [Namespaces -> Histories \cup {None}]
  /\ refs \subseteq Namespaces \X Histories \X Nat \X Hashes
  /\ manifests \subseteq Namespaces \X Histories
  /\ nodes \subseteq Namespaces \X Nodes
  /\ index \in IndexType /\ checkpoint \in IndexType
  /\ job # None => job \in JobType /\ <<job.ns, job.hist>> \in Archives

\* index.db, and what a power loss may leave of it, refers only to rows of meta.db.
IndexOwned ==
  index.chunkRefs \subseteq Logical(refs) /\ checkpoint.chunkRefs \subseteq Logical(refs)

\* An attribution row says which message of its history is where, and its object was written.
RowsFaithful ==
  \A r \in refs :
    \E ns \in Namespaces, h \in Histories : \E k \in 1..Len(Messages[h]) :
      r = <<ns, h, MsgSeq(h, k), Messages[h][k]>> /\ objects[Messages[h][k]] # "absent"

\* What the compress under way has behind it when it is at pc.
Progress ==
  job # None =>
    /\ \A hash \in job.hurt : objects[hash] # "absent"
    /\ job.pc = "objects" => job.i \in 1..Len(Messages[job.hist])
    /\ \A k \in 1..Len(Messages[job.hist]) : (job.pc = "objects" => k < job.i) =>
         Readable(Messages[job.hist][k]) \/ Messages[job.hist][k] \in job.hurt
    /\ job.pc \notin {"objects", "meta"} => ArchiveRows(job.ns, job.hist) \subseteq refs
    /\ job.pc = "manifest" => ({job.ns} \X NodesOf[job.hist]) \subseteq nodes

\* Published plans have their rows and nodes, nodes their sources and children.
Published ==
  /\ \A ns \in Namespaces, h \in Histories : <<ns, h>> \in manifests =>
       ArchiveRows(ns, h) \subseteq refs /\ ({ns} \X NodesOf[h]) \subseteq nodes
  /\ \A ns \in Namespaces, n \in Nodes : <<ns, n>> \in nodes =>
       /\ \A hash \in Sources[n] : OwnsCasMeta(ns, hash)
       /\ \A c \in Children[n] : <<ns, c>> \in nodes
  /\ \A ns \in Namespaces : views[ns] # None => <<ns, views[ns]>> \in manifests

ArchiveInv == StateShape /\ IndexOwned /\ RowsFaithful /\ Progress /\ Published

-----------------------------------------------------------------------------
(* Facts about rows. *)

\* Rows are only ever added, so what an index refers to and what a session owns stays.
LEMMA GrowingRows ==
  ASSUME refs \subseteq refs'
  PROVE  /\ Logical(refs) \subseteq Logical(refs')
         /\ \A ns, hash : OwnsCasMeta(ns, hash) => OwnsCasMeta(ns, hash)'
  BY DEF Logical, OwnsCasMeta

\* The messages of a history are message hashes.
LEMMA MessageTypes ==
  ASSUME NEW h \in Histories
  PROVE  /\ Len(Messages[h]) \in Nat
         /\ \A k \in 1..Len(Messages[h]) : Messages[h][k] \in Hashes
         /\ Range(Messages[h]) = {Messages[h][k] : k \in 1..Len(Messages[h])}
  <1>1. Messages[h] \in Seq(Hashes)
    BY StoreAssumption DEF StoreAssumption
  <1>2. DOMAIN Messages[h] = 1..Len(Messages[h])
    BY <1>1
  <1>. QED BY <1>1, <1>2 DEF Range

\* The messages of a history have different numbers, and a candidate's messages have
\* the numbers they have in its base.
LEMMA SeqNumbers ==
  ASSUME NEW h \in Histories
  PROVE  /\ \A k \in 1..Len(Messages[h]) : MsgSeq(h, k) \in Nat
         /\ \A j, k \in 1..Len(Messages[h]) : MsgSeq(h, j) = MsgSeq(h, k) => j = k
         /\ CandidateOf[h] # None => \A k : MsgSeq(CandidateOf[h], k) = MsgSeq(h, k)
  <1>1. SeqBase[h] \in Nat /\ Len(Messages[h]) \in Nat
    BY MessageTypes, StoreAssumption DEF StoreAssumption
  <1>2. CandidateOf[h] # None => SeqBase[CandidateOf[h]] = SeqBase[h]
    BY StoreAssumption DEF StoreAssumption
  <1>. QED BY <1>1, <1>2 DEF MsgSeq

\* Where every row is faithful, adding the rows of a history by INSERT OR IGNORE leaves
\* all of them there: a row with the same key is the same row.
LEMMA InsertOrIgnore ==
  ASSUME RowsFaithful, NEW ns \in Namespaces, NEW h \in Histories
  PROVE  ArchiveRows(ns, h) \subseteq WithRows(refs, ArchiveRows(ns, h))
  <1>1. SUFFICES ASSUME NEW k \in 1..Len(Messages[h])
                 PROVE  <<ns, h, MsgSeq(h, k), Messages[h][k]>> \in WithRows(refs, ArchiveRows(ns, h))
    BY DEF ArchiveRows
  <1>. DEFINE row == <<ns, h, MsgSeq(h, k), Messages[h][k]>>
  <1>2. row \in ArchiveRows(ns, h)
    BY DEF ArchiveRows
  <1>3. CASE \E s \in refs : s[1] = row[1] /\ s[2] = row[2] /\ s[3] = row[3]
    <2>1. PICK s \in refs : s[1] = ns /\ s[2] = h /\ s[3] = MsgSeq(h, k)
      BY <1>3
    <2>2. PICK ns2 \in Namespaces, h2 \in Histories : \E j \in 1..Len(Messages[h2]) :
            s = <<ns2, h2, MsgSeq(h2, j), Messages[h2][j]>>
      BY <2>1 DEF RowsFaithful
    <2>3. PICK j \in 1..Len(Messages[h2]) : s = <<ns2, h2, MsgSeq(h2, j), Messages[h2][j]>>
      BY <2>2
    <2>4. ns2 = ns /\ h2 = h /\ MsgSeq(h, j) = MsgSeq(h, k)
      BY <2>1, <2>3
    <2>5. j = k
      BY <2>4, SeqNumbers
    <2>. QED BY <2>1, <2>3, <2>4, <2>5 DEF WithRows
  <1>4. CASE ~\E s \in refs : s[1] = row[1] /\ s[2] = row[2] /\ s[3] = row[3]
    BY <1>2, <1>4 DEF WithRows
  <1>. QED BY <1>3, <1>4

\* Rows added to the table are old ones or the given ones.
LEMMA WithRowsBounds ==
  ASSUME NEW R, NEW rows
  PROVE  R \subseteq WithRows(R, rows) /\ WithRows(R, rows) \subseteq R \cup rows
  BY DEF WithRows

-----------------------------------------------------------------------------
(* Every step keeps the invariant. *)

\* The empty store satisfies the invariant of the archive.
LEMMA InitArchive == Init => ArchiveInv
  <1>. SUFFICES ASSUME Init PROVE ArchiveInv
    OBVIOUS
  <1>1. StateShape
    BY DEF Init, StateShape, IndexType, EmptyIndex, Recorded
  <1>2. IndexOwned /\ RowsFaithful /\ Progress /\ Published
    BY DEF Init, IndexOwned, EmptyIndex, RowsFaithful, Progress, Published
  <1>. QED BY <1>1, <1>2 DEF ArchiveInv

\* Starting: what is rebuilt comes from the rows.
LEMMA StartKeeps == ArchiveInv /\ Start => ArchiveInv'
  <1>. SUFFICES ASSUME ArchiveInv, Start PROVE ArchiveInv'
    OBVIOUS
  <1>. DEFINE resolved == {r \in refs : Readable(r[4])}
  <1>0. refs \subseteq Namespaces \X Histories \X Nat \X Hashes
    BY DEF ArchiveInv, StateShape
  <1>1. RebuildFromObjects \in IndexType /\ RebuildFromObjects.chunkRefs \subseteq Logical(refs)
    <2>1. /\ {r[4] : r \in resolved} \subseteq Hashes /\ {r[2] : r \in resolved} \subseteq Histories
          /\ Logical(resolved) \subseteq References
          /\ Logical(refs \ resolved) \subseteq References
      BY <1>0 DEF Logical, References
    <2>2. Logical(resolved) \subseteq Logical(refs)
      BY DEF Logical
    <2>3. [expected |-> Cardinality({r[4] : r \in resolved}),
           skipped |-> Cardinality(Logical(refs \ resolved))] \in Recorded
      BY <2>1 DEF Recorded
    <2>. QED BY <2>1, <2>2, <2>3 DEF RebuildFromObjects, IndexType
  <1>2. StateShape'
    BY <1>1 DEF ArchiveInv, Start, meta, StateShape
  <1>3. IndexOwned'
    BY <1>1 DEF ArchiveInv, Start, meta, IndexOwned, Logical
  <1>4. RowsFaithful' /\ Progress' /\ Published'
    BY DEF ArchiveInv, Start, meta, RowsFaithful, Progress, Published, Readable, OwnsCasMeta, ArchiveRows
  <1>. QED BY <1>2, <1>3, <1>4 DEF ArchiveInv

\* Stopping, checkpoints and damage to index.db: the indexes trade places or are emptied.
LEMMA IndexMovesKeep ==
  ArchiveInv /\ (Close \/ Crash \/ PowerLoss \/ Checkpoint \/ DamageIndex) => ArchiveInv'
  <1>. SUFFICES ASSUME ArchiveInv, Close \/ Crash \/ PowerLoss \/ Checkpoint \/ DamageIndex
                PROVE  ArchiveInv'
    OBVIOUS
  <1>1. /\ UNCHANGED <<objects, meta>> /\ (job' = None \/ job' = job)
        /\ index' \in {index, checkpoint, EmptyIndex, [index EXCEPT !.healthy = FALSE]}
        /\ checkpoint' \in {index, checkpoint, EmptyIndex, [index EXCEPT !.healthy = FALSE]}
    BY DEF Close, Crash, PowerLoss, Checkpoint, DamageIndex, Stopped
  <1>2. EmptyIndex \in IndexType /\ EmptyIndex.chunkRefs = {}
    BY DEF IndexType, EmptyIndex, Recorded
  <1>3. /\ [index EXCEPT !.healthy = FALSE] \in IndexType
        /\ [index EXCEPT !.healthy = FALSE].chunkRefs = index.chunkRefs
    BY DEF ArchiveInv, StateShape, IndexType
  <1>4. StateShape'
    BY <1>1, <1>2, <1>3 DEF ArchiveInv, StateShape, meta
  <1>5. IndexOwned'
    BY <1>1, <1>2, <1>3 DEF ArchiveInv, IndexOwned, Logical, meta
  <1>6. RowsFaithful' /\ Progress' /\ Published'
    BY <1>1 DEF ArchiveInv, meta, RowsFaithful, Progress, Published, Readable, OwnsCasMeta, ArchiveRows
  <1>. QED BY <1>4, <1>5, <1>6 DEF ArchiveInv

\* A compress begins with its first object, and ends with what it has written.
LEMMA CompressBoundsKeep ==
  ArchiveInv /\ ((\E a \in Archives : Compress(a[1], a[2])) \/ CompressFails) => ArchiveInv'
  <1>. SUFFICES ASSUME ArchiveInv, (\E a \in Archives : Compress(a[1], a[2])) \/ CompressFails
                PROVE  ArchiveInv'
    OBVIOUS
  <1>1. UNCHANGED <<objects, meta, index, checkpoint>>
    BY DEF Compress, CompressFails, disk
  <1>2. StateShape' /\ Progress'
    <2>1. CASE CompressFails
      BY <1>1, <2>1 DEF CompressFails, ArchiveInv, StateShape, Progress, meta
    <2>2. ASSUME NEW a \in Archives, Compress(a[1], a[2])
          PROVE  StateShape' /\ Progress'
      <3>1. a[1] \in Namespaces /\ a[2] \in Histories /\ a = <<a[1], a[2]>>
        BY StoreAssumption DEF StoreAssumption
      <3>2. job' \in JobType /\ job'.ns = a[1] /\ job'.hist = a[2] /\ job'.pc = "objects"
            /\ job'.i = 1 /\ job'.hurt = {}
        BY <2>2, <3>1 DEF Compress, JobType
      <3>3. 1 \in 1..Len(Messages[a[2]])
        <4>1. Messages[a[2]] \in Seq(Hashes) /\ Messages[a[2]] # <<>>
          BY <3>1, StoreAssumption DEF StoreAssumption
        <4>. QED BY <4>1
      <3>4. StateShape'
        BY <1>1, <3>1, <3>2 DEF ArchiveInv, StateShape, meta
      <3>5. Progress'
        BY <3>2, <3>3 DEF Progress
      <3>. QED BY <3>4, <3>5
    <2>. QED BY <2>1, <2>2
  <1>3. IndexOwned' /\ RowsFaithful' /\ Published'
    BY <1>1 DEF ArchiveInv, meta, IndexOwned, Logical, RowsFaithful, Published, OwnsCasMeta, ArchiveRows
  <1>. QED BY <1>2, <1>3 DEF ArchiveInv

\* An object is written: one message more is there.
LEMMA WriteObjectKeeps == ArchiveInv /\ WriteObject => ArchiveInv'
  <1>. SUFFICES ASSUME ArchiveInv, WriteObject PROVE ArchiveInv'
    OBVIOUS
  <1>. DEFINE h == job.hist  n == Len(Messages[h])  hash == Messages[h][job.i]
  <1>1. job # None /\ job \in JobType /\ job.pc = "objects" /\ job.i \in 1..n
    BY DEF ArchiveInv, StateShape, Progress, WriteObject
  <1>2. h \in Histories /\ n \in Nat /\ \A k \in 1..n : Messages[h][k] \in Hashes
    BY <1>1, MessageTypes DEF JobType
  <1>3. objects' = [objects EXCEPT ![hash] = "ok"] /\ UNCHANGED <<meta, index, checkpoint>>
    BY DEF WriteObject
  <1>4. \A x \in Hashes : /\ objects[x] # "absent" => objects'[x] # "absent"
                          /\ objects[x] = "ok" => objects'[x] = "ok"
    BY <1>1, <1>2, <1>3 DEF ArchiveInv, StateShape
  <1>5. /\ job' \in JobType /\ job'.ns = job.ns /\ job'.hist = h /\ job'.hurt = job.hurt
        /\ IF job.i = n THEN job'.pc = "meta"
           ELSE job'.pc = "objects" /\ job'.i = job.i + 1
    BY <1>1, <1>2 DEF WriteObject, JobType
  <1>6. StateShape'
    BY <1>1, <1>2, <1>3, <1>5 DEF ArchiveInv, StateShape, meta
  <1>7. IndexOwned' /\ Published'
    BY <1>3 DEF ArchiveInv, IndexOwned, Logical, Published, OwnsCasMeta, ArchiveRows, meta
  <1>8. RowsFaithful'
    BY <1>3, <1>4, MessageTypes DEF ArchiveInv, RowsFaithful, meta
  <1>9. Progress'
    <2>1. \A k \in 1..n : (job'.pc = "objects" => k < job'.i) =>
            objects'[Messages[h][k]] = "ok" \/ Messages[h][k] \in job.hurt
      <3>. SUFFICES ASSUME NEW k \in 1..n, job'.pc = "objects" => k < job'.i
                    PROVE  objects'[Messages[h][k]] = "ok" \/ Messages[h][k] \in job.hurt
        OBVIOUS
      <3>1. CASE k = job.i
        BY <1>1, <1>2, <1>3, <3>1 DEF ArchiveInv, StateShape
      <3>2. CASE k # job.i
        <4>1. k < job.i
          BY <1>1, <1>2, <1>5, <3>2
        <4>. QED BY <1>1, <1>2, <1>4, <4>1 DEF ArchiveInv, Progress, Readable
      <3>. QED BY <3>1, <3>2
    <2>2. \A x \in job.hurt : objects'[x] # "absent"
      BY <1>1, <1>4 DEF ArchiveInv, Progress, JobType
    <2>3. job'.pc = "objects" => job'.i \in 1..n
      BY <1>1, <1>2, <1>5
    <2>. QED BY <1>5, <2>1, <2>2, <2>3 DEF Progress, Readable
  <1>. QED BY <1>6, <1>7, <1>8, <1>9 DEF ArchiveInv

\* The attribution is written: every row of the archive is there afterwards.
LEMMA WriteMetaKeeps == ArchiveInv /\ WriteMeta => ArchiveInv'
  <1>. SUFFICES ASSUME ArchiveInv, WriteMeta PROVE ArchiveInv'
    OBVIOUS
  <1>. DEFINE ns == job.ns  h == job.hist
  <1>1. job # None /\ job \in JobType /\ job.pc = "meta" /\ ns \in Namespaces /\ h \in Histories
    BY DEF ArchiveInv, StateShape, WriteMeta, JobType
  <1>2. refs' = WithRows(refs, ArchiveRows(ns, h))
        /\ UNCHANGED <<objects, nodes, manifests, views, index, checkpoint>>
    BY DEF WriteMeta
  <1>3. refs \subseteq refs' /\ refs' \subseteq refs \cup ArchiveRows(ns, h)
    BY <1>2, WithRowsBounds
  <1>4. ArchiveRows(ns, h) \subseteq refs'
    BY <1>1, <1>2, InsertOrIgnore DEF ArchiveInv
  <1>5. /\ job' \in JobType /\ job'.ns = ns /\ job'.hist = h /\ job'.hurt = job.hurt
        /\ job'.pc = "index"
    BY <1>1 DEF WriteMeta, JobType
  <1>6. \A k \in 1..Len(Messages[h]) :
          Messages[h][k] \in Hashes /\ objects[Messages[h][k]] # "absent"
          /\ (objects[Messages[h][k]] = "ok" \/ Messages[h][k] \in job.hurt)
    BY <1>1, MessageTypes DEF ArchiveInv, Progress, Readable
  <1>7. StateShape'
    <2>1. ArchiveRows(ns, h) \subseteq Namespaces \X Histories \X Nat \X Hashes
      <3>1. SUFFICES ASSUME NEW k \in 1..Len(Messages[h])
                     PROVE  <<ns, h, MsgSeq(h, k), Messages[h][k]>> \in Namespaces \X Histories \X Nat \X Hashes
        BY DEF ArchiveRows
      <3>2. MsgSeq(h, k) \in Nat
        BY <1>1, SeqNumbers
      <3>. QED BY <1>1, <1>6, <3>2
    <2>2. refs' \subseteq Namespaces \X Histories \X Nat \X Hashes
      BY <1>3, <2>1 DEF ArchiveInv, StateShape
    <2>. QED BY <1>1, <1>2, <1>5, <2>2 DEF ArchiveInv, StateShape
  <1>8. IndexOwned'
    BY <1>2, <1>3, GrowingRows DEF ArchiveInv, IndexOwned
  <1>9. RowsFaithful'
    <2>. SUFFICES ASSUME NEW r \in ArchiveRows(ns, h)
                  PROVE  \E m \in Namespaces, g \in Histories : \E k \in 1..Len(Messages[g]) :
                           r = <<m, g, MsgSeq(g, k), Messages[g][k]>> /\ objects[Messages[g][k]] # "absent"
      BY <1>2, <1>3 DEF ArchiveInv, RowsFaithful
    <2>. QED BY <1>1, <1>6 DEF ArchiveRows
  <1>10. Progress'
    BY <1>1, <1>2, <1>4, <1>5, <1>6 DEF ArchiveInv, Progress, Readable
  <1>11. Published'
    BY <1>2, <1>3, GrowingRows DEF ArchiveInv, Published
  <1>. QED BY <1>7, <1>8, <1>9, <1>10, <1>11 DEF ArchiveInv

\* The index is written after the attribution: its references are to rows that are there.
LEMMA WriteIndexKeeps == ArchiveInv /\ (WriteIndex \/ UpsertHistory) => ArchiveInv'
  <1>. SUFFICES ASSUME ArchiveInv, WriteIndex \/ UpsertHistory PROVE ArchiveInv'
    OBVIOUS
  <1>. DEFINE ns == job.ns  h == job.hist
  <1>1. /\ job # None /\ job \in JobType /\ job.pc \in {"index", "history"}
        /\ ns \in Namespaces /\ h \in Histories /\ UNCHANGED <<objects, meta, checkpoint>>
    BY DEF ArchiveInv, StateShape, WriteIndex, UpsertHistory, JobType
  <1>2. ArchiveRows(ns, h) \subseteq refs
    BY <1>1 DEF ArchiveInv, Progress
  <1>3. {ns} \X {h} \X Range(Messages[h]) \subseteq Logical(refs) \cap References
        /\ Range(Messages[h]) \subseteq Hashes
    <2>1. ASSUME NEW k \in 1..Len(Messages[h])
          PROVE  <<ns, h, Messages[h][k]>> \in Logical(refs)
      <3>1. <<ns, h, MsgSeq(h, k), Messages[h][k]>> \in refs
        BY <1>2 DEF ArchiveRows
      <3>. QED BY <3>1 DEF Logical
    <2>2. /\ \A x \in Range(Messages[h]) : \E k \in 1..Len(Messages[h]) : x = Messages[h][k]
          /\ Range(Messages[h]) \subseteq Hashes
      <3>1. Range(Messages[h]) = {Messages[h][k] : k \in 1..Len(Messages[h])}
        BY <1>1, MessageTypes
      <3>2. \A k \in 1..Len(Messages[h]) : Messages[h][k] \in Hashes
        BY <1>1, MessageTypes
      <3>. QED BY <3>1, <3>2
    <2>3. ASSUME NEW x \in Range(Messages[h])
          PROVE  <<ns, h, x>> \in Logical(refs) /\ <<ns, h, x>> \in References
      <3>1. PICK k \in 1..Len(Messages[h]) : x = Messages[h][k]
        BY <2>2
      <3>2. <<ns, h, Messages[h][k]>> \in Logical(refs)
        BY <2>1
      <3>. QED BY <1>1, <2>2, <3>1, <3>2 DEF References
    <2>. QED BY <2>2, <2>3
  <1>4. index' \in IndexType /\ index'.chunkRefs \subseteq Logical(refs)
    <2>1. index \in IndexType /\ index.chunkRefs \subseteq Logical(refs)
      BY DEF ArchiveInv, StateShape, IndexOwned
    <2>2. CASE UpsertHistory
      BY <1>1, <2>1, <2>2 DEF UpsertHistory, IndexType
    <2>3. CASE WriteIndex
      <3>. DEFINE written == WriteDerivedRows(index, ns, h)
      <3>1. written \in IndexType /\ written.chunkRefs \subseteq Logical(refs)
        BY <1>3, <2>1 DEF WriteDerivedRows, InsertChunks, IndexType
      <3>2. index' = [written EXCEPT !.histories = IF job.known THEN @ ELSE @ \cup {h}]
        BY <2>3 DEF WriteIndex
      <3>. QED BY <1>1, <3>1, <3>2 DEF IndexType
    <2>. QED BY <2>2, <2>3
  <1>5. /\ job' \in JobType /\ job'.ns = ns /\ job'.hist = h /\ job'.hurt = job.hurt
        /\ job'.pc \in {"history", "nodes"}
    BY <1>1 DEF WriteIndex, UpsertHistory, JobType
  <1>6. StateShape' /\ IndexOwned'
    BY <1>1, <1>4, <1>5 DEF ArchiveInv, StateShape, IndexOwned, Logical, meta
  <1>7. RowsFaithful' /\ Published'
    BY <1>1 DEF ArchiveInv, RowsFaithful, Published, OwnsCasMeta, ArchiveRows, meta
  <1>8. Progress'
    BY <1>1, <1>2, <1>5 DEF ArchiveInv, Progress, Readable, meta
  <1>. QED BY <1>6, <1>7, <1>8 DEF ArchiveInv

\* Nodes are saved together with their children and after the rows of their sources.
LEMMA SaveNodesKeeps == ArchiveInv /\ SaveNodes => ArchiveInv'
  <1>. SUFFICES ASSUME ArchiveInv, SaveNodes PROVE ArchiveInv'
    OBVIOUS
  <1>. DEFINE ns == job.ns  h == job.hist
  <1>1. /\ job # None /\ job \in JobType /\ job.pc = "nodes" /\ ns \in Namespaces /\ h \in Histories
        /\ NodesOf[h] \subseteq Nodes
    BY StoreAssumption DEF ArchiveInv, StateShape, SaveNodes, JobType, StoreAssumption
  <1>2. /\ nodes' = nodes \cup ({ns} \X NodesOf[h]) /\ CanSaveNodes(ns, NodesOf[h])
        /\ UNCHANGED <<objects, refs, manifests, views, index, checkpoint>>
    BY DEF SaveNodes
  <1>3. /\ job' \in JobType /\ job'.ns = ns /\ job'.hist = h /\ job'.hurt = job.hurt
        /\ job'.pc = "manifest"
    BY <1>1 DEF SaveNodes, JobType
  <1>4. StateShape'
    BY <1>1, <1>2, <1>3 DEF ArchiveInv, StateShape
  <1>5. IndexOwned' /\ RowsFaithful'
    BY <1>2 DEF ArchiveInv, IndexOwned, Logical, RowsFaithful
  <1>6. Progress'
    BY <1>1, <1>2, <1>3 DEF ArchiveInv, Progress, Readable
  <1>7. Published'
    BY <1>1, <1>2 DEF ArchiveInv, Published, CanSaveNodes, OwnsCasMeta, ArchiveRows
  <1>. QED BY <1>4, <1>5, <1>6, <1>7 DEF ArchiveInv

\* The manifest is the last write.
LEMMA SaveManifestKeeps == ArchiveInv /\ SaveManifest => ArchiveInv'
  <1>. SUFFICES ASSUME ArchiveInv, SaveManifest PROVE ArchiveInv'
    OBVIOUS
  <1>1. job # None /\ job \in JobType /\ job.pc = "manifest"
    BY DEF ArchiveInv, StateShape, SaveManifest
  <1>2. /\ manifests' = manifests \cup {<<job.ns, job.hist>>} /\ job' = None
        /\ UNCHANGED <<objects, refs, nodes, views, index, checkpoint>>
    BY DEF SaveManifest
  <1>3. StateShape'
    BY <1>1, <1>2 DEF ArchiveInv, StateShape, JobType
  <1>4. IndexOwned' /\ RowsFaithful' /\ Progress'
    BY <1>2 DEF ArchiveInv, IndexOwned, Logical, RowsFaithful, Progress
  <1>5. ArchiveRows(job.ns, job.hist) \subseteq refs /\ ({job.ns} \X NodesOf[job.hist]) \subseteq nodes
    BY <1>1 DEF ArchiveInv, Progress
  <1>6. Published'
    BY <1>1, <1>2, <1>5 DEF ArchiveInv, Published, OwnsCasMeta, ArchiveRows, JobType, StateShape
  <1>. QED BY <1>3, <1>4, <1>5, <1>6 DEF ArchiveInv

\* A view is confirmed only for a manifest that is there.
LEMMA ViewsKeep ==
  ArchiveInv /\ ((\E v \in Views : SetView(v[1], v[2])) \/ (\E ns \in Namespaces : ClearView(ns)))
    => ArchiveInv'
  <1>0. \A v \in Views : v[1] \in Namespaces /\ v[2] \in Histories
    BY StoreAssumption DEF StoreAssumption
  <1>. SUFFICES ASSUME ArchiveInv, NEW ns \in Namespaces, NEW h \in Histories \cup {None},
                       views' = [views EXCEPT ![ns] = h], h # None => <<ns, h>> \in manifests,
                       UNCHANGED <<objects, refs, nodes, manifests, index, checkpoint, job>>
                PROVE  ArchiveInv'
    BY <1>0 DEF SetView, ClearView
  <1>1. StateShape'
    BY DEF ArchiveInv, StateShape
  <1>2. IndexOwned' /\ RowsFaithful' /\ Progress'
    BY DEF ArchiveInv, IndexOwned, Logical, RowsFaithful, Progress, Readable, ArchiveRows
  <1>3. Published'
    BY DEF ArchiveInv, StateShape, Published, OwnsCasMeta, ArchiveRows
  <1>. QED BY <1>1, <1>2, <1>3 DEF ArchiveInv

\* The candidate takes over the rows of its base, which are all there, and cites its nodes.
LEMMA LinkCandidateKeeps ==
  ASSUME ArchiveInv, NEW a \in Archives, LinkCandidate(a[1], a[2])
  PROVE  ArchiveInv'
  <1>. DEFINE ns == a[1]  base == a[2]  target == CandidateOf[base]
              copied == {<<ns, target, r[3], r[4]>> : r \in {s \in refs : s[1] = ns /\ s[2] = base}}
  <1>1. /\ ns \in Namespaces /\ base \in Histories /\ target \in Histories
        /\ Messages[target] = Messages[base] /\ NodesOf[target] \subseteq Nodes
        /\ <<ns, base>> \in manifests /\ job = None
    BY StoreAssumption DEF StoreAssumption, LinkCandidate, MyTurn
  <1>0. \A k : MsgSeq(target, k) = MsgSeq(base, k)
    BY <1>1, SeqNumbers, StoreAssumption DEF StoreAssumption
  <1>2. /\ nodes' = nodes \cup ({ns} \X NodesOf[target]) /\ CanSaveNodes(ns, NodesOf[target])
        /\ refs' = WithRows(refs, copied) /\ manifests' = manifests \cup {<<ns, target>>}
        /\ UNCHANGED <<objects, views, index, checkpoint, job>>
    BY DEF LinkCandidate, LinkHistoryMeta
  <1>3. copied = ArchiveRows(ns, target)
    <2>1. ArchiveRows(ns, base) \subseteq refs
      BY <1>1 DEF ArchiveInv, Published
    <2>2. ASSUME NEW r \in refs, r[1] = ns, r[2] = base
          PROVE  <<ns, target, r[3], r[4]>> \in ArchiveRows(ns, target)
      <3>1. PICK m \in Namespaces, g \in Histories : \E k \in 1..Len(Messages[g]) :
              r = <<m, g, MsgSeq(g, k), Messages[g][k]>>
        BY DEF ArchiveInv, RowsFaithful
      <3>2. PICK k \in 1..Len(Messages[g]) : r = <<m, g, MsgSeq(g, k), Messages[g][k]>>
        BY <3>1
      <3>3. g = base /\ r[3] = MsgSeq(target, k) /\ r[4] = Messages[target][k] /\ k \in 1..Len(Messages[target])
        BY <1>0, <1>1, <2>2, <3>2
      <3>. QED BY <3>3 DEF ArchiveRows
    <2>3. ASSUME NEW k \in 1..Len(Messages[target])
          PROVE  <<ns, target, MsgSeq(target, k), Messages[target][k]>> \in copied
      <3>1. <<ns, base, MsgSeq(base, k), Messages[base][k]>> \in refs
        BY <1>1, <2>1 DEF ArchiveRows
      <3>2. \E r \in refs : r[1] = ns /\ r[2] = base /\ r[3] = MsgSeq(target, k) /\ r[4] = Messages[target][k]
        BY <1>0, <1>1, <3>1
      <3>. QED BY <3>2
    <2>. QED BY <2>2, <2>3 DEF ArchiveRows
  <1>4. refs \subseteq refs' /\ refs' \subseteq refs \cup ArchiveRows(ns, target)
        /\ ArchiveRows(ns, target) \subseteq refs'
    <2>1. refs' = WithRows(refs, ArchiveRows(ns, target))
      BY <1>2, <1>3
    <2>2. ArchiveRows(ns, target) \subseteq WithRows(refs, ArchiveRows(ns, target))
      BY <1>1, InsertOrIgnore DEF ArchiveInv
    <2>. QED BY <2>1, <2>2, WithRowsBounds
  <1>5. \A k \in 1..Len(Messages[target]) :
          Messages[target][k] \in Hashes /\ objects[Messages[target][k]] # "absent"
    <2>. SUFFICES ASSUME NEW k \in 1..Len(Messages[target])
                  PROVE  objects[Messages[target][k]] # "absent"
      BY <1>1, MessageTypes
    <2>1. <<ns, base, MsgSeq(base, k), Messages[base][k]>> \in refs
      BY <1>1 DEF ArchiveInv, Published, ArchiveRows
    <2>. QED BY <1>1, <2>1 DEF ArchiveInv, RowsFaithful
  <1>6. StateShape'
    <2>1. ASSUME NEW k \in 1..Len(Messages[target])
          PROVE  <<ns, target, MsgSeq(target, k), Messages[target][k]>> \in Namespaces \X Histories \X Nat \X Hashes
      <3>1. MsgSeq(target, k) \in Nat
        BY <1>1, SeqNumbers
      <3>. QED BY <1>1, <1>5, <3>1
    <2>2. refs' \subseteq Namespaces \X Histories \X Nat \X Hashes
      BY <1>4, <2>1 DEF ArchiveInv, StateShape, ArchiveRows
    <2>. QED BY <1>1, <1>2, <2>2 DEF ArchiveInv, StateShape
  <1>7. IndexOwned'
    BY <1>2, <1>4, GrowingRows DEF ArchiveInv, IndexOwned
  <1>8. RowsFaithful'
    <2>. SUFFICES ASSUME NEW r \in ArchiveRows(ns, target)
                  PROVE  \E m \in Namespaces, g \in Histories : \E k \in 1..Len(Messages[g]) :
                           r = <<m, g, MsgSeq(g, k), Messages[g][k]>> /\ objects[Messages[g][k]] # "absent"
      BY <1>2, <1>4 DEF ArchiveInv, RowsFaithful
    <2>. QED BY <1>1, <1>5 DEF ArchiveRows
  <1>9. Progress'
    BY <1>1, <1>2 DEF Progress
  <1>10. Published'
    <2>1. ASSUME NEW m \in Namespaces, NEW g \in Histories, <<m, g>> \in manifests'
          PROVE  ArchiveRows(m, g) \subseteq refs' /\ ({m} \X NodesOf[g]) \subseteq nodes'
      BY <1>1, <1>2, <1>4, <2>1 DEF ArchiveInv, Published
    <2>2. ASSUME NEW m \in Namespaces, NEW n \in Nodes, <<m, n>> \in nodes'
          PROVE  /\ \A hash \in Sources[n] : OwnsCasMeta(m, hash)'
                 /\ \A c \in Children[n] : <<m, c>> \in nodes'
      BY <1>1, <1>2, <1>4, <2>2, GrowingRows DEF ArchiveInv, Published, CanSaveNodes
    <2>. QED BY <1>2, <2>1, <2>2 DEF ArchiveInv, Published, ArchiveRows
  <1>. QED BY <1>6, <1>7, <1>8, <1>9, <1>10 DEF ArchiveInv

\* A damaged object is still not one that was never written, and the compress under way
\* knows of it.
LEMMA DamageKeeps ==
  ASSUME ArchiveInv, NEW hash \in Hashes, NEW how \in {"lost", "corrupt"}, DamageObject(hash, how)
  PROVE  ArchiveInv'
  <1>1. objects' = [objects EXCEPT ![hash] = how] /\ UNCHANGED <<meta, index, checkpoint>>
    BY DEF DamageObject
  <1>2. \A x \in Hashes : /\ objects[x] # "absent" => objects'[x] # "absent"
                          /\ x # hash => objects'[x] = objects[x]
    BY <1>1 DEF ArchiveInv, StateShape
  <1>3. job' # None =>
          /\ job # None /\ job' \in JobType /\ job'.ns = job.ns /\ job'.hist = job.hist
          /\ job'.pc = job.pc /\ job'.i = job.i /\ job'.hurt = job.hurt \cup {hash}
    BY DEF DamageObject, ArchiveInv, StateShape, JobType
  <1>4. StateShape'
    BY <1>1, <1>3 DEF ArchiveInv, StateShape, meta
  <1>5. IndexOwned' /\ Published'
    BY <1>1 DEF ArchiveInv, IndexOwned, Logical, Published, OwnsCasMeta, ArchiveRows, meta
  <1>6. RowsFaithful'
    BY <1>1, <1>2, MessageTypes DEF ArchiveInv, RowsFaithful, meta
  <1>7. Progress'
    <2>. SUFFICES ASSUME job' # None PROVE Progress'
      BY DEF Progress
    <2>1. job.hist \in Histories /\ job.hurt \subseteq Hashes
      BY <1>3 DEF ArchiveInv, StateShape, JobType
    <2>2. \A x \in job'.hurt : objects'[x] # "absent"
      BY <1>1, <1>2, <1>3, <2>1 DEF ArchiveInv, StateShape, Progress
    <2>3. \A k \in 1..Len(Messages[job.hist]) : (job.pc = "objects" => k < job.i) =>
            objects'[Messages[job.hist][k]] = "ok" \/ Messages[job.hist][k] \in job'.hurt
      BY <1>2, <1>3, <2>1, MessageTypes DEF ArchiveInv, Progress, Readable
    <2>. QED BY <1>1, <1>3, <2>2, <2>3 DEF ArchiveInv, Progress, Readable, ArchiveRows, meta
  <1>. QED BY <1>4, <1>5, <1>6, <1>7 DEF ArchiveInv

-----------------------------------------------------------------------------
(* The theorems. *)

\* The inductive invariant of the archive (engine.ts, store/*.ts): attribution before the
\* index, objects before attribution, nodes after their children, manifests last.
THEOREM ArchiveCorrect == Spec => []ArchiveInv
  <1>1. ArchiveInv /\ [Next]_vars => ArchiveInv'
    <2>. SUFFICES ASSUME ArchiveInv, [Next]_vars PROVE ArchiveInv'
      OBVIOUS
    <2>1. CASE Start
      BY <2>1, StartKeeps
    <2>2. CASE Close \/ Crash \/ PowerLoss \/ Checkpoint \/ DamageIndex
      BY <2>2, IndexMovesKeep
    <2>3. CASE CompressStep
      BY <2>3, CompressBoundsKeep, WriteObjectKeeps, WriteMetaKeeps, WriteIndexKeeps, SaveNodesKeeps,
         SaveManifestKeeps DEF CompressStep
    <2>4. CASE ViewStep
      BY <2>4, ViewsKeep, LinkCandidateKeeps DEF ViewStep
    <2>5. ASSUME NEW hash \in Hashes, NEW how \in {"lost", "corrupt"}, DamageObject(hash, how)
          PROVE  ArchiveInv'
      BY <2>5, DamageKeeps
    <2>6. CASE UNCHANGED vars
      <3>1. UNCHANGED <<objects, refs, nodes, manifests, views, index, checkpoint, job>>
        BY <2>6 DEF vars
      <3>2. StateShape' /\ IndexOwned' /\ RowsFaithful'
        BY <3>1 DEF ArchiveInv, StateShape, IndexOwned, Logical, RowsFaithful
      <3>3. Progress' /\ Published'
        BY <3>1 DEF ArchiveInv, Progress, Published, Readable, OwnsCasMeta, ArchiveRows
      <3>. QED BY <3>2, <3>3 DEF ArchiveInv
    <2>. QED BY <2>1, <2>2, <2>3, <2>4, <2>5, <2>6 DEF Next, FaultStep
  <1>. QED BY <1>1, InitArchive, PTL DEF Spec

\* A search shows a session only messages that meta.db attributes to it, after any number
\* of crashes, power losses, rebuilds and damaged files (persistArchive, searchChunks).
THEOREM SearchAlwaysOwned == Spec => []SearchIsOwned
  <1>1. ArchiveInv => SearchIsOwned
    BY DEF ArchiveInv, IndexOwned, SearchIsOwned, SearchHits, Logical, OwnsCasMeta
  <1>. QED BY <1>1, ArchiveCorrect, PTL

\* What was published is backed by rows, nodes and objects, and a compress about to publish
\* has every object (saveManifest, saveNodes, backfill).
THEOREM AlwaysBacked == Spec => []Backed
  <1>1. ArchiveInv => Backed
    <2>. SUFFICES ASSUME ArchiveInv PROVE Backed
      OBVIOUS
    <2>1. ASSUME NEW m \in manifests
          PROVE  /\ ArchiveRows(m[1], m[2]) \subseteq refs
                 /\ \A hash \in Range(Messages[m[2]]) : objects[hash] # "absent"
                 /\ ({m[1]} \X NodesOf[m[2]]) \subseteq nodes
      <3>1. m = <<m[1], m[2]>> /\ m[1] \in Namespaces /\ m[2] \in Histories
        BY DEF ArchiveInv, StateShape
      <3>2. ArchiveRows(m[1], m[2]) \subseteq refs /\ ({m[1]} \X NodesOf[m[2]]) \subseteq nodes
        BY <3>1 DEF ArchiveInv, Published
      <3>3. ASSUME NEW k \in 1..Len(Messages[m[2]])
            PROVE  objects[Messages[m[2]][k]] # "absent"
        <4>1. <<m[1], m[2], MsgSeq(m[2], k), Messages[m[2]][k]>> \in refs
          BY <3>2 DEF ArchiveRows
        <4>. QED BY <4>1 DEF ArchiveInv, RowsFaithful
      <3>. QED BY <3>1, <3>2, <3>3, MessageTypes
    <2>2. ASSUME NEW n \in nodes PROVE CanSaveNodes(n[1], {n[2]})
      <3>1. n = <<n[1], n[2]>> /\ n[1] \in Namespaces /\ n[2] \in Nodes
        BY DEF ArchiveInv, StateShape
      <3>. QED BY <3>1 DEF ArchiveInv, Published, CanSaveNodes
    <2>3. \A ns \in Namespaces : views[ns] # None => <<ns, views[ns]>> \in manifests
      BY DEF ArchiveInv, Published
    <2>4. ASSUME job # None, job.pc = "manifest"
          PROVE  \A hash \in Range(Messages[job.hist]) : Readable(hash) \/ hash \in job.hurt
      <3>1. job.hist \in Histories
        BY <2>4 DEF ArchiveInv, StateShape, JobType
      <3>. QED BY <2>4, <3>1, MessageTypes DEF ArchiveInv, Progress
    <2>. QED BY <2>1, <2>2, <2>3, <2>4 DEF Backed
  <1>. QED BY <1>1, ArchiveCorrect, PTL

-----------------------------------------------------------------------------
(* Healing the index.  That counts are enough to tell a lost index rests on   *)
(* what they count: references of the index are among those of meta.db, so    *)
(* equally many are the same, and the chunks are those they refer to.         *)

IndexConsistent(ix) ==
  /\ ix.chunks = {c[3] : c \in ix.chunkRefs}
  /\ (~damaged /\ ix.recorded # None) => ix.recorded.skipped = 0

HealInv ==
  /\ IsFiniteSet(refs)
  /\ IndexConsistent(index) /\ IndexConsistent(checkpoint)
  /\ ~damaged => \A hash \in Hashes : objects[hash] \in {"absent", "ok"}

\* A history has finitely many rows.
LEMMA FiniteArchive ==
  ASSUME NEW ns, NEW h \in Histories
  PROVE  IsFiniteSet(ArchiveRows(ns, h))
  <1>. DEFINE f == [k \in 1..Len(Messages[h]) |-> <<ns, h, MsgSeq(h, k), Messages[h][k]>>]
  <1>1. f \in Surjection(1..Len(Messages[h]), ArchiveRows(ns, h))
    BY DEF Surjection, ArchiveRows
  <1>2. IsFiniteSet(1..Len(Messages[h]))
    BY MessageTypes, FS_Interval
  <1>. QED BY <1>1, <1>2, FS_Surjection

\* Finitely many rows have finitely many references.
LEMMA FiniteLogical ==
  ASSUME NEW R, IsFiniteSet(R)
  PROVE  IsFiniteSet(Logical(R))
  <1>. DEFINE f == [r \in R |-> <<r[1], r[2], r[4]>>]
  <1>1. f \in Surjection(R, Logical(R))
    BY DEF Surjection, Logical
  <1>. QED BY <1>1, FS_Surjection

\* References are to the messages of their rows.
LEMMA ChunksOfReferences ==
  ASSUME NEW R
  PROVE  {c[3] : c \in Logical(R)} = {r[4] : r \in R}
  <1>1. ASSUME NEW c \in Logical(R) PROVE \E r \in R : r[4] = c[3]
    <2>1. PICK r \in R : c = <<r[1], r[2], r[4]>>
      BY <1>1 DEF Logical
    <2>2. c[3] = r[4]
      BY <2>1
    <2>. QED BY <2>2
  <1>2. ASSUME NEW r \in R PROVE \E c \in Logical(R) : c[3] = r[4]
    <2>. DEFINE c == <<r[1], r[2], r[4]>>
    <2>1. c \in Logical(R)
      BY DEF Logical
    <2>2. c[3] = r[4]
      OBVIOUS
    <2>. QED BY <2>1, <2>2
  <1>. QED BY <1>1, <1>2

\* An index rebuilt from the rows needs no rebuild; rebuilt from undamaged objects it is whole.
LEMMA Rebuilt ==
  ASSUME ArchiveInv, HealInv
  PROVE  /\ IndexConsistent(RebuildFromObjects)
         /\ ~NeedsHeal(RebuildFromObjects)
         /\ ~damaged => /\ RebuildFromObjects.chunkRefs = Logical(refs)
                        /\ RebuildFromObjects.chunks = {r[4] : r \in refs}
  <1>. DEFINE resolved == {r \in refs : Readable(r[4])}
              rest     == refs \ resolved
              ix       == RebuildFromObjects
  <1>1. /\ ix.chunks = {r[4] : r \in resolved} /\ ix.chunkRefs = Logical(resolved) /\ ix.healthy
        /\ ix.recorded = [expected |-> Cardinality(ix.chunks), skipped |-> Cardinality(Logical(rest))]
    BY DEF RebuildFromObjects
  <1>2. IsFiniteSet(resolved) /\ IsFiniteSet(rest)
    BY FS_Subset DEF HealInv
  <1>3. IsFiniteSet(Logical(resolved)) /\ IsFiniteSet(Logical(rest))
    BY <1>2, FiniteLogical
  <1>4. /\ Cardinality(Logical(resolved)) \in Nat /\ Cardinality(Logical(rest)) \in Nat
        /\ Cardinality(Logical(resolved) \cap Logical(rest)) \in Nat
    <2>1. IsFiniteSet(Logical(resolved) \cap Logical(rest))
      BY <1>3, FS_Subset
    <2>. QED BY <1>3, <2>1, FS_CardinalityType
  <1>5. Cardinality(Logical(refs)) <= Cardinality(ix.chunkRefs) + Cardinality(Logical(rest))
    <2>1. Logical(refs) = Logical(resolved) \cup Logical(rest)
      BY DEF Logical
    <2>2. Cardinality(Logical(refs)) = Cardinality(Logical(resolved)) + Cardinality(Logical(rest))
            - Cardinality(Logical(resolved) \cap Logical(rest))
      BY <1>3, <2>1, FS_Union
    <2>. QED BY <1>1, <1>4, <2>2
  <1>6. ix.chunks = {c[3] : c \in ix.chunkRefs}
    BY <1>1, ChunksOfReferences
  <1>7. IsFiniteSet(ix.chunks) /\ Cardinality(ix.chunks) \in Nat
    <2>. DEFINE f == [r \in resolved |-> r[4]]
    <2>1. f \in Surjection(resolved, ix.chunks)
      BY <1>1 DEF Surjection
    <2>. QED BY <1>2, <2>1, FS_Surjection, FS_CardinalityType
  <1>8. ix.recorded # None
    BY <1>1, <1>4, <1>7, StoreAssumption DEF StoreAssumption
  <1>9. ~NeedsHeal(ix)
    <2>1. IsFiniteSet(Logical(refs)) /\ Cardinality(Logical(refs)) \in Nat
      BY FiniteLogical, FS_CardinalityType DEF HealInv
    <2>2. ix.recorded.expected = Cardinality(ix.chunks) /\ ix.recorded.skipped = Cardinality(Logical(rest))
      BY <1>1
    <2>3. ~(Cardinality(ix.chunks) < ix.recorded.expected)
      BY <1>7, <2>2
    <2>4. ~(Cardinality(ix.chunkRefs) + ix.recorded.skipped < Cardinality(Logical(refs)))
      BY <1>1, <1>4, <1>5, <2>1, <2>2
    <2>. QED BY <1>1, <1>8, <2>3, <2>4 DEF NeedsHeal, IndexLooksLost
  <1>10. ASSUME ~damaged PROVE resolved = refs
    BY <1>10 DEF HealInv, ArchiveInv, RowsFaithful, StateShape, Readable
  <1>11. ASSUME ~damaged PROVE ix.recorded.skipped = 0
    <2>1. Logical(rest) = {}
      BY <1>10, <1>11 DEF Logical
    <2>2. Cardinality(Logical(rest)) = 0
      BY <2>1, FS_EmptySet
    <2>. QED BY <1>1, <2>2
  <1>. QED BY <1>1, <1>6, <1>9, <1>10, <1>11 DEF IndexConsistent

\* An index that does not look lost is whole, unless an object was ever damaged.
LEMMA NotLostIsWhole ==
  ASSUME ArchiveInv, HealInv, ~damaged, ~NeedsHeal(index)
  PROVE  index.chunkRefs = Logical(refs) /\ index.chunks = {r[4] : r \in refs}
  <1>. DEFINE have == Cardinality(index.chunkRefs)  owe == Cardinality(Logical(refs))
  <1>1. index.chunkRefs \subseteq Logical(refs) /\ IsFiniteSet(Logical(refs))
    BY FiniteLogical DEF ArchiveInv, IndexOwned, HealInv
  <1>2. IsFiniteSet(index.chunkRefs) /\ have \in Nat /\ owe \in Nat /\ have <= owe
    BY <1>1, FS_Subset, FS_CardinalityType
  <1>3. ~(have < owe)
    <2>1. CASE index.recorded = None
      BY <2>1 DEF NeedsHeal, IndexLooksLost
    <2>2. CASE index.recorded # None
      <3>1. index.recorded.skipped = 0
        BY <2>2 DEF HealInv, IndexConsistent
      <3>2. ~(have + index.recorded.skipped < owe)
        BY <2>2 DEF NeedsHeal, IndexLooksLost
      <3>. QED BY <1>2, <3>1, <3>2
    <2>. QED BY <2>1, <2>2
  <1>4. index.chunkRefs = Logical(refs)
    BY <1>1, <1>2, <1>3, FS_Subset
  <1>. QED BY <1>4, ChunksOfReferences DEF HealInv, IndexConsistent

\* The steps that change an index leave it consistent.
LEMMA IndexStaysConsistent ==
  ASSUME ArchiveInv, HealInv, [Next]_vars
  PROVE  IndexConsistent(index)' /\ IndexConsistent(checkpoint)'
  <1>. DEFINE OK(ix) == /\ ix.chunks = {c[3] : c \in ix.chunkRefs}
                        /\ (~damaged /\ ix.recorded # None) => ix.recorded.skipped = 0
  <1>1. OK(index) /\ OK(checkpoint) /\ index \in IndexType
    BY DEF HealInv, IndexConsistent, ArchiveInv, StateShape
  <1>2. ~damaged' => ~damaged
    BY DEF Next, CompressStep, ViewStep, FaultStep, Start, Close, Stopped, Checkpoint, Crash, PowerLoss,
       DamageIndex, Compress, WriteObject, WriteMeta, WriteIndex, UpsertHistory, SaveNodes, SaveManifest,
       CompressFails, SetView, ClearView, LinkCandidate, DamageObject, vars
  <1>. SUFFICES OK(index') /\ OK(checkpoint')
    BY <1>2 DEF IndexConsistent
  <1>3. CASE Start
    BY <1>1, <1>3, Rebuilt DEF Start, IndexConsistent
  <1>4. CASE Close \/ Crash \/ PowerLoss \/ Checkpoint \/ DamageIndex
    <2>1. /\ index' \in {index, checkpoint, EmptyIndex, [index EXCEPT !.healthy = FALSE]}
          /\ checkpoint' \in {index, checkpoint, EmptyIndex, [index EXCEPT !.healthy = FALSE]}
      BY <1>4 DEF Close, Crash, PowerLoss, Checkpoint, DamageIndex, Stopped
    <2>2. OK(EmptyIndex)
      BY DEF EmptyIndex
    <2>3. OK([index EXCEPT !.healthy = FALSE])
      <3>1. /\ [index EXCEPT !.healthy = FALSE].chunks = index.chunks
            /\ [index EXCEPT !.healthy = FALSE].chunkRefs = index.chunkRefs
            /\ [index EXCEPT !.healthy = FALSE].recorded = index.recorded
        BY <1>1 DEF IndexType
      <3>. QED BY <1>1, <3>1
    <2>. QED BY <1>1, <2>1, <2>2, <2>3
  <1>5. CASE UpsertHistory
    <2>1. /\ index'.chunks = index.chunks /\ index'.chunkRefs = index.chunkRefs
          /\ index'.recorded = index.recorded /\ checkpoint' = checkpoint
      BY <1>1, <1>5 DEF UpsertHistory, IndexType
    <2>. QED BY <1>1, <2>1
  <1>6. CASE WriteIndex
    <2>. DEFINE new == Range(Messages[job.hist])
                written == WriteDerivedRows(index, job.ns, job.hist)
    <2>1. /\ DOMAIN written = DOMAIN index /\ written.recorded = index.recorded
          /\ written.chunks = index.chunks \cup new
          /\ written.chunkRefs = index.chunkRefs \cup ({job.ns} \X {job.hist} \X new)
      BY <1>1 DEF WriteDerivedRows, InsertChunks, IndexType
    <2>2. /\ index' = [written EXCEPT !.histories = IF job.known THEN @ ELSE @ \cup {job.hist}]
          /\ checkpoint' = checkpoint
      BY <1>6 DEF WriteIndex
    <2>3. /\ index'.chunks = written.chunks /\ index'.chunkRefs = written.chunkRefs
          /\ index'.recorded = written.recorded
      <3>1. written \in [chunks : {written.chunks}, chunkRefs : {written.chunkRefs},
                         histories : {written.histories}, recorded : {written.recorded},
                         healthy : {written.healthy}]
        BY <1>1 DEF WriteDerivedRows, InsertChunks, IndexType
      <3>. QED BY <2>2, <3>1
    <2>4. index'.chunks = {c[3] : c \in index'.chunkRefs}
      <3>1. ASSUME NEW x \in new
            PROVE  <<job.ns, job.hist, x>> \in index'.chunkRefs /\ <<job.ns, job.hist, x>>[3] = x
        BY <2>1, <2>3
      <3>2. ASSUME NEW c \in {job.ns} \X {job.hist} \X new PROVE c[3] \in new
        OBVIOUS
      <3>3. ASSUME NEW x \in index'.chunks PROVE \E c \in index'.chunkRefs : x = c[3]
        <4>1. CASE x \in index.chunks
          BY <1>1, <2>1, <2>3, <4>1
        <4>2. CASE x \in new
          BY <3>1, <4>2
        <4>. QED BY <2>1, <2>3, <4>1, <4>2
      <3>4. ASSUME NEW c \in index'.chunkRefs PROVE c[3] \in index'.chunks
        <4>1. CASE c \in index.chunkRefs
          BY <1>1, <2>1, <2>3, <4>1
        <4>2. CASE c \in {job.ns} \X {job.hist} \X new
          BY <2>1, <2>3, <3>2, <4>2
        <4>. QED BY <2>1, <2>3, <4>1, <4>2
      <3>. QED BY <3>3, <3>4
    <2>. QED BY <1>1, <2>1, <2>2, <2>3, <2>4
  <1>7. CASE UNCHANGED <<index, checkpoint>>
    BY <1>1, <1>7
  <1>8. \/ Start \/ Close \/ Crash \/ PowerLoss \/ Checkpoint \/ DamageIndex \/ UpsertHistory \/ WriteIndex
        \/ UNCHANGED <<index, checkpoint>>
    BY DEF Next, CompressStep, ViewStep, FaultStep, Compress, WriteObject, WriteMeta, SaveNodes,
       SaveManifest, CompressFails, SetView, ClearView, LinkCandidate, DamageObject, vars, disk
  <1>. QED BY <1>3, <1>4, <1>5, <1>6, <1>7, <1>8

\* What healing rests on (openStore, indexLooksLost, rebuildFromObjects of store/db.ts).
THEOREM HealCorrect == Spec => [](ArchiveInv /\ HealInv)
  <1>1. Init => HealInv
    BY FS_EmptySet DEF Init, HealInv, IndexConsistent, EmptyIndex
  <1>2. ArchiveInv /\ HealInv /\ [Next]_vars => HealInv'
    <2>. SUFFICES ASSUME ArchiveInv, HealInv, [Next]_vars PROVE HealInv'
      OBVIOUS
    <2>1. IsFiniteSet(refs')
      <3>1. CASE refs' = refs
        BY <3>1 DEF HealInv
      <3>2. CASE WriteMeta
        <4>1. refs' \subseteq refs \cup ArchiveRows(job.ns, job.hist) /\ job.hist \in Histories
          BY <3>2, WithRowsBounds DEF WriteMeta, ArchiveInv, StateShape, JobType
        <4>2. IsFiniteSet(refs \cup ArchiveRows(job.ns, job.hist))
          BY <4>1, FiniteArchive, FS_Union DEF HealInv
        <4>. QED BY <4>1, <4>2, FS_Subset
      <3>3. ASSUME NEW a \in Archives, LinkCandidate(a[1], a[2]) PROVE IsFiniteSet(refs')
        <4>. DEFINE from == {s \in refs : s[1] = a[1] /\ s[2] = a[2]}
                    copied == {<<a[1], CandidateOf[a[2]], r[3], r[4]>> : r \in from}
                    f == [r \in from |-> <<a[1], CandidateOf[a[2]], r[3], r[4]>>]
        <4>1. refs' \subseteq refs \cup copied
          BY <3>3, WithRowsBounds DEF LinkCandidate, LinkHistoryMeta
        <4>2. f \in Surjection(from, copied) /\ from \subseteq refs
          BY DEF Surjection
        <4>3. IsFiniteSet(copied)
          BY <4>2, FS_Subset, FS_Surjection DEF HealInv
        <4>4. IsFiniteSet(refs \cup copied)
          BY <4>3, FS_Union DEF HealInv
        <4>. QED BY <4>1, <4>4, FS_Subset
      <3>4. refs' = refs \/ WriteMeta \/ \E a \in Archives : LinkCandidate(a[1], a[2])
        BY DEF Next, CompressStep, ViewStep, FaultStep, Start, Close, Stopped, Checkpoint, Crash, PowerLoss,
           DamageIndex, Compress, WriteObject, WriteIndex, UpsertHistory, SaveNodes, SaveManifest,
           CompressFails, SetView, ClearView, DamageObject, vars, disk, meta
      <3>. QED BY <3>1, <3>2, <3>3, <3>4
    <2>2. ~damaged' => \A hash \in Hashes : objects'[hash] \in {"absent", "ok"}
      <3>1. CASE UNCHANGED <<objects, damaged>>
        BY <3>1 DEF HealInv
      <3>2. CASE WriteObject
        BY <3>2 DEF WriteObject, HealInv, ArchiveInv, StateShape
      <3>3. CASE damaged'
        BY <3>3
      <3>4. UNCHANGED <<objects, damaged>> \/ WriteObject \/ damaged'
        BY DEF Next, CompressStep, ViewStep, FaultStep, Start, Close, Stopped, Checkpoint, Crash, PowerLoss,
           DamageIndex, Compress, WriteMeta, WriteIndex, UpsertHistory, SaveNodes, SaveManifest,
           CompressFails, SetView, ClearView, LinkCandidate, DamageObject, vars, disk
      <3>. QED BY <3>1, <3>2, <3>3, <3>4
    <2>. QED BY <2>1, <2>2, IndexStaysConsistent DEF HealInv
  <1>. QED BY <1>1, <1>2, ArchiveCorrect, PTL DEF Spec

\* Only a start opens the store.
LEMMA OnlyStartOpens ==
  ASSUME [Next]_vars, ~open, open'
  PROVE  Start
  BY DEF Next, CompressStep, ViewStep, FaultStep, Close, Stopped, Checkpoint, Crash, PowerLoss, DamageIndex,
     Compress, MyTurn, WriteObject, WriteMeta, WriteIndex, UpsertHistory, SaveNodes, SaveManifest,
     CompressFails, SetView, ClearView, LinkCandidate, DamageObject, vars

\* An engine that has started finds every archived message, while no object was ever
\* damaged (indexLooksLost): for any number of crashes and power losses.
THEOREM HealAlwaysCompletes == Spec => HealCompletes
  <1>1. ArchiveInv /\ HealInv /\ [Next]_vars =>
          [(~open /\ open' /\ ~damaged) =>
             index'.chunkRefs = Logical(refs) /\ index'.chunks = {r[4] : r \in refs}]_vars
    <2>. SUFFICES ASSUME ArchiveInv, HealInv, [Next]_vars, ~open, open', ~damaged
                  PROVE  index'.chunkRefs = Logical(refs) /\ index'.chunks = {r[4] : r \in refs}
      OBVIOUS
    <2>1. Start
      BY OnlyStartOpens
    <2>2. CASE NeedsHeal(index)
      BY <2>1, <2>2, Rebuilt DEF Start
    <2>3. CASE ~NeedsHeal(index)
      BY <2>1, <2>3, NotLostIsWhole DEF Start
    <2>. QED BY <2>2, <2>3
  <1>. QED BY <1>1, HealCorrect, PTL DEF Spec, HealCompletes

\* The next start needs no rebuild, whatever objects are missing (rebuild_state).
THEOREM HealAlwaysConverges == Spec => HealConverges
  <1>1. ArchiveInv /\ HealInv /\ [Next]_vars => [(~open /\ open') => ~NeedsHeal(index')]_vars
    <2>. SUFFICES ASSUME ArchiveInv, HealInv, [Next]_vars, ~open, open'
                  PROVE  ~NeedsHeal(index')
      OBVIOUS
    <2>1. Start
      BY OnlyStartOpens
    <2>2. CASE NeedsHeal(index)
      <3>1. index' = RebuildFromObjects
        BY <2>1, <2>2 DEF Start
      <3>. QED BY <3>1, Rebuilt
    <2>3. CASE ~NeedsHeal(index)
      <3>1. index' = index
        BY <2>1, <2>3 DEF Start
      <3>. QED BY <2>3, <3>1
    <2>. QED BY <2>2, <2>3
  <1>. QED BY <1>1, HealCorrect, PTL DEF Spec, HealConverges

============================================================================
