------------------------- MODULE HeadroomRetrieval -------------------------
(***************************************************************************)
(* Retrieval from the archive of one session, page by page: a history with *)
(* the archives it replaced (history-reader.ts), the sources or the        *)
(* children of a layered node (node-retrieval.ts) and search results       *)
(* (engine.ts).  A page is bounded in bytes and items; the position after  *)
(* it travels in a cursor that survives a restart.  The plugin's tool      *)
(* (retrieval.ts) asks again from the same cursor with a smaller budget    *)
(* when an answer does not fit.  Between two awaits of a page, and between *)
(* pages, objects may vanish and come back and archives are added.         *)
(***************************************************************************)
EXTENDS Integers, FiniteSets, SequencesExt

CONSTANTS Histories, Hashes, NodeIds,
          Messages,      \* the messages of a history, in order
          ChildOf,       \* the history a replacement message stands for, or Nobody
          Owned,         \* the histories this session archives
          NodeChildren,  \* the children of a node, in order
          NodeSources,   \* the messages a node cites, in order
          Ranked,        \* the messages matching the query, best first
          Text,          \* the UTF-8 sizes of a message's code points
          Budgets,       \* the byte budgets clients ask for
          Limits,        \* the item limits clients ask for
          Depths,        \* the depths clients ask for
          RefSize,       \* the bytes a reference to a node takes in a page of children
          MaxDepth,      \* how deep clients ask, and archives and nodes nest, at most
          MaxChanges,    \* bound on losses, restarts and restored objects
          Nobody

ASSUME RetrievalAssumption ==
  /\ Histories \cap NodeIds = {} /\ Hashes \cap NodeIds = {}
  /\ "hits" \notin Histories \cup NodeIds /\ Nobody \notin Histories /\ Owned \subseteq Histories
  /\ Messages \in [Histories -> Seq(Hashes)] /\ ChildOf \in [Hashes -> Histories \cup {Nobody}]
  /\ NodeChildren \in [NodeIds -> Seq(NodeIds)] /\ NodeSources \in [NodeIds -> Seq(Hashes)]
  /\ Ranked \in Seq(Hashes) /\ Text \in [Hashes -> Seq(1..4)]
  /\ Budgets \subseteq Nat \ {0} /\ Limits \subseteq Nat \ {0}
  /\ RefSize \in Nat /\ MaxDepth \in Nat /\ Depths \subseteq 0..MaxDepth

VARIABLES archived,  \* the histories with rows in archive_refs
          readable,  \* the hashes whose object is present and undamaged
          reader,    \* a client and the request under way for it, or Nobody
          changes    \* losses, restarts and restored objects so far

retrievalVars == <<archived, readable, reader, changes>>

-----------------------------------------------------------------------------
(* paginateText.  Offsets count UTF-16 units: a code point of four bytes is  *)
(* a pair of surrogates.                                                     *)

\* The offset at which code point k starts, and the length of the text.
Offset(text, k) == (k - 1) + Cardinality({j \in 1..(k - 1) : text[j] = 4})
Length(text) == Offset(text, Len(text) + 1)
\* The bytes of the code points j to k.
Bytes(text, j, k) == Cardinality({b \in (j..k) \X (1..4) : b[2] <= text[b[1]]})

\* The page from offset start: "bad" for a cursor inside a code point or past the end,
\* "small" when not one code point fits.
PaginateText(text, start, budget) ==
  LET at == {k \in 1..Len(text) + 1 : Offset(text, k) = start}
  IN IF at = {} THEN [kind |-> "bad"]
     ELSE LET first == CHOOSE k \in at : TRUE
              fits  == {k \in (first - 1)..Len(text) : Bytes(text, first, k) <= budget}
              last  == CHOOSE k \in fits : \A j \in fits : j <= k
          IN IF last = first - 1 /\ first <= Len(text) THEN [kind |-> "small"]
             ELSE [kind |-> "page", end |-> Offset(text, last + 1),
                   bytes |-> Bytes(text, first, last), more |-> last < Len(text)]

-----------------------------------------------------------------------------
(* Where a reader stands: a stack of containers (histories, nodes, or the    *)
(* list of hits), each with the entry to go on from, and an offset in the    *)
(* text of that entry.                                                       *)

Frontier(c) == [stack |-> <<<<c, 0>>>>, intra |-> 0]

Request(mode, root, depth, snapshot) ==
  [mode |-> mode, root |-> root, depth |-> depth, snapshot |-> snapshot,
   cursor |-> Frontier(root), state |-> Frontier(root),
   budget |-> 0, limit |-> 0, page |-> <<>>, seen |-> <<>>, busy |-> FALSE, done |-> FALSE,
   failed |-> FALSE]

\* Cards show only hits whose object can be read; what is archived is indexed.
Hits ==
  FlattenSeq([k \in 1..Len(Ranked) |->
    IF Ranked[k] \in readable /\ \E h \in archived : Ranked[k] \in ToSet(Messages[h])
      THEN <<Ranked[k]>> ELSE <<>>])

Entries(c) ==
  IF c \in Histories THEN IF c \in archived THEN Messages[c] ELSE <<>>
  ELSE IF c \in NodeIds THEN NodeChildren[c] \o NodeSources[c]
  ELSE reader.snapshot

\* The container an entry opens: a child node, or the archive of a readable
\* replacement message that this session owns.
Opens(e) ==
  IF e \in NodeIds THEN {e}
  ELSE IF reader.mode = "history" /\ e \in readable THEN {ChildOf[e]} \cap archived
  ELSE {}

\* A hit's text comes from the index, everything else from the object.
HasText(e) == reader.mode = "query" \/ e \in readable

RetrievalInit ==
  /\ archived = {} /\ readable = {}
  /\ reader = Nobody /\ changes = 0

\* persistArchive of a history; a replacement message appears only after its archive.
ArchiveHistory(h) ==
  /\ h \in Owned \ archived
  /\ \A e \in ToSet(Messages[h]) : ChildOf[e] \in Owned => ChildOf[e] \in archived
  /\ archived' = archived \cup {h}
  /\ readable' = readable \cup ToSet(Messages[h])
  /\ UNCHANGED <<reader, changes>>

\* A file is damaged, or a replayed compress writes it again.
ObjectChanges(hash) ==
  /\ changes < MaxChanges /\ changes' = changes + 1
  /\ \E h \in archived : hash \in ToSet(Messages[h])
  /\ readable' = IF hash \in readable THEN readable \ {hash} ELSE readable \cup {hash}
  /\ UNCHANGED <<archived, reader>>

-----------------------------------------------------------------------------
(* Requests *)

AskFor(mode, root, depth, snapshot) ==
  /\ reader = Nobody
  /\ reader' = Request(mode, root, depth, snapshot)
  /\ UNCHANGED <<archived, readable, changes>>

AskHistory == \E h \in archived : AskFor("history", h, 0, <<>>)

\* A session has the nodes of what it has archived.
Present(n) == \E h \in archived : ToSet(NodeSources[n]) \subseteq ToSet(Messages[h])
AskNode ==
  \E n \in NodeIds :
    /\ Present(n)
    /\ AskFor("source", n, 0, <<>>) \/ \E d \in Depths : AskFor("children", n, d, <<>>)

\* The cursor of a query is bound to the results of its first page.
AskQuery == AskFor("query", "hits", 0, Hits)

\* The request for a page.  A query is run again; with other results its cursor is refused.
StartPage ==
  /\ reader # Nobody /\ ~reader.busy /\ ~reader.done
  /\ IF reader.mode = "query" /\ Hits # reader.snapshot
       THEN reader' = Nobody
       ELSE \E budget \in Budgets, limit \in Limits :
              reader' = [reader EXCEPT
                           !.busy = TRUE, !.failed = FALSE, !.budget = budget,
                           !.state = reader.cursor,
                           !.limit = CASE reader.mode = "source" -> 1
                                       [] reader.mode = "query" -> Len(Ranked) + 1
                                       [] OTHER -> limit]
  /\ UNCHANGED <<archived, readable, changes>>

\* The client gets an error and no page; it may ask again from the same cursor.
Dropped == [reader EXCEPT !.busy = FALSE, !.failed = TRUE, !.page = <<>>]

Top == Last(reader.state.stack)
TopEntries == Entries(Top[1])
Advanced == Append(Front(reader.state.stack), <<Top[1], Top[2] + 1>>)
HasItem == \E k \in 1..Len(reader.page) : ~reader.page[k].missing
Full == reader.budget <= 0 \/ Len(reader.page) >= reader.limit

Published(more) ==
  [reader EXCEPT !.seen = @ \o reader.page, !.page = <<>>, !.busy = FALSE, !.done = ~more,
                 !.cursor = reader.state]

\* No row is left in the container on top of the stack.
PopFrame ==
  /\ Top[2] >= Len(TopEntries)
  /\ reader' = [reader EXCEPT !.state.stack = Front(@)]

\* The entry is a container: go on inside it.
Descend(e) ==
  /\ \E c \in Opens(e) :
       reader' = IF \E k \in 1..Len(reader.state.stack) : reader.state.stack[k][1] = c
                   THEN Dropped    \* Invalid lineage
                   ELSE [reader EXCEPT !.state.stack = Append(Advanced, <<c, 0>>)]

\* Mutant: the offset in the message that is missing is kept for the one after it.
MissKeepsOffset(e) ==
  /\ Opens(e) = {} /\ ~HasText(e) /\ ~Full
  /\ reader' = IF reader.mode = "source" THEN Dropped
               ELSE [reader EXCEPT
                       !.page = Append(@, [hash |-> e, from |-> reader.state.intra,
                                           to |-> Length(Text[e]), missing |-> TRUE]),
                       !.state.stack = Advanced]

\* A leaf with nothing to read: reported missing in a history, an error for a node.
Miss(e) ==
  /\ Opens(e) = {} /\ ~HasText(e) /\ ~Full
  /\ reader' = IF reader.mode = "source" THEN Dropped
               ELSE [reader EXCEPT
                       !.page = Append(@, [hash |-> e, from |-> reader.state.intra,
                                           to |-> Length(Text[e]), missing |-> TRUE]),
                       !.state = [stack |-> Advanced, intra |-> 0]]

\* Mutant: a page in which nothing fits is published all the same.
TakeNothing(e) ==
  LET p == PaginateText(Text[e], reader.state.intra, reader.budget)
      item == [hash |-> e, from |-> reader.state.intra, to |-> p.end, missing |-> FALSE]
      whole == [reader EXCEPT !.page = Append(@, item), !.budget = @ - p.bytes,
                              !.state = [stack |-> Advanced, intra |-> 0]]
  IN /\ Opens(e) = {} /\ HasText(e) /\ ~Full
     /\ reader' =
          CASE p.kind # "page" -> Published(TRUE)
            [] p.kind = "page" /\ ~p.more -> whole
            [] OTHER -> [Published(TRUE) EXCEPT !.seen = Append(@, item),
                                                !.cursor.intra = p.end]

\* A leaf, or as much of it as fits; the page ends inside it when it does not fit.
Take(e) ==
  LET p == PaginateText(Text[e], reader.state.intra, reader.budget)
      item == [hash |-> e, from |-> reader.state.intra, to |-> p.end, missing |-> FALSE]
      whole == [reader EXCEPT !.page = Append(@, item), !.budget = @ - p.bytes,
                              !.state = [stack |-> Advanced, intra |-> 0]]
  IN /\ Opens(e) = {} /\ HasText(e) /\ ~Full
     /\ reader' =
          CASE p.kind # "page" -> IF HasItem THEN Published(TRUE) ELSE Dropped
            [] p.kind = "page" /\ ~p.more -> whole
            [] OTHER -> [Published(TRUE) EXCEPT !.seen = Append(@, item),
                                                !.cursor.intra = p.end]

\* One round of the loop of readHistoryPage, between two awaits.
ReadRow ==
  /\ reader # Nobody /\ reader.busy /\ reader.mode # "children"
  /\ reader.state.stack # <<>>
  /\ \/ PopFrame
     \/ /\ Top[2] < Len(TopEntries)
        /\ LET e == TopEntries[Top[2] + 1]
           IN \/ Descend(e) \/ Miss(e) \/ Take(e)
              \* A leaf is left and the page is full.
              \/ Opens(e) = {} /\ Full /\ reader' = Published(TRUE)
  /\ UNCHANGED <<archived, readable, changes>>

\* One round of readNodeChildren: nodes at the depth asked for, and childless ones above it,
\* as many as the budget has room for; a budget without room for one is an error.
ReadChild ==
  /\ reader # Nobody /\ reader.busy /\ reader.mode = "children"
  /\ reader.state.stack # <<>>
  /\ LET stack == reader.state.stack
         kids  == NodeChildren[Top[1]]
     IN \/ /\ Len(stack) - 1 >= reader.depth \/ kids = <<>>
           /\ reader' = IF (Len(reader.page) + 1) * RefSize <= reader.budget
                          THEN [reader EXCEPT !.page = Append(@, Top[1]), !.state.stack = Front(@)]
                        ELSE IF reader.page = <<>> THEN Dropped ELSE Published(TRUE)
        \/ /\ Len(stack) - 1 < reader.depth /\ kids # <<>>
           /\ reader' = IF Top[2] >= Len(kids)
                          THEN [reader EXCEPT !.state.stack = Front(@)]
                        ELSE IF \E k \in 1..Len(stack) : stack[k][1] = kids[Top[2] + 1]
                          THEN Dropped    \* Invalid node lineage
                        ELSE [reader EXCEPT !.state.stack = Append(Advanced, <<kids[Top[2] + 1], 0>>)]
  /\ UNCHANGED <<archived, readable, changes>>

LastPage ==
  /\ reader # Nobody /\ reader.busy /\ reader.state.stack = <<>>
  /\ reader' = Published(FALSE)
  /\ UNCHANGED <<archived, readable, changes>>

\* The answer was too large for the tool's envelope: the tool drops the page, never trims
\* it, and asks again.  A restart of the daemon drops the page as well, and so does an
\* unreadable row of a node.
PageLost ==
  /\ changes < MaxChanges /\ changes' = changes + 1
  /\ reader # Nobody /\ reader.busy
  /\ reader' = Dropped
  /\ UNCHANGED <<archived, readable>>

\* The client has enough, gives up, or its cursor has left the table of 4096.
StopReading ==
  /\ reader # Nobody /\ ~reader.busy /\ reader' = Nobody
  /\ UNCHANGED <<archived, readable, changes>>

RetrievalNext ==
  \/ \E h \in Histories : ArchiveHistory(h)
  \/ \E hash \in Hashes : ObjectChanges(hash)
  \/ AskHistory \/ AskNode \/ AskQuery
  \/ StartPage \/ ReadRow \/ ReadChild \/ LastPage \/ PageLost \/ StopReading

RetrievalSpec == RetrievalInit /\ [][RetrievalNext]_retrievalVars

-----------------------------------------------------------------------------
(* Properties *)

\* What a container holds, and the container an entry of it stands for: a replacement
\* message stands for the archive it replaced, when that is one of this session.
Containers == Histories \cup NodeIds
Held(c) == IF c \in Histories THEN Messages[c] ELSE NodeChildren[c] \o NodeSources[c]
StandsFor(c, e) ==
  IF e \in NodeIds THEN {e} ELSE IF c \in Histories THEN {ChildOf[e]} \cap Owned ELSE {}

\* An archive is made before the message that replaces it, a node after its children.
ASSUME NestingAssumption ==
  \E height \in [Containers -> 0..MaxDepth] :
    \A c \in Containers : \A k \in 1..Len(Held(c)) :
      \A b \in StandsFor(c, Held(c)[k]) : height[b] < height[c]

\* The units of a message between two offsets.
Span(hash, from, to) == [k \in 1..(to - from) |-> <<hash, from + k - 1>>]
Whole(hash) == Span(hash, 0, Length(Text[hash]))

\* The units below a container, and the nodes at a depth below a node.
UnitsTo[d \in 0..MaxDepth] ==
  [c \in Containers |->
     LET Piece(e) == IF StandsFor(c, e) = {} THEN Whole(e)
                     ELSE IF d = 0 THEN <<>>
                     ELSE UnitsTo[d - 1][CHOOSE b \in StandsFor(c, e) : TRUE]
     IN FlattenSeq([k \in 1..Len(Held(c)) |-> Piece(Held(c)[k])])]
Content(c) == UnitsTo[MaxDepth][c]

NodesAt[d \in 0..MaxDepth] ==
  [n \in NodeIds |->
     IF d = 0 \/ NodeChildren[n] = <<>> THEN <<n>>
     ELSE FlattenSeq([k \in 1..Len(NodeChildren[n]) |-> NodesAt[d - 1][NodeChildren[n][k]]])]

\* A replacement message reported missing stands for all of its archive.
ShownBy(item) ==
  IF item.missing /\ ChildOf[item.hash] \in Owned THEN Content(ChildOf[item.hash])
  ELSE Span(item.hash, item.from, item.to)
Shown(items) == FlattenSeq([k \in 1..Len(items) |-> ShownBy(items[k])])

\* What the request of a reader is about.
Wanted ==
  CASE reader.mode = "children" -> NodesAt[reader.depth][reader.root]
    [] reader.mode = "query" ->
         FlattenSeq([k \in 1..Len(reader.snapshot) |-> Whole(reader.snapshot[k])])
    [] OTHER -> Content(reader.root)

(* A client that follows the cursors is shown every character of what it asked
   for once and in order, or is told which message is missing: whatever pages
   were dropped and asked for again with another budget, whatever objects
   vanished or came back, whatever was archived or reindexed meanwhile. *)
PagesInOrder ==
  reader # Nobody =>
    LET shown == IF reader.mode = "children" THEN reader.seen ELSE Shown(reader.seen)
    IN IsPrefix(shown, Wanted) /\ (reader.done => shown = Wanted)

(* A request that is not refused with an error is answered with the last page
   or with a page that has something in it, so a client that goes on with the
   cursor it was given gets ahead: no page says there is more and repeats itself
   for ever, however small the budget and whatever went missing. *)
PagesAdvance ==
  [][(reader # Nobody /\ reader' # Nobody /\ reader.busy /\ ~reader'.busy /\ ~reader'.failed) =>
       reader'.done \/ Len(reader'.seen) > Len(reader.seen)]_retrievalVars
=============================================================================
