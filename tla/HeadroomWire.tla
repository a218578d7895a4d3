--------------------------- MODULE HeadroomWire ---------------------------
(***************************************************************************)
(* One connection between a HeadroomClient (headroomd/src/client.ts) and   *)
(* the daemon (server.ts): newline-delimited frames, cut into chunks       *)
(* anywhere by the socket and put together again by createLineReconstructor*)
(* (shared/src/jsonl.ts) on both sides; requests with timeouts, an         *)
(* admission limit, answers in the order of arrival, and the ways a        *)
(* connection ends.                                                        *)
(*                                                                         *)
(* A text is a sequence of UTF-16 units: "nl", "cr", the surrogates "hi"   *)
(* and "lo", the id of a call, or any other one-byte unit.  The first unit *)
(* of a frame is its id.                                                   *)
(***************************************************************************)
EXTENDS Naturals, FiniteSets, Sequences

CONSTANTS Calls,
          OneByte,            \* the one-byte units of texts
          Question, Reply,    \* the texts of a call's request and answer after its id
          MaxFrame,           \* maxFrameBytes
          MaxWaiting,         \* calls a client has under way: 32
          MaxAdmitted         \* requests a daemon has admitted: 32

\* JSON.stringify escapes line ends, and the id of a call is nowhere else in a frame.
Signs == {"nl", "cr", "hi", "lo", "?"}
Texts == Seq(OneByte \cup {"hi", "lo"})

ASSUME WireAssumption ==
  /\ Calls \cap (OneByte \cup Signs) = {} /\ OneByte \cap Signs = {}
  /\ Question \in [Calls -> Texts] /\ Reply \in [Calls -> Texts]
  /\ MaxFrame \in Nat /\ MaxWaiting \in Nat /\ MaxAdmitted \in Nat

VARIABLES calls,     \* the state of each call, with the text it was answered with
          closed,    \* close() was called
          attached,  \* the client's socket is not destroyed
          serving,   \* the daemon's side is not destroyed
          toDaemon, toClient,  \* units under way to the daemon and to the client
          heard,     \* units the client has read
          ear, desk, \* line reconstructors of the client and of the daemon
          tail       \* admitted lines whose operation has not ended

wireVars == <<calls, closed, attached, serving, toDaemon, toClient, heard, ear, desk, tail>>

-----------------------------------------------------------------------------
(* createLineReconstructor *)

EmptyLine == [text |-> <<>>, bytes |-> 0, high |-> FALSE, over |-> FALSE]

\* UTF-8 bytes of a string: a pair of surrogates takes four, one alone three.
Surrogates(text) == {k \in 1..Len(text) : text[k] \in {"hi", "lo"}}
Pairs(text) == {k \in 1..(Len(text) - 1) : text[k] = "hi" /\ text[k + 1] = "lo"}
ByteLength(text) ==
  Len(text) + 2 * Cardinality(Surrogates(text)) - 2 * Cardinality(Pairs(text))

\* append: a pair that straddles two parts was counted as two lone surrogates.
AppendPart(line, part) ==
  LET joined == IF line.high /\ part[1] = "lo" THEN 2 ELSE 0
      bytes  == line.bytes + ByteLength(part) - joined
  IN IF part = <<>> THEN line
     ELSE IF bytes > MaxFrame THEN [EmptyLine EXCEPT !.over = TRUE]
     ELSE [text |-> line.text \o part, bytes |-> bytes, high |-> part[Len(part)] = "hi", over |-> FALSE]

WithoutCR(text) ==
  IF text # <<>> /\ text[Len(text)] = "cr" THEN SubSeq(text, 1, Len(text) - 1) ELSE text

\* The parts of a chunk between its newlines; only the last one stays open.
AddUnit(parts, unit) ==
  IF unit = "nl" THEN Append(parts, <<>>) ELSE [parts EXCEPT ![Len(parts)] = Append(@, unit)]
Parts(chunk) ==
  LET cut[n \in 0..Len(chunk)] ==
        IF n = 0 THEN << <<>> >> ELSE AddUnit(cut[n - 1], chunk[n])
  IN cut[Len(chunk)]

\* The round of push for a part that a newline ends.
CompletePart(acc, part) ==
  LET next == AppendPart(acc.line, part)
  IN IF acc.line.over THEN acc
     ELSE IF next.over THEN [acc EXCEPT !.line = next]
     ELSE [line |-> EmptyLine, lines |-> Append(acc.lines, WithoutCR(next.text))]

\* push: the lines that were completed before an overflow are kept.
Push(line, chunk) ==
  LET parts == Parts(chunk)
      round[n \in 0..(Len(parts) - 1)] ==
        IF n = 0 THEN [line |-> line, lines |-> <<>>] ELSE CompletePart(round[n - 1], parts[n])
      done == round[Len(parts) - 1]
  IN IF done.line.over THEN done
     ELSE [line |-> AppendPart(done.line, parts[Len(parts)]), lines |-> done.lines]

-----------------------------------------------------------------------------
(* The client *)

WireInit ==
  /\ calls = [c \in Calls |-> [state |-> "new", text |-> <<>>]]
  /\ closed = FALSE /\ attached = TRUE /\ serving = TRUE
  /\ toDaemon = <<>> /\ toClient = <<>> /\ heard = <<>> /\ tail = <<>>
  /\ ear = EmptyLine /\ desk = EmptyLine

Waiting == {c \in Calls : calls[c].state = "waiting"}
FailAll == [c \in Calls |-> IF c \in Waiting THEN [calls[c] EXCEPT !.state = "failed"] ELSE calls[c]]

\* request: refused when the client is closed, has too many calls under way or too many bytes,
\* those that the socket has not taken included.
Ask(c) ==
  /\ calls[c].state = "new"
  /\ \/ calls' = [calls EXCEPT ![c].state = "refused"] /\ UNCHANGED toDaemon
     \/ /\ ~closed /\ attached /\ Cardinality(Waiting) < MaxWaiting
        /\ calls' = [calls EXCEPT ![c].state = "waiting"]
        /\ toDaemon' = IF serving THEN toDaemon \o <<c>> \o Question[c] \o <<"nl">> ELSE toDaemon
  /\ UNCHANGED <<closed, attached, serving, toClient, heard, ear, desk, tail>>

\* The timer retires the id; a late answer finds nobody.
AskTimesOut(c) ==
  /\ c \in Waiting
  /\ calls' = [calls EXCEPT ![c].state = "late"]
  /\ UNCHANGED <<closed, attached, serving, toDaemon, toClient, heard, ear, desk, tail>>

\* The calls after the client has handled the lines, in order; other lines are dropped.
Mine(lines, c) == {k \in 1..Len(lines) : lines[k] # <<>> /\ lines[k][1] = c}
Earliest(S) == CHOOSE k \in S : \A j \in S : k <= j
Settled(lines) ==
  [c \in Calls |-> IF c \in Waiting /\ Mine(lines, c) # {}
                     THEN [state |-> "answered", text |-> Tail(lines[Earliest(Mine(lines, c))])]
                     ELSE calls[c]]

\* Mutant: the lines completed before an overflow are dropped with the rest of the chunk.
OnDataWithoutLines(n) ==
  LET pushed == Push(ear, SubSeq(toClient, 1, n))
  IN /\ attached /\ n \in 1..Len(toClient)
     /\ toClient' = SubSeq(toClient, n + 1, Len(toClient))
     /\ heard' = heard \o SubSeq(toClient, 1, n)
     /\ ear' = pushed.line
     /\ attached' = ~pushed.line.over
     /\ calls' = IF pushed.line.over THEN FailAll ELSE Settled(pushed.lines)
     /\ UNCHANGED <<closed, serving, toDaemon, desk, tail>>

\* onData: the lines of a chunk are handled, then an overflow ends the connection.
OnData(n) ==
  LET pushed == Push(ear, SubSeq(toClient, 1, n))
      settled == Settled(pushed.lines)
  IN /\ attached /\ n \in 1..Len(toClient)
     /\ toClient' = SubSeq(toClient, n + 1, Len(toClient))
     /\ heard' = heard \o SubSeq(toClient, 1, n)
     /\ ear' = pushed.line
     /\ attached' = ~pushed.line.over
     /\ calls' = [c \in Calls |-> IF pushed.line.over /\ settled[c].state = "waiting"
                                    THEN [settled[c] EXCEPT !.state = "failed"] ELSE settled[c]]
     /\ UNCHANGED <<closed, serving, toDaemon, desk, tail>>

\* "end", "error" and "close" of the socket, the last perhaps with data still under way.
Disconnected ==
  /\ attached /\ (~serving \/ closed)
  /\ attached' = FALSE /\ calls' = FailAll
  /\ UNCHANGED <<closed, serving, toDaemon, toClient, heard, ear, desk, tail>>

\* close: fail what waits, end the socket, and destroy it a second later at most.
CloseClient ==
  /\ ~closed /\ closed' = TRUE
  /\ calls' = IF attached THEN FailAll ELSE calls
  /\ UNCHANGED <<attached, serving, toDaemon, toClient, heard, ear, desk, tail>>

-----------------------------------------------------------------------------
(* The daemon *)

\* What of the data under way still arrives when the daemon's side is destroyed.
Cut(sent) == {SubSeq(sent, 1, k) : k \in 0..Len(sent)}
Destroyed(sent) == serving' = FALSE /\ toDaemon' = <<>> /\ toClient' \in Cut(sent)

\* The handler of "data".  Without an overflow the lines are admitted one by one, and the
\* first one over the limit destroys the connection; with one, none of the chunk's lines is
\* admitted, and an answer without id is tried before the connection is destroyed.  There is
\* room for fewer when other connections have requests admitted, or bytes.
ReadRequests(n, room) ==
  LET pushed == Push(desk, SubSeq(toDaemon, 1, n))
      taken == IF pushed.line.over THEN <<>>
               ELSE SubSeq(pushed.lines, 1, IF Len(pushed.lines) > room THEN room ELSE Len(pushed.lines))
  IN /\ serving /\ n \in 1..Len(toDaemon)
     /\ desk' = pushed.line
     /\ tail' = tail \o taken
     /\ IF pushed.line.over THEN Destroyed(toClient \o <<"?", "nl">>)
        ELSE IF Len(pushed.lines) > room THEN Destroyed(toClient)
        ELSE toDaemon' = SubSeq(toDaemon, n + 1, Len(toDaemon)) /\ UNCHANGED <<serving, toClient>>
     /\ UNCHANGED <<calls, closed, attached, heard, ear>>

\* respond: write to a connection that is there, or destroy one whose reader is too slow.
Respond(frame) ==
  \/ serving /\ toClient' = toClient \o frame /\ UNCHANGED <<serving, toDaemon>>
  \/ serving /\ Destroyed(toClient)
  \/ ~serving /\ UNCHANGED <<serving, toDaemon, toClient>>

\* A request is answered under its id, also with an error, any other line without one.
Response(line) ==
  IF line # <<>> /\ line[1] \in Calls THEN <<line[1]>> \o Reply[line[1]] \o <<"nl">>
  ELSE <<"?", "nl">>

\* handleLine of the line admitted first, after the operation before it.
HandleLine ==
  /\ tail # <<>> /\ tail' = Tail(tail)
  /\ Respond(Response(Head(tail)))
  /\ UNCHANGED <<calls, closed, attached, heard, ear, desk>>

\* The daemon sees the end of the client's side, shuts down, or dies.
ServerEnds ==
  /\ serving /\ Destroyed(toClient)
  /\ UNCHANGED <<calls, closed, attached, heard, ear, desk, tail>>

WireNext ==
  \/ \E c \in Calls : Ask(c) \/ AskTimesOut(c)
  \/ \E n \in 1..Len(toClient) : OnData(n)
  \/ \E n \in 1..Len(toDaemon), room \in 0..(MaxAdmitted - Len(tail)) : ReadRequests(n, room)
  \/ Disconnected \/ CloseClient \/ HandleLine \/ ServerEnds

WireSpec == WireInit /\ [][WireNext]_wireVars

-----------------------------------------------------------------------------
(* Properties *)

\* The frames of a stream, whatever chunks it came in: those before the first one that is
\* too large, and what is left of the last one.
TooLarge(parts) == {k \in 1..Len(parts) : ByteLength(parts[k]) > MaxFrame}
Frames(stream) ==
  LET parts == Parts(stream)
      large == TooLarge(parts)
      first == IF large = {} THEN Len(parts) ELSE Earliest(large)
  IN [whole |-> SubSeq(parts, 1, first - 1), rest |-> parts[first], over |-> large # {}]

(* However the socket cuts the stream into chunks, a client has handled exactly
   the answers among the whole frames it has read: a call is answered only with
   its own whole answer; one that still waits, or has failed without a close()
   of the client, had none among the frames, so an answer in the same chunk as a
   frame that is too large is not lost (client.ts onData, completedLines); and a
   frame is found too large exactly when it is.  A call fails only with its
   connection, and once that is gone no call is left waiting. *)
AnswersExact ==
  LET frames == Frames(heard)
      Got(c) == Mine(frames.whole, c) # {}
  IN /\ ear.over = frames.over
     /\ ~frames.over => ear.text = frames.rest /\ ear.bytes = ByteLength(frames.rest)
     /\ \A c \in Calls : /\ calls[c].state = "answered" => Got(c) /\ calls[c].text = Reply[c]
                         /\ calls[c].state = "waiting" => ~Got(c) /\ attached /\ ~closed
                         /\ calls[c].state = "failed" => closed \/ (~Got(c) /\ ~attached)
=============================================================================
