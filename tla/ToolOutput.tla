----------------------------- MODULE ToolOutput -----------------------------
(***************************************************************************)
(* rtk-core: how a tool's output is made smaller.  A strategy for the kind *)
(* of output turns its lines into classified ones, anchors that are never  *)
(* dropped and others with a priority, folding some into markers           *)
(* (strategies/*.ts); budget.ts elides the blocks of lowest priority until *)
(* the rest fits; pipeline.ts returns the result with the ranges of source *)
(* lines it leaves out, or the raw text when nothing is gained.            *)
(*                                                                         *)
(* A source line is a record of what the strategies' patterns tell apart:  *)
(* its class, its length, and the file and number a match names.           *)
(***************************************************************************)
LOCAL INSTANCE Integers
LOCAL INSTANCE FiniteSets
LOCAL INSTANCE SequencesExt
LOCAL INSTANCE TLC

CONSTANTS Tools,         \* "test", "ls" (ls -la), "paths" (a list of paths), "grep", "diff"
          LinesOf,       \* the lines a tool may print
          MaxLines,      \* bound
          MarkerSize,    \* length of a marker a strategy adds
          SummarySize,   \* length of a summary of an elided block
          FooterSize,    \* length of the footer with the hash
          CharsPerToken, \* 4
          OutputBudget,  \* budgetTokens
          KeepFiles,     \* files the ls strategy keeps per directory: 8
          KeepEntries,   \* paths it keeps per directory: 5
          MergeGap       \* lines between matches that are merged: 3

VARIABLES tool, output   \* the tool that runs and what it has printed

outputVars == <<tool, output>>

OutputInit == tool = "none" /\ output = <<>>
RunTool == tool = "none" /\ tool' \in Tools /\ UNCHANGED output
PrintLine ==
  /\ tool # "none" /\ Len(output) < MaxLines
  /\ \E l \in LinesOf[tool] : output' = Append(output, l)
  /\ UNCHANGED tool
OutputNext == RunTool \/ PrintLine

-----------------------------------------------------------------------------
(* Classified lines; src 0 is a line the strategy made up. *)

Anchor(i, prio, group) ==
  [src |-> i, size |-> output[i].size, anchor |-> TRUE, priority |-> prio, group |-> group]
Loose(i, prio, group) == [Anchor(i, prio, group) EXCEPT !.anchor = FALSE]
Marker(prio, group) ==
  [src |-> 0, size |-> MarkerSize, anchor |-> FALSE, priority |-> prio, group |-> group]
Low == 1
Normal == 2
High == 3
Critical == 4

Numbered == [i \in DOMAIN output |-> i]
Sorted(at, Before(_, _)) == SortSeq(SelectSeq(Numbered, LAMBDA i : i \in at), Before)

\* Mutant: a passing case in the middle of a failure ends its region.
ActiveUntilCase ==
  LET a[i \in 0..Len(output)] ==
        /\ i > 0 /\ output[i].class \notin {"passed", "pass", "case"}
        /\ (output[i].class = "seed" \/ a[i - 1])
  IN a

\* test: a failure region goes from its seed to the next line that reports a pass to the
\* runner ("passed" heads a suite, "pass" is a case), and back over the detail in the two
\* lines before.
Active ==
  LET a[i \in 0..Len(output)] ==
        i > 0 /\ output[i].class \notin {"passed", "pass"} /\ (output[i].class = "seed" \/ a[i - 1])
  IN a
InBlock(i) ==
  \/ Active[i]
  \/ /\ output[i].class = "detail"
     /\ \E k \in (i + 1)..(i + 2) : k <= Len(output) /\ output[k].class = "seed"

\* Runs of passing cases fold into one marker of the suite they are in.  "failed" is a
\* header FAILED, which heads a suite but starts no failure region (FAIL does), nor ends one.
Role(i) == IF InBlock(i) THEN "failure" ELSE output[i].class
TestLine(acc, i, role) ==
  IF role \in {"case", "pass"} THEN [acc EXCEPT !.passes = @ + 1]
  ELSE [lines |-> acc.lines
                  \o (IF acc.passes = 0 THEN <<>> ELSE <<Marker(Low, acc.suite)>>)
                  \o <<CASE role = "failure" -> Anchor(i, Critical, acc.suite)
                         [] role \in {"passed", "failed"} -> Anchor(i, High, output[i].file)
                         [] role = "total" -> Anchor(i, Critical, "summary")
                         [] role = "blank" -> Loose(i, Low, "other")
                         [] OTHER -> Anchor(i, Normal, "other")>>,
        passes |-> 0,
        suite |-> IF role \in {"passed", "failed", "suite"} THEN output[i].file ELSE acc.suite]
\* What is left at the end is folded too.
TestStrategy ==
  LET all[i \in 0..Len(output)] ==
        IF i = 0 THEN [lines |-> <<>>, passes |-> 0, suite |-> "tests"]
        ELSE TestLine(all[i - 1], i, Role(i))
      Folded(acc) == IF acc.passes = 0 THEN acc.lines ELSE Append(acc.lines, Marker(Low, acc.suite))
  IN Folded(all[Len(output)])

\* ls -la: directories, totals and headers are anchors; files of a directory beyond the first ones
\* are counted in one marker, at the place of the first of them.  Blank lines are dropped.
LsStrategy ==
  LET Step(acc, i) ==
        LET nth == acc.files[acc.dir] + 1
        IN CASE output[i].class = "blank" -> acc
             [] output[i].class = "section" ->
                  [acc EXCEPT !.dir = output[i].file,
                              !.lines = Append(@, Anchor(i, Critical, output[i].file))]
             [] output[i].class \in {"dir", "total"} -> [acc EXCEPT !.lines = Append(@, Anchor(i, Critical, acc.dir))]
             [] output[i].class = "file" ->
                  [acc EXCEPT !.files[acc.dir] = nth,
                              !.lines = IF nth <= KeepFiles THEN Append(@, Loose(i, High, acc.dir))
                                        ELSE IF nth = KeepFiles + 1 THEN Append(@, Marker(Low, acc.dir))
                                        ELSE @]
             [] OTHER -> [acc EXCEPT !.lines = Append(@, Loose(i, Normal, acc.dir))]
      dirs == {"."} \cup {output[i].file : i \in DOMAIN output}
  IN FoldLeft(Step, [lines |-> <<>>, files |-> [d \in dirs |-> 0], dir |-> "."], Numbered).lines

\* A list of paths: the directories all have in common become a header, the first paths of
\* a directory are anchors, the others are counted in a marker.
PathsStrategy ==
  LET IsPath(i) == output[i].class = "path"
      dirs == {output[i].file : i \in {i \in DOMAIN output : IsPath(i)}}
      header == IF dirs # {} /\ LongestCommonPrefix(dirs) # <<>>
                THEN <<[Marker(Critical, "prefix") EXCEPT !.anchor = TRUE]>> ELSE <<>>
      Nth(i) == Cardinality({k \in 1..i : IsPath(k) /\ output[k].file = output[i].file})
      Line(i) ==
        CASE ~IsPath(i) -> <<Loose(i, IF output[i].class = "blank" THEN Low ELSE Normal, <<"other">>)>>
          [] IsPath(i) /\ Nth(i) <= KeepEntries -> <<Anchor(i, Critical, output[i].file)>>
          [] IsPath(i) /\ Nth(i) = KeepEntries + 1 -> <<Marker(Low, output[i].file)>>
          [] OTHER -> <<>>
  IN header \o FlattenSeq([i \in DOMAIN output |-> Line(i)])

IsMatch(i) == output[i].class \in {"match", "error"}
IsHeading(i) == /\ output[i].class = "heading"
                /\ \E k \in DOMAIN output : IsMatch(k) /\ output[k].file = output[i].file
\* grep: what is no match comes first, then for each file, in the order they appear, its
\* first match and its matches that report an error, and a marker for each range.
GrepStrategy ==
  LET Pick(P(_)) == SelectSeq(Numbered, P)
      files == FoldLeft(LAMBDA acc, i : IF Contains(acc, output[i].file) THEN acc
                                        ELSE Append(acc, output[i].file), <<>>, Pick(IsMatch))
      Other(i) == IF output[i].class = "blank" THEN Loose(i, Low, "other")
                  ELSE Anchor(i, IF IsHeading(i) THEN Critical ELSE Normal, "other")
      others == LET at == Pick(LAMBDA i : ~IsMatch(i)) IN [k \in DOMAIN at |-> Other(at[k])]
      Matches(f) == Sorted({i \in DOMAIN output : IsMatch(i) /\ output[i].file = f},
                           LAMBDA i, j : \/ output[i].no < output[j].no
                                         \/ output[i].no = output[j].no /\ i < j)
      Ranges(s) == {k \in DOMAIN s : k = 1 \/ output[s[k]].no - output[s[k - 1]].no > MergeGap + 1}
      Group(f) ==
        LET s == Matches(f)
            errors == SelectSeq(Tail(s), LAMBDA i : output[i].class = "error")
        IN [k \in 1..(1 + Len(errors)) |-> Anchor(IF k = 1 THEN s[1] ELSE errors[k - 1], Critical, f)]
           \o [k \in 1..Cardinality(Ranges(s)) |-> Marker(Normal, f)]
  IN others \o FlattenSeq([k \in DOMAIN files |-> Group(files[k])])

\* diff: every changed line and header is an anchor, context is not.
DiffStrategy ==
  [i \in DOMAIN output |->
     [Anchor(i, Normal, "diff-context") EXCEPT !.anchor = output[i].class # "context"]]

\* The strategy's own checks: "unknown" falls back to the text as it is.
Known ==
  LET Lines(C) == {i \in DOMAIN output : output[i].class \in C}
      all == Len(output) - Cardinality(Lines({"blank"}))
      Most(found) == all > 0 /\ 10 * Cardinality(found) >= 9 * all
  IN CASE tool = "ls" -> Most(Lines({"section", "dir", "total", "file"}))
       [] tool = "paths" -> Most(Lines({"path"}))
       [] tool = "grep" -> Most({i \in DOMAIN output : IsMatch(i) \/ IsHeading(i)})
       [] tool = "diff" -> Lines({"hunk"}) # {} /\ Lines({"odd"}) = {}
       [] OTHER -> TRUE
Classified ==
  CASE tool = "test" -> TestStrategy [] tool = "ls" -> LsStrategy [] tool = "paths" -> PathsStrategy
    [] tool = "grep" -> GrepStrategy [] OTHER -> DiffStrategy

-----------------------------------------------------------------------------
(* applyBudget *)

Chars(lines) == FoldSeq(LAMBDA l, acc : acc + l.size + 1, 0, lines)
Tokens(chars) == (chars + CharsPerToken - 1) \div CharsPerToken

Same(lines, i, j) ==
  /\ ~lines[i].anchor /\ ~lines[j].anchor
  /\ lines[i].group = lines[j].group /\ lines[i].priority = lines[j].priority

\* The blocks of adjacent lines of one group and priority whose summary is shorter, those
\* of low priority first.
Starts(lines, i) == ~lines[i].anchor /\ (i > 1 => ~Same(lines, i - 1, i))
BlockEnd(lines, i) == Max({j \in i..Len(lines) : \A k \in i..j : Same(lines, i, k)})
Block(lines, i, end) ==
  [from |-> i, to |-> end, priority |-> lines[i].priority,
   gain |-> Chars(SubSeq(lines, i, end)) - SummarySize - 1]
Blocks(lines) ==
  LET starts == SelectSeq([i \in DOMAIN lines |-> i], LAMBDA i : Starts(lines, i))
      blocks == [k \in DOMAIN starts |-> Block(lines, starts[k], BlockEnd(lines, starts[k]))]
  IN SortSeq(SelectSeq(blocks, LAMBDA b : b.gain > 0),
          LAMBDA b, c : b.priority < c.priority \/ (b.priority = c.priority /\ b.from < c.from))

\* Blocks are elided in that order until the text and its footer fit.
Elide(chars, blocks) ==
  LET step[k \in 0..Len(blocks)] ==
        IF k = 0 THEN [blocks |-> <<>>, chars |-> chars + FooterSize]
        ELSE IF Tokens(step[k - 1].chars) <= OutputBudget THEN step[k - 1]
        ELSE [blocks |-> SubSeq(blocks, 1, k), chars |-> step[k - 1].chars - blocks[k].gain]
  IN step[Len(blocks)]
Selected(lines) == Elide(Chars(lines), Blocks(lines))

-----------------------------------------------------------------------------
(* compressToolOutput *)

RawTokens == Tokens(IF output = <<>> THEN 0 ELSE Chars(output) - 1)

\* Source lines without a kept line, as ranges.
OmittedRanges(retained) ==
  FoldLeft(LAMBDA acc, i :
             IF i \in retained THEN acc
             ELSE IF acc # <<>> /\ Last(acc)[2] = i - 1 THEN Append(Front(acc), <<Last(acc)[1], i>>)
             ELSE Append(acc, <<i, i>>),
           <<>>, Numbered)

Unchanged == [compressed |-> FALSE, kept |-> DOMAIN output, omitted |-> <<>>, tokens |-> RawTokens]
Shown(lines, gone) ==
  {lines[i].src : i \in {i \in DOMAIN lines : \A k \in DOMAIN gone : i \notin gone[k].from..gone[k].to}}
    \ {0}
Assemble(kept, tokens) ==
  [compressed |-> TRUE, kept |-> kept, omitted |-> OmittedRanges(kept), tokens |-> tokens]
Shorter(lines, chosen) ==
  IF Tokens(chosen.chars) >= RawTokens THEN Unchanged
  ELSE Assemble(Shown(lines, chosen.blocks), Tokens(chosen.chars))
Compress(lines) == Shorter(lines, Selected(lines))
CompressToolOutput ==
  IF RawTokens <= OutputBudget \/ ~Known THEN Unchanged ELSE Compress(Classified)

-----------------------------------------------------------------------------
(* Properties *)

\* Lines the strategies promise to keep.
Vital(i) ==
  LET l == output[i]
  IN CASE tool = "test" -> l.class \in {"seed", "total", "passed", "failed"}
                           \/ \E k \in 1..i : /\ output[k].class = "seed"
                                              /\ \A j \in k..i : output[j].class \notin {"passed", "pass"}
       [] tool = "ls" -> l.class \in {"section", "dir", "total"}
       [] tool = "paths" -> l.class = "path" /\ \A k \in 1..(i - 1) : output[k].file # l.file
       [] tool = "grep" -> l.class = "error" \/ (l.class = "match" /\ \A k \in DOMAIN output :
                             output[k].class \in {"match", "error"} /\ output[k].file = l.file
                               => output[k].no >= l.no /\ (output[k].no = l.no => k >= i))
       [] OTHER -> l.class \in {"change", "hunk"}

Exact(r) ==
  /\ \A i \in DOMAIN output : Vital(i) => i \in r.kept
  /\ UNION {q[1]..q[2] : q \in ToSet(r.omitted)} = DOMAIN output \ r.kept
  /\ \A k \in 1..(Len(r.omitted) - 1) : r.omitted[k][2] + 1 < r.omitted[k + 1][1]
  /\ r.compressed => r.tokens < RawTokens
Fair(blocks, chosen) ==
  /\ \A b \in ToSet(blocks) \ ToSet(chosen.blocks) : \A g \in ToSet(chosen.blocks) :
       g.priority <= b.priority
  /\ chosen.blocks # <<>> => Tokens(chosen.chars + Last(chosen.blocks).gain) > OutputBudget
  /\ chosen.blocks # blocks => Tokens(chosen.chars) <= OutputBudget

(* Whatever a tool prints, and whatever lines are folded, reordered or elided, a
   compressed output has fewer tokens than the raw one and keeps every line of a
   failure, every change, every first match and error, directory and total; the
   ranges it declares as omitted are exactly the source lines it does not show, in
   order and none twice.  The budget is spent on what matters: while a block is
   shown that could be elided with gain, none of higher priority is elided, and
   nothing is elided beyond what the budget asks for. *)
OmissionsExact ==
  tool # "none" => /\ Exact(CompressToolOutput)
                   /\ Known => Fair(Blocks(Classified), Selected(Classified))
=============================================================================
