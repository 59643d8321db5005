----------------------------- MODULE ReviewDiff -----------------------------
(***************************************************************************)
(* A modified file's diff in the review panel: which lines the user has    *)
(* unchecked, what the header counts, what Apply writes, and what is       *)
(* selected with the mouse and copied.                                     *)
(*                                                                         *)
(* A diff is a script of context, deletion and addition lines.  A line is  *)
(* its position in the script; a text is what split('\n') makes of it, the *)
(* lines and, when the text ends with a newline, an empty piece after them.*)
(***************************************************************************)
EXTENDS Naturals, Sequences, FiniteSets

CONSTANTS MaxScript,     \* bound: lines of a diff
          MaxWidth,      \* bound: characters of a line
          MaxSelectable  \* bound: lines of a diff in which text is selected

ASSUME DiffBounds == {MaxScript, MaxWidth, MaxSelectable} \subseteq Nat

VARIABLES script,      \* FileDiff, with the context in full
          old_ends,    \* the host's file ends with a newline
          discarded,   \* LineStagingState
          selection, selecting  \* SelectionState: anchor and end, each a line and a column

diff_vars == <<script, old_ends, discarded, selection, selecting>>

\* The diffs there are: additions follow the deletions they are next to, and some line differs.
Scripts(n) ==
  {s \in UNION {[1 .. m -> {"context", "deletion", "addition"}] : m \in 1 .. n} :
     /\ \E i \in DOMAIN s : s[i] # "context"
     /\ \A i \in 1 .. Len(s) - 1 : s[i] = "addition" => s[i + 1] # "deletion"}

Lines == 1 .. Len(script)
\* The lines of these kinds among the first ones, for any number of first ones.
Kept(kinds) ==
  LET kept[i \in 0 .. Len(script)] ==
        IF i = 0 THEN <<>> ELSE IF script[i] \in kinds THEN Append(kept[i - 1], i) ELSE kept[i - 1]
  IN kept
OldLines == Kept({"context", "deletion"})
NewLines == Kept({"context", "addition"})
Ending == 0
ending == IF old_ends THEN <<Ending>> ELSE <<>>
old_lines == OldLines[Len(script)] \o ending

-----------------------------------------------------------------------------
(* diff_engine *)

\* grouped_ops(1): a hunk holds changes no more than two context lines apart, and one line of
\* context on either side.
InHunk(i) == \E j \in {i - 1, i, i + 1} \cap Lines : script[j] # "context"
StartsHunk(i) == InHunk(i) /\ (i = 1 \/ ~InHunk(i - 1))

\* The old lines before a hunk that starts here: its old_start, counted from 0.
OldStart(i) == Len(OldLines[i - 1])

\* find_replacement_pairs: the n-th of a run of deletions with the n-th of the additions after it.
Run(i, j, kind) == \A k \in i .. j : script[k] = kind
find_replacement_pairs ==
  {p \in Lines \X Lines :
     \E first \in 1 .. p[1] : \E last \in p[1] .. p[2] - 1 :
       /\ Run(first, last, "deletion") /\ (first = 1 \/ script[first - 1] # "deletion")
       /\ Run(last + 1, p[2], "addition")
       /\ p[2] - last = p[1] - first + 1}
PairedDeletions == {p[1] : p \in find_replacement_pairs}
PairedAdditions == {p[2] : p \in find_replacement_pairs}
DeletionOf(addition) == CHOOSE d \in Lines : <<d, addition>> \in find_replacement_pairs

\* Mistaken: a replaced line is counted as deleted even when its replacement was discarded.
CountsPairsApart ==
  [additions |-> Cardinality({i \in Lines \ discarded : script[i] = "addition"}),
   deletions |-> Cardinality({i \in Lines \ discarded : script[i] = "deletion"})]

effective_stats ==
  LET added == {i \in Lines \ discarded : script[i] = "addition"} IN
  [additions |-> Cardinality(added),
   deletions |-> Cardinality(added \cap PairedAdditions)
                 + Cardinality({i \in Lines \ (discarded \cup PairedDeletions) : script[i] = "deletion"})]

\* One line of a hunk; `position` is old_pos, and an old line that its addition has the say over
\* waits for the addition.
OldAt(position) == IF position < Len(old_lines) THEN old_lines[position + 1] ELSE Ending
Rebuild(rebuilt, i) ==
  LET old == OldAt(rebuilt.position)
      pushed(line) == Append(rebuilt.result, line)
      result == CASE script[i] = "context" -> pushed(old)
                  [] script[i] = "deletion" ->
                       IF i \notin PairedDeletions /\ i \in discarded THEN pushed(old)
                       ELSE rebuilt.result
                  [] script[i] = "addition" ->
                       IF i \notin discarded THEN pushed(i)
                       ELSE IF i \in PairedAdditions THEN pushed(rebuilt.saved[DeletionOf(i)])
                       ELSE rebuilt.result IN
  [result |-> result,
   position |-> IF script[i] = "addition" THEN rebuilt.position ELSE rebuilt.position + 1,
   saved |-> IF i \in PairedDeletions THEN [rebuilt.saved EXCEPT ![i] = old] ELSE rebuilt.saved]

CopiedTo(rebuilt, start) ==
  [rebuilt EXCEPT !.result = @ \o SubSeq(old_lines, rebuilt.position + 1, start), !.position = start]

\* The hunks in order, and the lines of each, are the lines in a hunk, in order.
RebuildHunk(rebuilt, i) ==
  IF ~InHunk(i) THEN rebuilt
  ELSE Rebuild(IF StartsHunk(i) THEN CopiedTo(rebuilt, OldStart(i)) ELSE rebuilt, i)

RebuiltTo ==
  LET rebuilt[i \in 0 .. Len(script)] ==
        IF i = 0 THEN [result |-> <<>>, position |-> 0, saved |-> [d \in Lines |-> Ending]]
        ELSE RebuildHunk(rebuilt[i - 1], i)
  IN rebuilt

reconstruct_partial == CopiedTo(RebuiltTo[Len(script)], Len(old_lines)).result

-----------------------------------------------------------------------------
(* diff_view *)

\* collect_lines: a header before the lines of each hunk (line 0 here), and which can be unchecked.
display_lines ==
  LET shown[i \in 0 .. Len(script)] ==
        IF i = 0 THEN <<>>
        ELSE shown[i - 1] \o (IF StartsHunk(i) THEN <<0, i>> ELSE IF InHunk(i) THEN <<i>> ELSE <<>>)
  IN shown[Len(script)]
Toggleable == {i \in Lines : script[i] = "addition"
                             \/ (script[i] = "deletion" /\ i \notin PairedDeletions)}

\* The width of a line; a header's text is not asked for.
WidthOf(line) == line % (MaxWidth + 1)

has_selection == selection.anchor # selection.end
Before(a, b) == a[1] < b[1] \/ (a[1] = b[1] /\ a[2] <= b[2])

ordered == IF Before(selection.anchor, selection.end) THEN <<selection.anchor, selection.end>>
           ELSE <<selection.end, selection.anchor>>

Newline == 0
Upto(n, width) == IF n < width THEN n ELSE width
\* What one line gives: its characters, each a line and a column from 1, and a newline after every
\* line but the last.
Part(k, from, to) ==
  LET line == display_lines[k]
      first == IF k = from[1] THEN Upto(from[2], WidthOf(line)) ELSE 0
      last == IF k = to[1] THEN Upto(to[2], WidthOf(line)) ELSE WidthOf(line) IN
  IF line = 0 THEN <<>>
  ELSE [c \in 1 .. last - first |-> <<line, first + c>>] \o (IF k = to[1] THEN <<>> ELSE <<<<line, Newline>>>>)

extract_selection_text ==
  LET from == ordered[1]
      to == ordered[2]
      text[k \in 0 .. Upto(to[1], Len(display_lines))] ==
        IF k < from[1] THEN <<>> ELSE text[k - 1] \o Part(k, from, to)
  IN text[Upto(to[1], Len(display_lines))]

-----------------------------------------------------------------------------
DiffInit ==
  /\ script \in Scripts(MaxScript) /\ old_ends \in BOOLEAN
  /\ discarded = {} /\ selection = [anchor |-> <<1, 0>>, end |-> <<1, 0>>] /\ selecting = FALSE

\* A click on a line's checkbox
toggle ==
  /\ \E i \in Toggleable :
       discarded' = IF i \in discarded THEN discarded \ {i} ELSE discarded \cup {i}
  /\ UNCHANGED <<script, old_ends, selection, selecting>>

\* refresh_content: the diff is another one, what was unchecked and selected stays.
RefreshDiff ==
  /\ discarded # {} /\ Len(script) <= MaxSelectable
  /\ script' \in Scripts(MaxSelectable)
  /\ UNCHANGED <<old_ends, discarded, selection, selecting>>

\* pos_to_line_col: some shown line, any column.
Places == {<<k, c>> : k \in DOMAIN display_lines, c \in 0 .. MaxWidth}
Selectable == Len(script) <= MaxSelectable /\ discarded = {} /\ old_ends

MouseDown ==
  /\ Selectable
  /\ \E place \in Places : selection' = [anchor |-> place, end |-> place]
  /\ selecting' = TRUE /\ UNCHANGED <<script, old_ends, discarded>>

MouseMove ==
  /\ Selectable /\ selecting
  /\ \E place \in Places : selection' = [selection EXCEPT !.end = place]
  /\ UNCHANGED <<script, old_ends, discarded, selecting>>

MouseUp ==
  /\ selecting /\ selecting' = FALSE
  /\ UNCHANGED <<script, old_ends, discarded, selection>>

\* A right click outside the selection selects its line, or the first line after a header.
Inside(place) == has_selection /\ Before(ordered[1], place) /\ Before(place, ordered[2])
RightClick ==
  /\ Selectable
  /\ \E place \in Places :
       IF Inside(place) THEN UNCHANGED <<selection, selecting>>
       ELSE /\ \E k \in place[1] .. Len(display_lines) :
                 /\ display_lines[k] # 0
                 /\ \A j \in place[1] .. k - 1 : display_lines[j] = 0
                 /\ selection' = [anchor |-> <<k, 0>>, end |-> <<k, WidthOf(display_lines[k])>>]
            /\ selecting' = FALSE
  /\ UNCHANGED <<script, old_ends, discarded>>

DiffNext == toggle \/ RefreshDiff \/ MouseDown \/ MouseMove \/ MouseUp \/ RightClick

DiffSpec == DiffInit /\ [][DiffNext]_diff_vars

-----------------------------------------------------------------------------
(* Properties *)

DiffTypeOK ==
  /\ script \in Seq({"context", "deletion", "addition"}) /\ {old_ends, selecting} \subseteq BOOLEAN
  /\ discarded \subseteq 1 .. MaxScript

\* What the header says is what Apply does: as many lines are new in the file it writes, and as
\* many of the old ones are missing, as the header counts; nothing is lost and nothing doubled,
\* and with every line checked it is the sandbox's lines, in the sandbox's order.
HeaderMatchesApply ==
  LET written == reconstruct_partial
      has(line) == \E k \in DOMAIN written : written[k] = line IN
  /\ effective_stats.additions = Cardinality({i \in Lines : script[i] = "addition" /\ has(i)})
  /\ effective_stats.deletions = Cardinality({i \in Lines : script[i] = "deletion" /\ ~has(i)})
  /\ \A i \in Lines : script[i] = "context" => has(i)
  /\ Len(written) = Cardinality({written[k] : k \in DOMAIN written})
  /\ discarded \cap Toggleable = {} => written = NewLines[Len(script)] \o ending

\* What is copied is a part of the lines shown, without a gap, whichever way it was dragged over:
\* from the earlier end of the selection to the later one.
CopyIsWhatIsMarked ==
  LET between(from, p, to) == Before(from, p) /\ Before(p, to) /\ p # to
      marked(p) == between(selection.anchor, p, selection.end) \/ between(selection.end, p, selection.anchor)
      chars == {p \in (DOMAIN display_lines) \X (0 .. MaxWidth) :
                  display_lines[p[1]] # 0 /\ p[2] < WidthOf(display_lines[p[1]])}
      copied == {extract_selection_text[n] : n \in DOMAIN extract_selection_text} IN
  Selectable =>
    {c \in copied : c[2] # Newline} = {<<display_lines[p[1]], p[2] + 1>> : p \in {q \in chars : marked(q)}}

\* What the diff shows is what its buttons do: Apply writes what the header counts, Copy
\* takes what is marked.
ShownIsDone == HeaderMatchesApply /\ CopyIsWhatIsMarked

\* What follows is said of the code, and the code does not keep it (README, section 7).

\* reconstruct_partial: a discarded addition leaves the old line, a discarded deletion restores it:
\* with every line unchecked Apply writes the host's file as it was.
AllDiscardedIsOld == Toggleable \subseteq discarded => reconstruct_partial = old_lines
=============================================================================
