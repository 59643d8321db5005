------------------------------ MODULE TextInput ------------------------------
(***************************************************************************)
(* The text field of every dialog and panel (ui/components/text_input.rs): *)
(* editing, undo history, input-method composition and the mouse, which    *)
(* points into the layout of the last frame.  Offsets are bytes of UTF-8,  *)
(* the input method counts UTF-16 units, a character is its byte length,   *)
(* and the end of a selection that is off every character boundary makes   *)
(* the next slice abort the program.  Left out: the clipboard, the menu    *)
(* (its entries are the actions below), scrolling and painting.            *)
(***************************************************************************)
EXTENDS Naturals, Sequences

CONSTANTS CharBytes,    \* byte lengths of the characters typed
          HistoryCap,   \* the 100 of UndoHistory::push
          MaxChars      \* bound: characters in the field

ASSUME TextAssumption == /\ CharBytes \subseteq 1 .. 4 /\ HistoryCap \in Nat \ {0, 1} /\ MaxChars \in Nat

VARIABLES field,    \* content, start, end, reversed, marked (<<>> or its start and end), selecting;
                    \* strayed, the selection or the mark may be off the text; uncommitted, a
                    \* composition ended, or the text was replaced by one, with no entry
          history,  \* entries (content and cursor) and index
          painted   \* the text of last_layout
text_vars == <<field, history, painted>>

-----------------------------------------------------------------------------
\* Offsets: what the first n characters of a text take, in bytes and in UTF-16 units.
SumTo(sizes) ==
  LET sum[n \in 0 .. Len(sizes)] == IF n = 0 THEN 0 ELSE sum[n - 1] + sizes[n] IN sum
BytesTo(s) == SumTo(s)
Bytes(s) == BytesTo(s)[Len(s)]
Boundaries(s) == {BytesTo(s)[n] : n \in 0 .. Len(s)}
CharsBefore(s, offset) == CHOOSE n \in 0 .. Len(s) : BytesTo(s)[n] = offset
UnitsTo(s) == SumTo([n \in 1 .. Len(s) |-> IF s[n] = 4 THEN 2 ELSE 1])
Units(s) == UnitsTo(s)[Len(s)]

offset_from_utf16(s, units) ==
  LET enough == {n \in 0 .. Len(s) : UnitsTo(s)[n] >= units} IN
  BytesTo(s)[IF enough = {} THEN Len(s) ELSE CHOOSE n \in enough : \A m \in enough : n <= m]

previous_boundary(offset) ==
  LET before == {b \in Boundaries(field.content) : b < offset} IN
  IF before = {} THEN 0 ELSE CHOOSE b \in before : \A other \in before : other <= b
next_boundary(offset) ==
  LET after == {b \in Boundaries(field.content) : b > offset} IN
  IF after = {} THEN Bytes(field.content) ELSE CHOOSE b \in after : \A other \in after : b <= other

\* The selection: where the caret is, moving it, dragging its end.
cursor_offset == IF field.reversed THEN field.start ELSE field.end
MovedTo(f, offset) == [f EXCEPT !.start = offset, !.end = offset]
MovedOnto(f, boundary) == [MovedTo(f, boundary) EXCEPT !.strayed = @ /\ f.marked # <<>>]

\* Mistaken: the anchor is lost when the caret crosses it.
SelectedWithoutFlip(f, offset) ==
  IF f.reversed THEN [f EXCEPT !.start = offset] ELSE [f EXCEPT !.end = offset]

SelectedTo(f, offset) ==
  LET start == IF f.reversed THEN offset ELSE f.start
      end == IF f.reversed THEN f.end ELSE offset
  IN IF end < start THEN [f EXCEPT !.reversed = ~@, !.start = end, !.end = start]
     ELSE [f EXCEPT !.start = start, !.end = end]

-----------------------------------------------------------------------------
\* UndoHistory::push: redo entries go, the oldest goes past the cap.
Pushed(h, content, cursor) ==
  IF h.entries[h.index].content = content THEN h
  ELSE LET longer == Append(SubSeq(h.entries, 1, h.index), [content |-> content, cursor |-> cursor])
           kept == IF Len(longer) > HistoryCap THEN Tail(longer) ELSE longer
       IN [entries |-> kept, index |-> Len(kept)]

Spliced(from, to, new) ==
  SubSeq(field.content, 1, CharsBefore(field.content, from)) \o new \o
  SubSeq(field.content, CharsBefore(field.content, to) + 1, Len(field.content))

\* The range an edit replaces: the one given in UTF-16, or the mark, or the selection.
NoRange == <<>>
RangesUtf16 == {NoRange} \cup {<<u, u + 1>> : u \in 0 .. Units(field.content) - 1}
RangeFor(range16) ==
  IF range16 # NoRange THEN <<offset_from_utf16(field.content, range16[1]), offset_from_utf16(field.content, range16[2])>>
  ELSE IF field.marked # <<>> THEN field.marked ELSE <<field.start, field.end>>
Clamped(offset) == IF offset > Bytes(field.content) THEN Bytes(field.content) ELSE offset
Sliceable(range) == {Clamped(range[1]), Clamped(range[2])} \subseteq Boundaries(field.content)

ReplaceIn(f, range, new) ==
  LET start == Clamped(range[1])
      content == Spliced(start, Clamped(range[2]), new)
      caret == start + Bytes(new)
  IN /\ Sliceable(range) /\ Len(content) <= MaxChars
     /\ field' = [f EXCEPT !.content = content, !.start = caret, !.end = caret, !.marked = <<>>,
                           !.strayed = FALSE, !.uncommitted = FALSE]
     /\ history' = Pushed(history, content, caret)
     /\ UNCHANGED painted

Texts == {<<>>} \cup {<<c>> : c \in CharBytes}

\* Typing, pasting, cutting and what a completed composition inserts.
replace_text_in_range(range16, new) == ReplaceIn(field, RangeFor(range16), new)

\* Backspace and delete extend an empty selection first; a mark is replaced all the same.
Deletes(boundary) ==
  LET selected == IF field.start = field.end THEN SelectedTo(field, boundary) ELSE field IN
  ReplaceIn(selected, IF field.marked # <<>> THEN field.marked ELSE <<selected.start, selected.end>>, <<>>)
Backspace == Deletes(previous_boundary(cursor_offset))
Delete == Deletes(next_boundary(cursor_offset))

\* A composition marks what it inserted and places the selection where the input method
\* says, counted from the start of the new text; the code converts it over the whole
\* content and adds the range replaced.
replace_and_mark_text_in_range(range16, new, selected16) ==
  LET range == RangeFor(range16)
      content == Spliced(Clamped(range[1]), Clamped(range[2]), new)
      caret == range[1] + Bytes(new)
      place(n) == offset_from_utf16(content, selected16[n]) + range[n]
  IN /\ Sliceable(range) /\ Len(content) <= MaxChars
     /\ field' = [field EXCEPT !.content = content,
                    !.marked = IF new = <<>> THEN <<>> ELSE <<range[1], range[1] + Bytes(new)>>,
                    !.start = IF selected16 = NoRange THEN caret ELSE place(1),
                    !.end = IF selected16 = NoRange THEN caret ELSE place(2),
                    !.strayed = field.strayed \/ (selected16 # NoRange /\ range # <<0, 0>>),
                    !.uncommitted = new = <<>>]
     /\ UNCHANGED <<history, painted>>

unmark_text ==
  /\ field.marked # <<>>
  /\ field' = [field EXCEPT !.marked = <<>>, !.uncommitted = TRUE]
  /\ UNCHANGED <<history, painted>>

-----------------------------------------------------------------------------
\* Undo, redo and set_value replace the text under a mark without dropping it.
Shows(f, entry) ==
  [f EXCEPT !.content = entry.content, !.start = entry.cursor, !.end = entry.cursor,
            !.strayed = f.marked # <<>>, !.uncommitted = FALSE]

Undo ==
  /\ history.index > 1
  /\ field' = Shows(field, history.entries[history.index - 1])
  /\ history' = [history EXCEPT !.index = @ - 1]
  /\ UNCHANGED painted
Redo ==
  /\ history.index < Len(history.entries)
  /\ field' = Shows(field, history.entries[history.index + 1])
  /\ history' = [history EXCEPT !.index = @ + 1]
  /\ UNCHANGED painted
SetValue(text) ==
  /\ field' = Shows(field, [content |-> text, cursor |-> Bytes(text)])
  /\ history' = Pushed(history, text, Bytes(text))
  /\ UNCHANGED painted

\* The arrow keys, Home, End and Select All; with Shift the arrow keys extend.
Moves ==
  LET empty == field.start = field.end IN
  /\ \/ ~empty /\ \E side \in {field.start, field.end} : field' = MovedTo(field, side)
     \/ empty /\ \E side \in {previous_boundary(cursor_offset), next_boundary(field.end)} : field' = MovedOnto(field, side)
     \/ \E edge \in {0, Bytes(field.content)} : field' = MovedOnto(field, edge)
     \/ field' = SelectedTo(MovedOnto(field, 0), Bytes(field.content))
  /\ UNCHANGED <<history, painted>>
Extends ==
  /\ \E side \in {previous_boundary(cursor_offset), next_boundary(cursor_offset)} : field' = SelectedTo(field, side)
  /\ UNCHANGED <<history, painted>>

\* Where the mouse points: into the text last painted, unless above or below the field.
index_for_mouse_position ==
  IF field.content = <<>> THEN {0} ELSE {0, Bytes(field.content)} \cup Boundaries(painted)
Pointed(f) == [f EXCEPT !.strayed = @ \/ painted # field.content]

MouseDown ==
  /\ \E index \in index_for_mouse_position :
       \/ \E extend \in BOOLEAN :                  \* with Shift
            field' = Pointed([(IF extend THEN SelectedTo(field, index) ELSE MovedTo(field, index))
                                EXCEPT !.selecting = TRUE])
       \/ \E start, end \in Boundaries(field.content) :   \* a word, by a double click
            /\ start <= Clamped(index) /\ Clamped(index) <= end
            /\ field' = [MovedOnto(field, start) EXCEPT !.end = end, !.reversed = FALSE, !.selecting = FALSE]
       \/ field' = [SelectedTo(MovedOnto(field, 0), Bytes(field.content)) EXCEPT !.selecting = FALSE]
  /\ UNCHANGED <<history, painted>>

\* A drag, or a tick of the auto-scroll while the mouse is outside the field.
DragSelect ==
  /\ field.selecting
  /\ \E index \in index_for_mouse_position : field' = Pointed(SelectedTo(field, index))
  /\ UNCHANGED <<history, painted>>
MouseUp ==
  /\ field.selecting /\ field' = [field EXCEPT !.selecting = FALSE]
  /\ UNCHANGED <<history, painted>>

Paint == painted # field.content /\ painted' = field.content /\ UNCHANGED <<field, history>>

TextInit ==
  /\ field = [content |-> <<>>, start |-> 0, end |-> 0, reversed |-> FALSE, marked |-> <<>>,
              selecting |-> FALSE, strayed |-> FALSE, uncommitted |-> FALSE]
  /\ history = [entries |-> <<[content |-> <<>>, cursor |-> 0]>>, index |-> 1]
  /\ painted = <<>>

\* Bound: a selection or mark that strayed is followed only by what does not depend on
\* it, or what brings it back.
TextNext ==
  \/ Undo \/ Redo \/ Moves \/ MouseUp \/ Paint \/ unmark_text
  \/ \E new \in Texts : SetValue(new) \/ \E range16 \in RangesUtf16 : replace_text_in_range(range16, new)
  \/ /\ ~field.strayed
     /\ \/ Backspace \/ Delete \/ Extends \/ MouseDown \/ DragSelect
        \/ \E new \in Texts : \E range16 \in RangesUtf16, selected16 \in {NoRange, <<0, Units(new)>>, <<Units(new), Units(new)>>} :
             replace_and_mark_text_in_range(range16, new, selected16)

TextSpec == TextInit /\ [][TextNext]_text_vars

-----------------------------------------------------------------------------
\* Outside two known causes (a composition with a selection of its own, and a click or an
\* undo that works on another text than the one shown or marked) the selection and
\* the mark lie on character boundaries of the text, in order: no slice aborts.
SelectionStaysInText ==
  ~field.strayed =>
    /\ {field.start, field.end} \subseteq Boundaries(field.content) /\ field.start <= field.end
    /\ field.marked # <<>> => {field.marked[1], field.marked[2]} \subseteq Boundaries(field.content)

\* Unless a composition is going on, or ended without text committed, the current
\* history entry is the text shown: undo then redo comes back to it.
HistoryHasText ==
  \/ field.marked # <<>> \/ field.uncommitted
  \/ history.entries[history.index].content = field.content

\* The field is sound: no slice aborts and no undo brings back what was never there.
FieldIsSound == SelectionStaysInText /\ HistoryHasText
=============================================================================
