---------------------------- MODULE TerminalView ----------------------------
(***************************************************************************)
(* The terminal widget (src/crates/gpui-terminal) from the user's events   *)
(* to the emulator and back to the program: mouse and wheel events are     *)
(* queued by their handlers and applied by sync() once a frame, program    *)
(* output reaches the emulator at once, and what the emulator answers to   *)
(* the program's queries is written only when a frame is drawn.  A booting *)
(* tab draws its setup steps instead of the terminal (ui/terminal/boot.rs).*)
(*                                                                         *)
(* Lines are numbered from the first one printed, so a line keeps its      *)
(* number as it moves into the scrollback; the emulator's own coordinates  *)
(* count from the top of the screen.  Left out: columns, word and line     *)
(* selections, links, painting, copying, the focus report, keys that write *)
(* without scrolling, the other tabs (one that is hidden is not drawn),    *)
(* where a selection starts, what the alternate screen itself scrolls, and *)
(* the pipe from the shell to the view, whose contents nobody sees before  *)
(* the view does.                                                          *)
(***************************************************************************)
EXTENDS Integers, Sequences, FiniteSets

CONSTANTS TermRows,     \* screen_lines
          CellHeight,   \* pixels per line
          ViewHeight,   \* pixels of the view, its padding with it
          WheelSteps,   \* pixels one wheel event may carry, up or down
          MaxPrinted,   \* bound: lines printed, below the scrollback's size
          MaxModes,     \* bound: modes switched on at once
          MaxQueued,    \* bound: input events between two frames
          MaxOwed       \* bound: pixels turned and not scrolled

ASSUME WheelAssumption ==
  /\ TermRows \in Nat \ {0} /\ CellHeight \in Nat \ {0} /\ MaxPrinted \in Nat /\ MaxModes \in Nat /\ MaxQueued \in Nat
  /\ ViewHeight \in Nat /\ ViewHeight >= TermRows * CellHeight
  /\ WheelSteps \subseteq Nat \ {0} /\ MaxOwed \in Nat

VARIABLES term,     \* alacritty's Term: top, the number of the screen's first
                    \* line; off, display_offset, and kept, that of the grid that
                    \* is not shown; sel, the line the selection ends on (0 once a
                    \* frame has drawn it), or NoLine; mode
          state,    \* TerminalState: events, content_mode, selection_phase, scroll_px
          shown,    \* the tab: setup, its setup steps are drawn; dirty, a notify not yet drawn
          drawn,    \* top and off when the last frame was drawn
          program,  \* waiting: what for, or "no"; asked, its query is in event_rx
          mouse,    \* is the button held
          wheel     \* owed, pixels turned and not scrolled; cut, view heights that
                    \* on_scroll's modulo took off scroll_px; over, that it took any
terminal_vars == <<term, state, shown, drawn, program, mouse, wheel>>

\* A report is of the cursor, the device or a mode (PtyWrite); a value is the clipboard's or
\* a colour (ClipboardLoad, ColorRequest); the size is TextAreaSizeRequest.
Queries == {"report", "value", "size"}
Modes == {"mouse", "alt"}
NoLine == MaxPrinted + TermRows

TerminalInit ==
  /\ term = [top |-> 0, off |-> 0, kept |-> 0, sel |-> NoLine, mode |-> {}]
  /\ state = [events |-> <<>>, content_mode |-> {}, phase |-> "None", scroll_px |-> 0]
  /\ shown = [setup |-> TRUE, dirty |-> TRUE]
  /\ drawn = [top |-> 0, off |-> 0]
  /\ program = [waiting |-> "no", asked |-> FALSE]
  /\ mouse = FALSE /\ wheel = [owed |-> 0, cut |-> 0, over |-> FALSE]

OnScreen == ~shown.setup
NeedsFrame == shown' = [shown EXCEPT !.dirty = TRUE]
Between(low, n, high) == IF n < low THEN low ELSE IF n > high THEN high ELSE n
ScrollDisplay(t, lines) ==
  [t EXCEPT !.off = Between(0, t.off + lines, IF "alt" \in t.mode THEN 0 ELSE t.top)]

-----------------------------------------------------------------------------
\* Output.  A line pushes the first one into the scrollback; a view scrolled back
\* stays where it is.  The alternate screen is a grid of its own; entering or leaving it
\* drops the selection.
PrintsLine(t) == [t EXCEPT !.top = @ + 1, !.off = IF @ = 0 THEN 0 ELSE @ + 1]
Switches(t, m) ==
  LET mode == IF m \in t.mode THEN t.mode \ {m} ELSE t.mode \cup {m} IN
  IF m = "alt" THEN [t EXCEPT !.mode = mode, !.off = t.kept, !.kept = t.off, !.sel = NoLine] ELSE [t EXCEPT !.mode = mode]

SwitchesMode(m) == Cardinality(Switches(term, m).mode) <= MaxModes /\ term' = Switches(term, m)

\* The program waits for what it asked for.  A request for the size goes no further
\* than send_event.
Asks(q) == program' = [waiting |-> q, asked |-> q # "size"]

ProcessBytes ==
  /\ program.waiting = "no"
  /\ \/ "alt" \notin term.mode /\ term.top < MaxPrinted /\ term' = PrintsLine(term) /\ UNCHANGED program
     \/ \E m \in Modes : SwitchesMode(m) /\ UNCHANGED program
     \/ term' = term /\ \E q \in Queries : Asks(q)
  /\ NeedsFrame
  /\ UNCHANGED <<state, drawn, mouse, wheel>>

-----------------------------------------------------------------------------
\* The handlers.
mouse_mode(shift) == "mouse" \in state.content_mode /\ ~shift

\* The grid line under row y, and the line the user sees there.
pixel_to_grid(y) == Between(0, y, TermRows - 1) - term.off
SeenLine(y) == drawn.top + Between(0, y, TermRows - 1) - drawn.off
SameScreen == ("alt" \in term.mode) <=> ("alt" \in state.content_mode)

\* Since the frame the view was moved by what was printed, if at all.
Steady == SameScreen /\ term.off - drawn.off \in 0 .. term.top - drawn.top

PushEvents(new) ==
  /\ Len(state.events) + Len(new) <= MaxQueued
  /\ state' = [state EXCEPT !.events = @ \o new]
PointAt(what, y) == [what |-> what, line |-> pixel_to_grid(y), meant |-> IF Steady THEN SeenLine(y) ELSE NoLine]
Scrolled(lines) == [what |-> "scroll", line |-> lines, meant |-> NoLine]

MouseDownAt(y, shift) ==
  /\ OnScreen /\ ~mouse /\ mouse' = TRUE
  /\ IF mouse_mode(shift) THEN UNCHANGED <<state, shown>>
     ELSE /\ Len(state.events) < MaxQueued
          /\ state' = [state EXCEPT !.events = Append(@, PointAt("set", y)), !.phase = "Selecting"]
          /\ NeedsFrame
  /\ UNCHANGED <<term, drawn, program, wheel>>

\* Released over the view, or anywhere else, where the view does not hear of it.
MouseReleased(over, shift) ==
  /\ mouse /\ mouse' = FALSE
  /\ IF over /\ OnScreen /\ ~mouse_mode(shift) /\ state.phase = "Selecting"
     THEN state' = [state EXCEPT !.phase = "Selected"] /\ NeedsFrame
     ELSE UNCHANGED <<state, shown>>
  /\ UNCHANGED <<term, drawn, program, wheel>>

\* Rows -1 and TermRows stand for above and below the view, where a drag scrolls.
DragTo(y) ==
  /\ OnScreen /\ mouse /\ state.phase = "Selecting"
  /\ PushEvents(<<PointAt("update", y)>> \o
       (CASE y < 0 -> <<Scrolled(1)>> [] y = TermRows -> <<Scrolled(-1)>> [] OTHER -> <<>>))
  /\ NeedsFrame
  /\ UNCHANGED <<term, drawn, program, mouse, wheel>>

\* A selection whose release was missed follows the mouse with no button held.
MoveOver(y, shift) ==
  /\ OnScreen /\ ~mouse /\ state.phase = "Selecting"
  /\ PushEvents(<<PointAt("update", y)>>) /\ NeedsFrame
  /\ UNCHANGED <<term, drawn, program, mouse, wheel>>

\* Integer division and remainder as Rust has them, towards zero.
Quot(a, b) == IF a < 0 THEN -((-a) \div b) ELSE a \div b
Rem(a, b) == a - b * Quot(a, b)

Scrolls(d) ==
  LET px == state.scroll_px + d
      lines == Quot(px, CellHeight) - Quot(state.scroll_px, CellHeight)
  IN [lines |-> lines, px |-> Rem(px, ViewHeight) - lines * CellHeight, heights |-> Quot(px, ViewHeight)]

\* In mouse mode the wheel is reported to the program, and on the alternate screen it
\* becomes arrow keys: neither changes anything here.
WheelScrolls(d, shift) ==
  LET s == Scrolls(d) IN
  /\ OnScreen /\ ~mouse_mode(shift) /\ "alt" \notin state.content_mode
  /\ wheel' = [owed |-> wheel.owed + d - s.lines * CellHeight, cut |-> wheel.cut + s.heights,
               over |-> wheel.over \/ s.heights # 0]
  /\ wheel'.owed \in -MaxOwed .. MaxOwed
  /\ IF s.lines = 0 THEN state' = [state EXCEPT !.scroll_px = s.px] /\ UNCHANGED shown
     ELSE /\ Len(state.events) < MaxQueued /\ NeedsFrame
          /\ state' = [state EXCEPT !.scroll_px = s.px, !.events = Append(@, Scrolled(s.lines))]
  /\ UNCHANGED <<term, drawn, program, mouse>>

\* Typing and pasting return to the bottom at once, the scrollbar anywhere.
OnKeyDown ==
  /\ OnScreen /\ term.off # 0 /\ term' = [term EXCEPT !.off = 0] /\ NeedsFrame
  /\ UNCHANGED <<state, drawn, program, mouse, wheel>>

ScrollbarMoves ==
  /\ OnScreen /\ "alt" \notin term.mode
  /\ \E off \in 0 .. term.top : term' = [term EXCEPT !.off = off]
  /\ NeedsFrame
  /\ UNCHANGED <<state, drawn, program, mouse, wheel>>

-----------------------------------------------------------------------------
\* Mistaken: a point is taken relative to what the queue has scrolled to.
AppliedToView(t, e) ==
  CASE e.what = "scroll" -> ScrollDisplay(t, e.line)
    [] e.what = "set" -> [t EXCEPT !.sel = t.top + e.line]
    [] e.what = "update" /\ t.sel # NoLine -> [t EXCEPT !.sel = t.top + e.line + term.off - t.off]
    [] OTHER -> t

\* A frame applies the queue in order.
Applied(t, e) ==
  CASE e.what = "scroll" -> ScrollDisplay(t, e.line)
    [] e.what = "set" -> [t EXCEPT !.sel = t.top + e.line]
    [] e.what = "update" /\ t.sel # NoLine -> [t EXCEPT !.sel = t.top + e.line]
    [] OTHER -> t

sync[n \in 0 .. Len(state.events)] == IF n = 0 THEN term ELSE Applied(sync[n - 1], state.events[n])

\* And it answers what the program asked for: nothing if the clipboard has no text or the
\* palette no such colour.
process_events ==
  \/ ~program.asked /\ UNCHANGED program
  \/ program.asked /\ program' = [waiting |-> "no", asked |-> FALSE]
  \/ /\ program.asked /\ program.waiting = "value"
     /\ program' = [program EXCEPT !.asked = FALSE]

RenderFrame ==
  LET synced == sync[Len(state.events)] IN
  /\ OnScreen /\ shown.dirty /\ shown' = [shown EXCEPT !.dirty = FALSE]
  /\ process_events
  /\ term' = [synced EXCEPT !.sel = IF @ = NoLine THEN NoLine ELSE 0]
  /\ state' = [state EXCEPT !.events = <<>>, !.content_mode = synced.mode]
  /\ drawn' = [top |-> synced.top, off |-> synced.off]
  /\ UNCHANGED <<mouse, wheel>>

\* The setup steps give way to the terminal once the program has taken over the
\* screen, or after ten seconds.
tui_active == term.mode # {}
SetupGivesWay ==
  /\ shown.setup /\ shown' = [shown EXCEPT !.setup = FALSE, !.dirty = TRUE]
  /\ UNCHANGED <<term, state, drawn, program, mouse, wheel>>
\* Mistaken: the deadline is forgotten.
GivesWayToTuiOnly == tui_active /\ SetupGivesWay
TuiOrDeadline == SetupGivesWay

TerminalNext ==
  \/ ProcessBytes \/ RenderFrame \/ TuiOrDeadline \/ OnKeyDown \/ ScrollbarMoves
  \/ \E y \in -1 .. TermRows : DragTo(y)
  \/ \E y \in 0 .. TermRows - 1, shift \in BOOLEAN : MouseDownAt(y, shift) \/ MoveOver(y, shift)
  \/ \E over, shift \in BOOLEAN : MouseReleased(over, shift)
  \/ \E d \in WheelSteps, shift \in BOOLEAN : WheelScrolls(d, shift) \/ WheelScrolls(-d, shift)

\* GPUI draws a dirty window; the deadline's timer runs.
TerminalFairness == WF_terminal_vars(RenderFrame) /\ WF_terminal_vars(TuiOrDeadline)
TerminalSpec == TerminalInit /\ [][TerminalNext]_terminal_vars /\ TerminalFairness

-----------------------------------------------------------------------------
LastPoint == {n \in DOMAIN state.events : /\ state.events[n].what # "scroll"
                                          /\ \A m \in n + 1 .. Len(state.events) : state.events[m].what = "scroll"}

\* The next frame ends the selection on the line the user pointed at, whatever wheel and
\* auto-scroll events are queued around the drag, or as many lines below as the program
\* has printed since the frame pointed at, at most (pixel_to_grid and sync).
SelectionEndsUnderPointer ==
  LET synced == sync[Len(state.events)] IN
  (SameScreen /\ synced.sel # NoLine) =>
    \A n \in LastPoint : state.events[n].meant # NoLine => synced.sel - state.events[n].meant \in 0 .. term.top - drawn.top

\* What the wheel scrolled differs from what it was turned by the remainder in scroll_px and
\* the view heights the modulo in on_scroll took off it; until that takes any, by less
\* than a line.
WheelIsConserved ==
  /\ wheel.owed = state.scroll_px + wheel.cut * ViewHeight
  /\ ~wheel.over => wheel.cut = 0 /\ state.scroll_px \in 1 - CellHeight .. CellHeight - 1

\* The screen follows the hand: what is dragged over is marked, what is turned is scrolled.
ScreenFollowsHand == SelectionEndsUnderPointer /\ WheelIsConserved

\* A program blocked on a report of the terminal (event.rs: "TUI apps like Gemini
\* CLI block waiting for these responses") gets it as long as its
\* tab is the one on screen, even one that still shows its setup steps.
AnswersReachProgram == program.waiting = "report" ~> program.waiting # "report"

\* What follows is said of the code, and the code does not keep it (README, section 7).

\* event.rs: "Text area size requests are handled internally".
SizeRequestsAreHandled == program.waiting = "size" ~> program.waiting # "size"
=============================================================================
