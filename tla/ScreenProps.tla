----------------------------- MODULE ScreenProps -----------------------------
(***************************************************************************)
(* What the screen of one pane promises.  The names of the operations a    *)
(* property needs to be absent are in the comment of the run that checks   *)
(* it (README.md); the "expect violation" runs show what happens when they *)
(* are present.                                                            *)
(***************************************************************************)
EXTENDS Screen

(* The lines of the primary screen, also while the alternate one is shown. *)
Primary(s) == IF OnAlt(s) THEN [s EXCEPT !.grid = s.saved[1].grid] ELSE s
PrimaryLines(s) == LinesOf(Primary(s))
Names(s, line, id) ==
  /\ line + 1 \in DOMAIN PrimaryLines(s)
  /\ id \in PrimaryLines(s)[line + 1].tag
Alive(s, id) == \E i \in DOMAIN PrimaryLines(s) : id \in PrimaryLines(s)[i].tag

-----------------------------------------------------------------------------
(* Anchors *)

(* Every prompt mark (OSC 133;A) is the absolute index of the line the     *)
(* prompt was printed on, however much output scrolled that line into the  *)
(* scrollback, however many lines were evicted from its far end, and       *)
(* whatever the alternate screen did in between: push_prompt_mark,         *)
(* scroll_up_into_history and reanchor_after_scrollback_clear agree.       *)
AnchorsHold == \A i \in DOMAIN scr.marks :
                 Names(scr, scr.marks[i].line, scr.marks[i].id)

(* A step forgets a mark only when its line is gone or when the list was   *)
(* full: eviction and clearing never take a mark too many.                 *)
NoMarkForgotten ==
  [][\A i \in DOMAIN scr.marks :
       scr.marks[i].id \notin MarkIds(scr') =>
         ~Alive(scr', scr.marks[i].id) \/ Len(scr.marks) = MaxMarks]_vars

(* jump_to_prompt shows a marked line at the top of the window whenever    *)
(* the marked line it picks is in the scrollback.                          *)
JumpLandsOnPrompt ==
  [][\A fwd \in BOOLEAN :
       scr' = JumpToPrompt(scr, fwd) /\ scr.view # scr'.view /\ scr'.view > 0
         => \E i \in DOMAIN scr.marks :
              Names(scr', FirstShown(scr'), scr.marks[i].id)]_vars

(* The mouse selection is an absolute line: it is the line the user saw    *)
(* under the mouse, and it stays on that text while lines enter the        *)
(* scrollback and fit into it, so that none is evicted.                    *)
SelHolds ==
  sel # <<>> => /\ sel[1].line + 1 \in DOMAIN LinesOf(scr)
                /\ sel[1].id \in LinesOf(scr)[sel[1].line + 1].tag
SelectionFollows ==
  [][\/ sel' # sel
     \/ /\ SelHolds /\ Len(scr'.hist) > Len(scr.hist)
        /\ Len(scr'.hist) < scr'.cap
     => SelHolds']_vars

-----------------------------------------------------------------------------
(* The window *)

(* What the pane draws from its cache is what the terminal shows: every    *)
(* operation that changes a visible character either marks damage or       *)
(* changes the key (view offset, dimensions, reverse screen).              *)
CacheCoherent == CacheHit => cache[1].shown = Visible(scr)

(* A program on the alternate screen never adds to, or takes from, the     *)
(* scrollback of the shell: it can only clear all of it (ED 3, RIS).       *)
RowsOf(h) == [i \in DOMAIN h |-> <<h[i].cells, h[i].wrapped>>]
AltKeepsScrollback ==
  [][OnAlt(scr) /\ OnAlt(scr') =>
       scr'.hist = <<>> \/ RowsOf(scr'.hist) = RowsOf(scr.hist)]_vars

-----------------------------------------------------------------------------
(* Cursor, margins and dimensions *)

(* The scrolling margins are rows of the grid, in order: the region scrolls*)
(* and the origin-mode addressing never leave the grid.                    *)
MarginsOnGrid == scr.top <= scr.bot /\ scr.bot < scr.grid.rows

(* Terminal::resize leaves the grid with the dimensions of the window.     *)
GridFitsWindow == scr.grid.rows = size.rows /\ scr.grid.cols = size.cols

(* What is resized, moved and scrolled apart stays together: the grid has  *)
(* the window's dimensions and the tab stops its columns; the cursor is on *)
(* the grid, its column at most one past the last (two for a wide glyph on *)
(* a one-column pane) while a wrap is pending; and the view is never past  *)
(* the oldest line (for_visible_rows pads a short window), as long as the  *)
(* cap stays, for a lowered cap evicts lines without a look at the view.   *)
IndicesFit ==
  /\ GridFitsWindow /\ DOMAIN scr.tabs = Span(scr.grid.cols)
  /\ scr.row < scr.grid.rows /\ scr.col <= Most(scr.grid.cols, 2)
  /\ scene.caps \subseteq {scene.cap0} => scr.view <= Len(scr.hist)

-----------------------------------------------------------------------------
(* The flags a reflow relies on *)

(* A row marked as soft-wrapped is full: its last column was printed.      *)
WrappedRowsFilled ==
  \A r \in Span(scr.grid.rows) :
    scr.grid.line[r].wrapped =>
      LET last == scr.grid.line[r].cells[LastCol(scr)]
      IN  last.ch # Blank \/ last.cont

(* A spacer cell is the second half of a wide glyph.                       *)
SpacerHasLead ==
  \A r \in Span(scr.grid.rows), c \in Span(scr.grid.cols) :
    scr.grid.line[r].cells[c].cont =>
      c > 0 /\ scr.grid.line[r].cells[c - 1].ch \in Wide
=============================================================================
