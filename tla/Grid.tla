-------------------------------- MODULE Grid --------------------------------
(***************************************************************************)
(* The character grid of crates/core/src/grid.rs as a value: one record    *)
(* holds the dimensions, the physical lines and the per-row damage flags,  *)
(* and each method of Grid is an operator from grids to grids.             *)
(*                                                                         *)
(* The parallel vectors of the code (cells, continuation, wrapped) are     *)
(* kept together in one line record because every method moves them        *)
(* together.  A cell is its character and whether it is the spacer of a    *)
(* wide glyph; colours and combining marks travel with the cell and are    *)
(* not told apart.  Rows and columns are numbered from 0, as in the code.  *)
(***************************************************************************)
EXTENDS Naturals

CONSTANTS
  Glyphs,   \* the printable characters
  Blank,    \* the character of Cell::default()
  Anchors   \* names of the text positions the environment observes (ghost)

ASSUME BlankAssumption == Blank \notin Glyphs

Span(n) == 0 .. (n - 1)
Least(a, b) == IF a <= b THEN a ELSE b
Most(a, b) == IF a >= b THEN a ELSE b
Minus(a, b) == IF a >= b THEN a - b ELSE 0     \* usize::saturating_sub

Cell == [ch : Glyphs \cup {Blank}, cont : BOOLEAN]
Plain(x) == [ch |-> x, cont |-> FALSE]
BlankCell == Plain(Blank)
Spacer == [ch |-> Blank, cont |-> TRUE]        \* trailing half of a wide glyph

(* A physical line.  "tag" is a ghost: the anchors that name this line;    *)
(* it moves wherever the line moves and the code never reads it.           *)
Line(cols) == [cells : [Span(cols) -> Cell], wrapped : BOOLEAN,
               tag : SUBSET Anchors]
BlankLine(cols) == [cells |-> [c \in Span(cols) |-> BlankCell],
                    wrapped |-> FALSE, tag |-> {}]

GridOK(g) ==
  /\ g.rows \in Nat \ {0} /\ g.cols \in Nat \ {0}
  /\ g = [rows |-> g.rows, cols |-> g.cols, line |-> g.line,
          dirty |-> g.dirty]
  /\ g.line \in [Span(g.rows) -> Line(g.cols)]
  /\ g.dirty \in [Span(g.rows) -> BOOLEAN]

NewGrid(rows, cols) ==
  [rows  |-> rows, cols |-> cols,
   line  |-> [r \in Span(rows) |-> BlankLine(cols)],
   dirty |-> [r \in Span(rows) |-> TRUE]]

IsDamaged(g) == \E r \in Span(g.rows) : g.dirty[r]
ClearDamage(g) == [g EXCEPT !.dirty = [r \in Span(g.rows) |-> FALSE]]
Touch(g) == [g EXCEPT !.dirty = [r \in Span(g.rows) |-> TRUE]]

(* set and set_continuation: out of range is a no-op, and a row is marked  *)
(* only when the cell really changes.                                      *)
SetCell(g, row, col, x) ==
  IF row < g.rows /\ col < g.cols /\ g.line[row].cells[col] # x
  THEN [g EXCEPT !.line[row].cells[col] = x, !.dirty[row] = TRUE]
  ELSE g

(* The loops of ED and EL that set a block of cells to the default.        *)
BlankCells(g, block) ==
  [g EXCEPT
    !.line = [r \in Span(g.rows) |->
               [g.line[r] EXCEPT !.cells = [c \in Span(g.cols) |->
                  IF <<r, c>> \in block THEN BlankCell
                  ELSE g.line[r].cells[c]]]],
    !.dirty = [r \in Span(g.rows) |->
                g.dirty[r] \/ \E c \in Span(g.cols) :
                  <<r, c>> \in block /\ g.line[r].cells[c] # BlankCell]]

SetWrapped(g, row) ==
  IF row < g.rows THEN [g EXCEPT !.line[row].wrapped = TRUE] ELSE g

(* clear keeps the ghost tags: an anchor names the place on the screen.    *)
Clear(g) ==
  Touch([g EXCEPT !.line = [r \in Span(g.rows) |->
           [BlankLine(g.cols) EXCEPT !.tag = g.line[r].tag]]])

(* Top-left content survives; a wrap flag only while the width is the same *)
ResizeGrid(g, rows, cols) ==
  [rows |-> rows, cols |-> cols,
   line |-> [r \in Span(rows) |->
     IF r < g.rows
     THEN [cells   |-> [c \in Span(cols) |->
                          IF c < g.cols THEN g.line[r].cells[c]
                          ELSE BlankCell],
           wrapped |-> g.line[r].wrapped /\ cols = g.cols,
           tag     |-> g.line[r].tag]
     ELSE BlankLine(cols)],
   dirty |-> [r \in Span(rows) |-> TRUE]]

MarkRows(g, top, bot) ==
  [r \in Span(g.rows) |-> g.dirty[r] \/ (top <= r /\ r <= bot)]

ScrollRegionUp(g, top, bot, n) ==
  LET b == Least(bot, g.rows - 1)
  IN  IF top > b THEN g ELSE
      [g EXCEPT
        !.line = [r \in Span(g.rows) |->
                   IF r < top \/ r > b THEN g.line[r]
                   ELSE IF r + n <= b THEN g.line[r + n]
                   ELSE BlankLine(g.cols)],
        !.dirty = MarkRows(g, top, b)]

ScrollRegionDown(g, top, bot, n) ==
  LET b == Least(bot, g.rows - 1)
  IN  IF top > b THEN g ELSE
      [g EXCEPT
        !.line = [r \in Span(g.rows) |->
                   IF r < top \/ r > b THEN g.line[r]
                   ELSE IF r >= top + n THEN g.line[r - n]
                   ELSE BlankLine(g.cols)],
        !.dirty = MarkRows(g, top, b)]

\* Mutant: the rewritten row is not marked damaged.
RewriteRowUnmarked(g, row, cells) == [g EXCEPT !.line[row].cells = cells]

(* insert_blanks, delete_chars and erase_chars rewrite the cells of one    *)
(* row from column col on and mark the row whatever they change.           *)
RewriteRow(g, row, cells) ==
  [g EXCEPT !.line[row].cells = cells, !.dirty[row] = TRUE]

InsertBlanks(g, row, col, n) ==
  IF row >= g.rows \/ col >= g.cols THEN g ELSE
  RewriteRow(g, row, [c \in Span(g.cols) |->
    IF c < col THEN g.line[row].cells[c]
    ELSE IF c >= col + n THEN g.line[row].cells[c - n] ELSE BlankCell])

DeleteChars(g, row, col, n) ==
  IF row >= g.rows \/ col >= g.cols THEN g ELSE
  RewriteRow(g, row, [c \in Span(g.cols) |->
    IF c < col THEN g.line[row].cells[c]
    ELSE IF c + n < g.cols THEN g.line[row].cells[c + n] ELSE BlankCell])

EraseChars(g, row, col, n) ==
  IF row >= g.rows \/ col >= g.cols THEN g ELSE
  RewriteRow(g, row, [c \in Span(g.cols) |->
    IF col <= c /\ c < col + n THEN BlankCell ELSE g.line[row].cells[c]])
=============================================================================
