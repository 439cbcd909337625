---------------------------- MODULE ScreenProofs ----------------------------
(***************************************************************************)
(* What holds of the screen of a pane for every size, glyph set,           *)
(* parameter, scrollback cap and order of the steps of its program, its    *)
(* user and the renderer.                                                  *)
(*                                                                         *)
(* First come the two pure layers below the screen: the methods of the     *)
(* grid, and the layout of a reflow, which is a sum, a search and a cut    *)
(* over the physical rows.                                                 *)
(*                                                                         *)
(* The operations are sorted by what they do to the text: Stays (no line   *)
(* moves against another, or all move up together into the scrollback),    *)
(* Keeps (lines of the grid may move), and the swaps, resets, clears and   *)
(* resizes. From that follow the inductive invariant IInv (well formed     *)
(* screens, and the cache agrees unless there is damage), the invariant    *)
(* MInv of the prompt marks (each is on a line that alone has its anchor), *)
(* and the selection.                                                      *)
(*                                                                         *)
(* The hypotheses on what a pane meets are NoAltResize, PlainMarks and     *)
(* StillSelect; the README says what happens without them.                 *)
(***************************************************************************)
EXTENDS ScreenProps, Reflow, Recursion, FiniteSetTheorems

-----------------------------------------------------------------------------
(* The grid: what an operation may do to it *)

Same(g, h) == GridOK(h) /\ h.rows = g.rows /\ h.cols = g.cols
SameChars(g, h) ==
  \A r \in Span(g.rows), c \in Span(g.cols) :
    h.line[r].cells[c].ch = g.line[r].cells[c].ch
SameTags(g, h) == \A r \in Span(g.rows) : h.line[r].tag = g.line[r].tag
Painted(g, h) == /\ IsDamaged(g) => IsDamaged(h)
                 /\ IsDamaged(h) \/ SameChars(g, h)
Edited(g, h) == Same(g, h) /\ SameTags(g, h) /\ Painted(g, h)
Rolled(g, h) == Same(g, h) /\ Painted(g, h)

(* The rows, or columns, of n.                                             *)
LEMMA SpanHas == ASSUME NEW n, n \in Nat, NEW r PROVE r \in Span(n) <=> r \in Nat /\ r < n
  BY DEF Span

(* A grid is a record of its four fields.                                  *)
GridRec(g) == DOMAIN g = {"rows", "cols", "line", "dirty"} /\ g = [f \in DOMAIN g |-> g[f]]
GridParts(g) == /\ g.rows \in Nat \ {0} /\ g.cols \in Nat \ {0}
                /\ g.line \in [Span(g.rows) -> Line(g.cols)]
                /\ g.dirty \in [Span(g.rows) -> BOOLEAN]

(* A grid in terms of its fields.                                          *)
LEMMA GridIs == ASSUME NEW g PROVE GridOK(g) <=> GridRec(g) /\ GridParts(g)
<1> DEFINE k == [rows |-> g.rows, cols |-> g.cols, line |-> g.line, dirty |-> g.dirty]
<1>1. /\ k.rows = g.rows /\ k.cols = g.cols /\ k.line = g.line /\ k.dirty = g.dirty
      /\ DOMAIN k = {"rows", "cols", "line", "dirty"} /\ k = [f \in DOMAIN k |-> k[f]]
  OBVIOUS
<1>2. GridOK(g) <=> g = k /\ GridParts(g)
  BY DEF GridOK, GridParts
<1> HIDE DEF k
<1>3. GridRec(g) => g = k
  <2> SUFFICES ASSUME GridRec(g) PROVE g = k
    OBVIOUS
  <2>1. \A f \in DOMAIN g : g[f] = k[f]
    BY <1>1 DEF GridRec
  <2>2. DOMAIN g = DOMAIN k
    BY <1>1 DEF GridRec
  <2> QED BY <1>1, <2>1, <2>2 DEF GridRec
<1>4. g = k => GridRec(g)
  BY <1>1 DEF GridRec
<1> QED BY <1>2, <1>3, <1>4

(* A grid h that is g with the lines l and the flags d.                    *)
Formed(g, h, l, d) == Same(g, h) /\ h.line = l /\ h.dirty = d

(* A grid with other lines or other damage flags is a grid.                *)
LEMMA GridFrom ==
  ASSUME NEW g, GridOK(g),
         NEW l \in [Span(g.rows) -> Line(g.cols)], NEW d \in [Span(g.rows) -> BOOLEAN]
  PROVE  /\ Formed(g, [g EXCEPT !.line = l, !.dirty = d], l, d)
         /\ Formed(g, [g EXCEPT !.line = l], l, g.dirty)
         /\ Formed(g, [g EXCEPT !.dirty = d], g.line, d)
<1>1. GridRec(g) /\ GridParts(g)
  BY GridIs
<1>2. ASSUME NEW h, GridRec(h), h.rows = g.rows, h.cols = g.cols,
             h.line \in [Span(g.rows) -> Line(g.cols)], h.dirty \in [Span(g.rows) -> BOOLEAN]
      PROVE  Same(g, h)
  BY <1>1, <1>2, GridIs DEF Same, GridParts
<1>3. Formed(g, [g EXCEPT !.line = l, !.dirty = d], l, d)
  <2> DEFINE h == [g EXCEPT !.line = l, !.dirty = d]
  <2>1. GridRec(h) /\ h.rows = g.rows /\ h.cols = g.cols /\ h.line = l /\ h.dirty = d
    BY <1>1 DEF GridRec
  <2> HIDE DEF h
  <2> QED BY <1>2, <2>1 DEF Formed, h
<1>4. Formed(g, [g EXCEPT !.line = l], l, g.dirty)
  <2> DEFINE h == [g EXCEPT !.line = l]
  <2>1. GridRec(h) /\ h.rows = g.rows /\ h.cols = g.cols /\ h.line = l /\ h.dirty = g.dirty
    BY <1>1 DEF GridRec
  <2> HIDE DEF h
  <2> QED BY <1>1, <1>2, <2>1 DEF Formed, h, GridParts
<1>5. Formed(g, [g EXCEPT !.dirty = d], g.line, d)
  <2> DEFINE h == [g EXCEPT !.dirty = d]
  <2>1. GridRec(h) /\ h.rows = g.rows /\ h.cols = g.cols /\ h.line = g.line /\ h.dirty = d
    BY <1>1 DEF GridRec
  <2> HIDE DEF h
  <2> QED BY <1>1, <1>2, <2>1 DEF Formed, h, GridParts
<1> QED BY <1>3, <1>4, <1>5

(* A line with other cells is a line of the same width and keeps its       *)
(* anchors.                                                                *)
LEMMA Lines0 ==
  ASSUME NEW cols, NEW x \in Line(cols)
  PROVE  /\ \A c \in [Span(cols) -> Cell] : [x EXCEPT !.cells = c] \in Line(cols)
         /\ \A c \in [Span(cols) -> Cell] : [x EXCEPT !.cells = c].tag = x.tag
         /\ \A c \in [Span(cols) -> Cell] : [x EXCEPT !.cells = c].cells = c
         /\ \A c \in Span(cols) : x.cells[c] \in Cell /\ x.cells[c].ch \in Glyphs \cup {Blank}
         /\ x.cells \in [Span(cols) -> Cell] /\ x.wrapped \in BOOLEAN /\ x.tag \subseteq Anchors
  BY DEF Line, Cell

(* The blank values are cells and lines.                                   *)
LEMMA Blanks ==
  ASSUME NEW cols
  PROVE  /\ BlankCell \in Cell /\ Spacer \in Cell /\ BlankLine(cols) \in Line(cols)
         /\ \A x \in Glyphs \cup {Blank} : Plain(x) \in Cell
         /\ BlankLine(cols).tag = {}
         /\ \A c \in Span(cols) : BlankLine(cols).cells[c].ch = Blank
  BY DEF Cell, BlankCell, Spacer, Plain, BlankLine, Line

(* A row of the grid gets the cells cs, and is marked.                     *)
LEMMA EditRow ==
  ASSUME NEW g, GridOK(g), NEW row \in Span(g.rows), NEW cs \in [Span(g.cols) -> Cell]
  PROVE  Edited(g, [g EXCEPT !.line[row].cells = cs, !.dirty[row] = TRUE])
<1> DEFINE l == [g.line EXCEPT ![row] = [@ EXCEPT !.cells = cs]]
           d == [g.dirty EXCEPT ![row] = TRUE]
           h == [g EXCEPT !.line = l, !.dirty = d]
<1>1. [g EXCEPT !.line[row].cells = cs, !.dirty[row] = TRUE] = h
  BY DEF GridOK
<1>2. l \in [Span(g.rows) -> Line(g.cols)] /\ d \in [Span(g.rows) -> BOOLEAN] /\ d[row] = TRUE
  BY Lines0 DEF GridOK
<1>3. \A r \in Span(g.rows) : l[r].tag = g.line[r].tag
  BY Lines0 DEF GridOK
<1> HIDE DEF l, d
<1>4. Formed(g, h, l, d)
  BY <1>2, GridFrom
<1> HIDE DEF h
<1>5. IsDamaged(h)
  BY <1>2, <1>4 DEF IsDamaged, Same, Formed
<1> QED BY <1>1, <1>3, <1>4, <1>5 DEF Edited, Painted, SameTags, Formed

(* set and set_continuation, at any position.                              *)
LEMMA SetCellEdits ==
  ASSUME NEW g, GridOK(g), NEW row \in Nat, NEW col \in Nat, NEW x \in Cell
  PROVE  Edited(g, SetCell(g, row, col, x))
<1>1. CASE row < g.rows /\ col < g.cols /\ g.line[row].cells[col] # x
  <2>1. row \in Span(g.rows) /\ col \in Span(g.cols)
    BY <1>1 DEF GridOK, Span
  <2> DEFINE cs == [g.line[row].cells EXCEPT ![col] = x]
  <2>2. cs \in [Span(g.cols) -> Cell]
    BY <2>1, Lines0 DEF GridOK
  <2>3. SetCell(g, row, col, x) = [g EXCEPT !.line[row].cells = cs, !.dirty[row] = TRUE]
    BY <1>1, <2>1 DEF SetCell, GridOK
  <2> HIDE DEF cs
  <2>4. Edited(g, [g EXCEPT !.line[row].cells = cs, !.dirty[row] = TRUE])
    BY <2>1, <2>2, EditRow
  <2> QED BY <2>3, <2>4
<1>2. Edited(g, g)
  BY DEF Edited, Same, SameTags, Painted, SameChars
<1> QED BY <1>1, <1>2 DEF SetCell

(* Rewriting a row.                                                        *)
LEMMA RowEdits ==
  ASSUME NEW g, GridOK(g), NEW row \in Nat, NEW col \in Nat, NEW n \in Nat
  PROVE  /\ Edited(g, InsertBlanks(g, row, col, n))
         /\ Edited(g, DeleteChars(g, row, col, n))
         /\ Edited(g, EraseChars(g, row, col, n))
<1>1. Edited(g, g)
  BY DEF Edited, Same, SameTags, Painted, SameChars
<1>2. SUFFICES ASSUME row < g.rows, col < g.cols
               PROVE  /\ Edited(g, InsertBlanks(g, row, col, n))
                      /\ Edited(g, DeleteChars(g, row, col, n))
                      /\ Edited(g, EraseChars(g, row, col, n))
  BY <1>1 DEF InsertBlanks, DeleteChars, EraseChars, GridOK
<1>3. row \in Span(g.rows) /\ g.cols \in Nat /\ g.rows \in Nat
  BY <1>2 DEF GridOK, Span
<1> DEFINE old == g.line[row].cells
<1>4. old \in [Span(g.cols) -> Cell] /\ BlankCell \in Cell
  BY <1>3, Lines0, Blanks DEF GridOK
<1>5. \A cs \in [Span(g.cols) -> Cell] : Edited(g, RewriteRow(g, row, cs))
  BY <1>3, EditRow DEF RewriteRow
<1> HIDE DEF old
<1> DEFINE ins == [c \in Span(g.cols) |-> IF c < col THEN old[c]
                     ELSE IF c >= col + n THEN old[c - n] ELSE BlankCell]
           del == [c \in Span(g.cols) |-> IF c < col THEN old[c]
                     ELSE IF c + n < g.cols THEN old[c + n] ELSE BlankCell]
           era == [c \in Span(g.cols) |-> IF col <= c /\ c < col + n THEN BlankCell ELSE old[c]]
<1>6. ins \in [Span(g.cols) -> Cell]
  BY <1>3, <1>4 DEF Span
<1>7. del \in [Span(g.cols) -> Cell]
  BY <1>3, <1>4 DEF Span
<1>8. era \in [Span(g.cols) -> Cell]
  BY <1>3, <1>4 DEF Span
<1>9. /\ InsertBlanks(g, row, col, n) = RewriteRow(g, row, ins)
      /\ DeleteChars(g, row, col, n) = RewriteRow(g, row, del)
      /\ EraseChars(g, row, col, n) = RewriteRow(g, row, era)
  BY <1>2, <1>3 DEF InsertBlanks, DeleteChars, EraseChars, old
<1> HIDE DEF ins, del, era
<1> QED BY <1>5, <1>6, <1>7, <1>8, <1>9

(* Touch and clear mark every row; a wrap flag is nothing one sees.        *)
LEMMA WholeEdits ==
  ASSUME NEW g, GridOK(g)
  PROVE  /\ Edited(g, Touch(g)) /\ IsDamaged(Touch(g)) /\ Touch(g).line = g.line
         /\ Edited(g, Clear(g)) /\ IsDamaged(Clear(g))
         /\ Same(g, ClearDamage(g)) /\ ClearDamage(g).line = g.line
         /\ ~IsDamaged(ClearDamage(g))
<1>1. /\ g.rows \in Nat \ {0} /\ 0 \in Span(g.rows)
      /\ g.line \in [Span(g.rows) -> Line(g.cols)] /\ g.dirty \in [Span(g.rows) -> BOOLEAN]
  BY DEF GridOK, Span
<1> DEFINE all == [r \in Span(g.rows) |-> TRUE]
           none == [r \in Span(g.rows) |-> FALSE]
<1>2. all \in [Span(g.rows) -> BOOLEAN] /\ none \in [Span(g.rows) -> BOOLEAN]
  OBVIOUS
<1>3. ASSUME NEW k, GridOK(k), k.rows = g.rows, k.cols = g.cols
      PROVE  /\ Same(k, Touch(k)) /\ Touch(k).line = k.line /\ Touch(k).dirty = all
             /\ Same(k, ClearDamage(k)) /\ ClearDamage(k).line = k.line
             /\ ClearDamage(k).dirty = none
  <2>1. k.line \in [Span(k.rows) -> Line(k.cols)]
    BY <1>3 DEF GridOK
  <2>2. Touch(k) = [k EXCEPT !.dirty = all] /\ ClearDamage(k) = [k EXCEPT !.dirty = none]
    BY <1>3 DEF Touch, ClearDamage
  <2> HIDE DEF all, none
  <2>3. /\ Formed(k, [k EXCEPT !.dirty = all], k.line, all)
        /\ Formed(k, [k EXCEPT !.dirty = none], k.line, none)
    <3>1. all \in [Span(k.rows) -> BOOLEAN] /\ none \in [Span(k.rows) -> BOOLEAN]
      BY <1>2, <1>3
    <3> QED BY <1>3, <2>1, <3>1, GridFrom
  <2> QED BY <2>2, <2>3 DEF Formed
<1>4. \A k : Same(g, k) /\ k.dirty = all => IsDamaged(k)
  BY <1>1 DEF Same, IsDamaged
<1>5. ~IsDamaged(ClearDamage(g))
  BY <1>3 DEF Same, IsDamaged
<1>6. Edited(g, Touch(g)) /\ IsDamaged(Touch(g))
  BY <1>3, <1>4 DEF Edited, Painted, SameTags, SameChars
<1> DEFINE l == [r \in Span(g.rows) |-> [BlankLine(g.cols) EXCEPT !.tag = g.line[r].tag]]
           k == [g EXCEPT !.line = l]
<1>7. l \in [Span(g.rows) -> Line(g.cols)] /\ \A r \in Span(g.rows) : l[r].tag = g.line[r].tag
  BY <1>1, Lines0, Blanks DEF Line, BlankLine
<1>8. Clear(g) = Touch(k) /\ k = [g EXCEPT !.line = l]
  BY DEF Clear
<1> HIDE DEF l
<1>9. Same(g, k) /\ k.line = l
  <2>1. Formed(g, k, l, g.dirty)
    BY <1>1, <1>7, GridFrom
  <2> QED BY <2>1 DEF Formed
<1> HIDE DEF k
<1>10. Same(k, Touch(k)) /\ Touch(k).line = l /\ Touch(k).dirty = all
  BY <1>3, <1>9 DEF Same
<1>11. Edited(g, Clear(g)) /\ IsDamaged(Clear(g))
  BY <1>4, <1>7, <1>8, <1>9, <1>10 DEF Edited, Painted, SameTags, Same
<1> QED BY <1>3, <1>5, <1>6, <1>11

(* set_wrapped shows nothing and so needs no damage.                       *)
LEMMA WrapEdits ==
  ASSUME NEW g, GridOK(g), NEW row \in Nat
  PROVE  Edited(g, SetWrapped(g, row))
<1>1. Edited(g, g)
  BY DEF Edited, Same, SameTags, Painted, SameChars
<1>2. CASE row < g.rows
  <2> DEFINE l == [g.line EXCEPT ![row].wrapped = TRUE]
             h == [g EXCEPT !.line = l]
  <2>1. row \in Span(g.rows)
    BY <1>2 DEF GridOK, Span
  <2>2. /\ l \in [Span(g.rows) -> Line(g.cols)]
        /\ \A r \in Span(g.rows) : l[r].tag = g.line[r].tag /\ l[r].cells = g.line[r].cells
    BY <2>1 DEF GridOK, Line
  <2>3. SetWrapped(g, row) = h
    BY <1>2, <2>1 DEF SetWrapped, GridOK
  <2>5. g.dirty \in [Span(g.rows) -> BOOLEAN]
    BY DEF GridOK
  <2> HIDE DEF l
  <2>6. Same(g, h) /\ h.line = l /\ h.dirty = g.dirty
    <3>1. Formed(g, h, l, g.dirty)
      BY <2>2, <2>5, GridFrom
    <3> QED BY <3>1 DEF Formed
  <2> HIDE DEF h
  <2> QED BY <2>2, <2>3, <2>6 DEF Edited, Painted, SameTags, SameChars, IsDamaged, Same
<1> QED BY <1>1, <1>2 DEF SetWrapped

(* The clear_* methods, for any block of cells.                            *)
LEMMA EraseEdits ==
  ASSUME NEW g, GridOK(g), NEW block
  PROVE  Edited(g, BlankCells(g, block))
<1> DEFINE cells(r) == [c \in Span(g.cols) |-> IF <<r, c>> \in block THEN BlankCell
                                               ELSE g.line[r].cells[c]]
           l == [r \in Span(g.rows) |-> [g.line[r] EXCEPT !.cells = cells(r)]]
           d == [r \in Span(g.rows) |-> g.dirty[r] \/ \E c \in Span(g.cols) :
                   <<r, c>> \in block /\ g.line[r].cells[c] # BlankCell]
           h == [g EXCEPT !.line = l, !.dirty = d]
<1>1. /\ g.line \in [Span(g.rows) -> Line(g.cols)] /\ g.dirty \in [Span(g.rows) -> BOOLEAN]
      /\ g.rows \in Nat
  BY DEF GridOK
<1>2. \A r \in Span(g.rows) : cells(r) \in [Span(g.cols) -> Cell]
  BY <1>1, Lines0, Blanks
<1>3. /\ l \in [Span(g.rows) -> Line(g.cols)] /\ d \in [Span(g.rows) -> BOOLEAN]
      /\ \A r \in Span(g.rows) : l[r].tag = g.line[r].tag /\ l[r].cells = cells(r)
  <2> HIDE DEF cells
  <2>1. l \in [Span(g.rows) -> Line(g.cols)]
    <3>1. \A r \in Span(g.rows) : [g.line[r] EXCEPT !.cells = cells(r)] \in Line(g.cols)
      BY <1>1, <1>2, Lines0
    <3> QED BY <3>1
  <2>2. \A r \in Span(g.rows) : l[r].tag = g.line[r].tag /\ l[r].cells = cells(r)
    <3>1. \A r \in Span(g.rows) : /\ [g.line[r] EXCEPT !.cells = cells(r)].tag = g.line[r].tag
                                   /\ [g.line[r] EXCEPT !.cells = cells(r)].cells = cells(r)
      BY <1>1, <1>2, Lines0
    <3> QED BY <3>1
  <2>3. d \in [Span(g.rows) -> BOOLEAN]
    BY <1>1
  <2> QED BY <2>1, <2>2, <2>3
<1>4. BlankCells(g, block) = h /\ h = [g EXCEPT !.line = l, !.dirty = d]
  BY DEF BlankCells
<1>5. (\E r \in Span(g.rows) : g.dirty[r]) => \E r \in Span(g.rows) : d[r]
  OBVIOUS
<1>6. ASSUME \A r \in Span(g.rows) : ~d[r], NEW r \in Span(g.rows), NEW c \in Span(g.cols)
      PROVE  l[r].cells[c].ch = g.line[r].cells[c].ch
  <2>1. <<r, c>> \in block => g.line[r].cells[c] = BlankCell
    BY <1>6
  <2>2. cells(r)[c] = g.line[r].cells[c]
    BY <2>1
  <2> QED BY <1>3, <2>2
<1> HIDE DEF l, d, cells
<1>7. Same(g, h) /\ h.line = l /\ h.dirty = d
  <2>1. Formed(g, h, l, d)
    BY <1>3, GridFrom
  <2> QED BY <2>1 DEF Formed
<1> HIDE DEF h
<1>8. IsDamaged(g) => IsDamaged(h)
  BY <1>5, <1>7 DEF IsDamaged, Same
<1>9. IsDamaged(h) \/ SameChars(g, h)
  BY <1>6, <1>7 DEF IsDamaged, SameChars, Same
<1> QED BY <1>3, <1>4, <1>7, <1>8, <1>9 DEF Edited, Painted, SameTags

(* Scrolling a region moves whole lines, and marks the region.             *)
LEMMA ScrollRolls ==
  ASSUME NEW g, GridOK(g), NEW top \in Nat, NEW bot \in Nat, NEW n \in Nat
  PROVE  /\ Rolled(g, ScrollRegionUp(g, top, bot, n))
         /\ Rolled(g, ScrollRegionDown(g, top, bot, n))
<1> DEFINE b == Least(bot, g.rows - 1)
           up == [r \in Span(g.rows) |-> IF r < top \/ r > b THEN g.line[r]
                    ELSE IF r + n <= b THEN g.line[r + n] ELSE BlankLine(g.cols)]
           down == [r \in Span(g.rows) |-> IF r < top \/ r > b THEN g.line[r]
                      ELSE IF r >= top + n THEN g.line[r - n] ELSE BlankLine(g.cols)]
           d == MarkRows(g, top, b)
<1>1. /\ g.rows \in Nat /\ b \in Nat /\ b < g.rows
      /\ g.line \in [Span(g.rows) -> Line(g.cols)] /\ g.dirty \in [Span(g.rows) -> BOOLEAN]
      /\ BlankLine(g.cols) \in Line(g.cols)
  BY Blanks DEF GridOK, Least
<1>2. Rolled(g, g)
  BY DEF Rolled, Same, Painted, SameChars
<1>3. /\ ScrollRegionUp(g, top, bot, n) = IF top > b THEN g
           ELSE [g EXCEPT !.line = up, !.dirty = d]
      /\ ScrollRegionDown(g, top, bot, n) = IF top > b THEN g
           ELSE [g EXCEPT !.line = down, !.dirty = d]
  BY DEF ScrollRegionUp, ScrollRegionDown
<1>4. up \in [Span(g.rows) -> Line(g.cols)]
  <2> HIDE DEF b
  <2> QED BY <1>1 DEF Span
<1>5. down \in [Span(g.rows) -> Line(g.cols)]
  <2> HIDE DEF b
  <2> QED BY <1>1 DEF Span
<1>6. d \in [Span(g.rows) -> BOOLEAN] /\ (top <= b => d[top] /\ top \in Span(g.rows))
  <2> HIDE DEF b
  <2>1. d \in [Span(g.rows) -> BOOLEAN]
    BY <1>1 DEF MarkRows
  <2>2. top <= top /\ (top <= b => top \in Span(g.rows))
    BY <1>1 DEF Span
  <2>3. top <= b => d[top]
    BY <2>2, Zenon DEF MarkRows
  <2> QED BY <2>1, <2>2, <2>3
<1> HIDE DEF up, down, d, b
<1>7. ASSUME NEW l \in [Span(g.rows) -> Line(g.cols)], top <= b,
             NEW h, h = [g EXCEPT !.line = l, !.dirty = d]
      PROVE  Rolled(g, h)
  <2>1. Same(g, h) /\ h.dirty = d
    <3>1. Formed(g, [g EXCEPT !.line = l, !.dirty = d], l, d)
      BY <1>6, <1>7, GridFrom
    <3> QED BY <1>7, <3>1 DEF Formed
  <2>2. IsDamaged(h)
    BY <1>6, <1>7, <2>1 DEF IsDamaged, Same
  <2> QED BY <2>1, <2>2 DEF Rolled, Painted
<1>8. top > b \/ top <= b
  BY <1>1
<1> QED BY <1>2, <1>3, <1>4, <1>5, <1>7, <1>8

(* Grid::new, also with other lines in it: the whole grid is damaged.      *)
LEMMA NewGridOK ==
  ASSUME NEW rows \in Nat \ {0}, NEW cols \in Nat \ {0}
  PROVE  LET g == NewGrid(rows, cols)
         IN  /\ GridOK(g) /\ g.rows = rows /\ g.cols = cols /\ IsDamaged(g)
             /\ \A r \in Span(rows) : g.line[r].tag = {}
             /\ \A l \in [Span(rows) -> Line(cols)] : \A h :
                  h = [g EXCEPT !.line = l] =>
                    GridOK(h) /\ h.rows = rows /\ h.cols = cols /\ h.line = l /\ IsDamaged(h)
<1> DEFINE g == NewGrid(rows, cols)
<1>1. /\ GridRec(g) /\ g.rows = rows /\ g.cols = cols
      /\ g.line = [r \in Span(rows) |-> BlankLine(cols)]
      /\ g.dirty = [r \in Span(rows) |-> TRUE]
  BY DEF NewGrid, GridRec
<1> HIDE DEF g
<1>2. GridOK(g)
  <2>1. BlankLine(cols) \in Line(cols)
    BY Blanks
  <2>2. g.line \in [Span(rows) -> Line(cols)] /\ g.dirty \in [Span(rows) -> BOOLEAN]
    BY <1>1, <2>1
  <2>3. GridParts(g)
    BY <1>1, <2>2 DEF GridParts
  <2> QED BY <1>1, <2>3, GridIs
<1>3. IsDamaged(g) /\ \A r \in Span(rows) : g.line[r].tag = {}
  <2>1. 0 \in Span(rows)
    BY DEF Span
  <2> QED BY <1>1, <2>1, Blanks DEF IsDamaged
<1>4. ASSUME NEW l \in [Span(rows) -> Line(cols)], NEW h, h = [g EXCEPT !.line = l]
      PROVE  GridOK(h) /\ h.rows = rows /\ h.cols = cols /\ h.line = l /\ IsDamaged(h)
  <2>1. g.dirty \in [Span(g.rows) -> BOOLEAN]
    BY <1>1
  <2>2. Same(g, h) /\ h.line = l /\ h.dirty = g.dirty
    <3>1. Formed(g, [g EXCEPT !.line = l], l, g.dirty)
      BY <1>1, <1>2, <2>1, GridFrom
    <3> QED BY <1>4, <3>1 DEF Formed
  <2> QED BY <1>1, <1>3, <2>2 DEF Same, IsDamaged
<1> QED BY <1>1, <1>2, <1>3, <1>4 DEF g

(* Grid::resize gives a grid of the new dimensions, all of it damaged.     *)
LEMMA ResizeGridOK ==
  ASSUME NEW g, GridOK(g), NEW rows \in Nat \ {0}, NEW cols \in Nat \ {0}
  PROVE  LET h == ResizeGrid(g, rows, cols)
         IN  GridOK(h) /\ h.rows = rows /\ h.cols = cols /\ IsDamaged(h)
<1> DEFINE line(r) == [cells   |-> [c \in Span(cols) |-> IF c < g.cols THEN g.line[r].cells[c]
                                                         ELSE BlankCell],
                       wrapped |-> g.line[r].wrapped /\ cols = g.cols,
                       tag     |-> g.line[r].tag]
           l == [r \in Span(rows) |-> IF r < g.rows THEN line(r) ELSE BlankLine(cols)]
           h == ResizeGrid(g, rows, cols)
<1>1. /\ GridRec(h) /\ h.rows = rows /\ h.cols = cols
      /\ h.line = l /\ h.dirty = [r \in Span(rows) |-> TRUE]
  BY DEF ResizeGrid, GridRec
<1>2. /\ g.rows \in Nat /\ g.cols \in Nat /\ g.line \in [Span(g.rows) -> Line(g.cols)]
      /\ BlankCell \in Cell /\ BlankLine(cols) \in Line(cols)
  BY Blanks DEF GridOK
<1>3. ASSUME NEW r \in Span(g.rows) PROVE line(r) \in Line(cols)
  <2>1. g.line[r] \in Line(g.cols)
    BY <1>2
  <2>2. [c \in Span(cols) |-> IF c < g.cols THEN g.line[r].cells[c] ELSE BlankCell]
          \in [Span(cols) -> Cell]
    BY <1>2, <2>1, Lines0 DEF Span
  <2> QED BY <2>1, <2>2 DEF Line
<1> HIDE DEF h, line
<1>4. l \in [Span(rows) -> Line(cols)]
  BY <1>2, <1>3 DEF Span
<1>5. GridOK(h)
  BY <1>1, <1>4, GridIs DEF GridParts
<1>6. IsDamaged(h)
  BY <1>1 DEF IsDamaged, Span
<1> QED BY <1>1, <1>5, <1>6 DEF h

-----------------------------------------------------------------------------
(* The reflow *)

(* The physical rows a layout starts from.                                 *)
InputOK(x) == /\ x.n \in Nat /\ x.oc \in Nat \ {0}
              /\ x.cr \in Nat /\ x.cr < x.n /\ x.cc \in Nat /\ x.cc <= x.oc
              /\ x.p \in [Span(x.n) -> Line(x.oc)]

(* A product grows with its factor.                                        *)
LEMMA Monotone ==
  ASSUME NEW a \in Nat, NEW b \in Nat, a <= b, NEW d \in Nat
  PROVE  a * d \in Nat /\ a * d <= b * d
<1> DEFINE e == b - a
<1>1. e \in Nat /\ b = a + e
  OBVIOUS
<1> HIDE DEF e
<1>2. b * d = a * d + e * d /\ a * d \in Nat /\ e * d \in Nat
  BY <1>1
<1> DEFINE u == a * d
           v == e * d
<1>3. u \in Nat /\ v \in Nat /\ b * d = u + v
  BY <1>2
<1> HIDE DEF u, v
<1>4. u <= u + v
  BY <1>3
<1> QED BY <1>3, <1>4 DEF u

(* A quotient and its remainder (the provers treat a product of two        *)
(* variables as a black box).                                              *)
LEMMA DivMod ==
  ASSUME NEW o \in Nat, NEW d \in Nat \ {0}
  PROVE  /\ o \div d \in Nat /\ o % d \in Span(d)
         /\ (o \div d) * d <= o
         /\ \A m \in Nat : o < m * d => o \div d < m
<1>1. o \div d \in Nat /\ o % d \in 0 .. (d - 1) /\ o = d * (o \div d) + (o % d)
  BY SMTT(30)
<1> DEFINE q == o \div d
<1>2. q \in Nat /\ o = d * q + (o % d) /\ o % d \in Nat
  BY <1>1
<1> HIDE DEF q
<1>3. d * q = q * d /\ q * d \in Nat
  BY <1>2
<1>4. q * d <= o
  <2> DEFINE u == q * d
  <2>1. o = u + (o % d) /\ u \in Nat
    BY <1>2, <1>3
  <2> HIDE DEF u
  <2>2. u <= o
    BY <1>2, <2>1
  <2> QED BY <2>2 DEF u
<1>5. ASSUME NEW m \in Nat, o < m * d PROVE q < m
  <2> SUFFICES ASSUME m <= q PROVE FALSE
    BY <1>2
  <2>1. m * d <= q * d /\ m * d \in Nat
    BY <1>2, Monotone
  <2> DEFINE u == m * d
             v == q * d
  <2>2. u <= v /\ v <= o /\ o < u /\ u \in Nat /\ v \in Nat
    BY <1>3, <1>4, <1>5, <2>1
  <2> HIDE DEF u, v
  <2> QED BY <2>2
<1> QED BY <1>1, <1>4, <1>5 DEF Span, q

(* The rows that are kept are some of those there are, and the cursor's is *)
(* among them.                                                             *)
LEMMA KeptIs ==
  ASSUME NEW x, InputOK(x)
  PROVE  Kept(x) \in Nat /\ x.cr + 1 <= Kept(x) /\ Kept(x) <= x.n
<1> DEFINE drop(i) == IsBlankRow(x.p[i]) /\ ~x.p[i].wrapped
           T == {k \in (x.cr + 1) .. x.n : \A i \in k .. (x.n - 1) : drop(i)}
           P(k) == /\ \A i \in k .. (x.n - 1) : drop(i)
                   /\ k = x.cr + 1 \/ ~drop(k - 1)
<1>1. x.n \in Nat /\ x.cr \in Nat /\ x.cr < x.n
  BY DEF InputOK
<1>2. Kept(x) = CHOOSE k \in (x.cr + 1) .. x.n : P(k)
  BY ZenonT(60) DEF Kept
<1> HIDE DEF drop
<1>3. T \subseteq Nat /\ x.n \in T
  BY <1>1
<1>4. PICK k \in T : \A j \in T : k <= j
  <2> HIDE DEF T
  <2> QED BY <1>3, LeastNat
<1>5. k \in (x.cr + 1) .. x.n /\ P(k)
  <2>1. CASE k = x.cr + 1
    BY <1>4, <2>1
  <2>2. CASE k # x.cr + 1
    <3>1. k - 1 \in (x.cr + 1) .. x.n /\ k - 1 \notin T
      BY <1>1, <1>4, <2>2
    <3>2. PICK i \in (k - 1) .. (x.n - 1) : ~drop(i)
      BY <3>1
    <3>3. i = k - 1 \/ i \in k .. (x.n - 1)
      BY <1>1, <1>4, <3>1
    <3> QED BY <1>4, <3>2, <3>3
  <2> QED BY <2>1, <2>2
<1> HIDE DEF P
<1>6. Kept(x) \in (x.cr + 1) .. x.n
  BY <1>2, <1>5
<1> QED BY <1>1, <1>6

(* A logical line that starts on a kept row ends on one.                   *)
LEMMA EndIs ==
  ASSUME NEW x, InputOK(x), NEW i \in Span(Kept(x))
  PROVE  /\ i \in Nat /\ End(x, i) \in Nat /\ i <= End(x, i) /\ End(x, i) < Kept(x)
         /\ x.p[End(x, i)].wrapped => End(x, i) = Kept(x) - 1
<1> DEFINE K == Kept(x)
           T == {e \in i .. (K - 1) : ~x.p[e].wrapped \/ e = K - 1}
           P(e) == /\ \A j \in i .. (e - 1) : x.p[j].wrapped
                   /\ ~x.p[e].wrapped \/ e = K - 1
<1>1. K \in Nat /\ i \in Nat /\ i < K
  BY KeptIs DEF Span
<1>2. End(x, i) = CHOOSE e \in i .. (K - 1) : P(e)
  BY DEF End
<1> HIDE DEF K
<1>3. T \subseteq Nat /\ K - 1 \in T
  BY <1>1
<1>4. PICK e \in T : \A j \in T : e <= j
  <2> HIDE DEF T
  <2> QED BY <1>3, LeastNat
<1>5. e \in i .. (K - 1) /\ P(e)
  <2>1. ASSUME NEW j \in i .. (e - 1) PROVE x.p[j].wrapped
    <3>1. j \in i .. (K - 1) /\ j \notin T
      BY <1>1, <1>4
    <3> QED BY <3>1
  <2> QED BY <1>4, <2>1
<1>6. End(x, i) \in i .. (K - 1) /\ P(End(x, i))
  <2> HIDE DEF P
  <2> QED BY <1>2, <1>5
<1> QED BY <1>1, <1>6 DEF K

(* The cells of the logical line that starts at i.                         *)
Full(x, i) == (End(x, i) - i + 1) * x.oc

(* Every cell of a logical line is a cell.                                 *)
LEMMA CellIs ==
  ASSUME NEW x, InputOK(x), NEW i \in Span(Kept(x)), NEW o \in Nat, o < Full(x, i)
  PROVE  CellAt(x, i, o) \in Cell
<1>1. End(x, i) \in Nat /\ i \in Nat /\ i <= End(x, i) /\ End(x, i) < x.n /\ x.n \in Nat
  BY EndIs, KeptIs DEF InputOK
<1> DEFINE m == End(x, i) - i + 1
           q == o \div x.oc
<1>2. m \in Nat /\ o < m * x.oc
  BY <1>1 DEF Full
<1>3. x.oc \in Nat \ {0}
  BY DEF InputOK
<1>4. q \in Nat /\ o % x.oc \in Span(x.oc) /\ q < m
  <2> HIDE DEF m
  <2> QED BY <1>2, <1>3, DivMod
<1>5. i + q \in Span(x.n)
  <2> HIDE DEF q
  <2> QED BY <1>1, <1>4 DEF Span
<1>6. x.p[i + q] \in Line(x.oc)
  BY <1>5 DEF InputOK
<1> QED BY <1>4, <1>6, Lines0 DEF CellAt

(* The length of a logical line is at most that of its rows.               *)
LEMMA LengthIs ==
  ASSUME NEW x, InputOK(x), NEW i \in Span(Kept(x))
  PROVE  Length(x, i) \in Nat /\ Length(x, i) <= Full(x, i)
<1>1. /\ End(x, i) \in Nat /\ i \in Nat /\ i <= End(x, i)
      /\ x.oc \in Nat \ {0} /\ x.cr \in Nat /\ x.cc \in Nat /\ x.cc <= x.oc
  BY EndIs DEF InputOK
<1> DEFINE full == Full(x, i)
           text == {o \in Span(full) : CellAt(x, i, o).ch # Blank}
           last == CHOOSE o \in text : \A q \in text : q <= o
           trim == IF text = {} THEN 0 ELSE 1 + last
<1>2. Length(x, i) = IF x.p[End(x, i)].wrapped THEN full
                     ELSE IF HasCursor(x, i) THEN Most(trim, CursorOffset(x, i))
                     ELSE trim
  BY ZenonT(60) DEF Length, Full
<1>3. full \in Nat
  <2>1. End(x, i) - i + 1 \in Nat
    BY <1>1
  <2> QED BY <1>1, <2>1, Monotone DEF Full
<1> HIDE DEF full
<1>4. trim \in Nat /\ trim <= full
  <2>1. CASE text = {}
    BY <1>3, <2>1
  <2>2. CASE text # {}
    <3>1. text \subseteq Nat /\ \A o \in text : o <= full
      BY <1>3 DEF Span
    <3>2. \E o \in text : \A q \in text : q <= o
      <4> HIDE DEF text
      <4> QED BY <1>3, <2>2, <3>1, GreatestNat
    <3>3. last \in text
      <4> HIDE DEF text
      <4> QED BY <3>2
    <3>4. last \in Nat /\ last < full
      <4>1. text \subseteq Span(full)
        OBVIOUS
      <4> HIDE DEF text, last
      <4> QED BY <1>3, <3>3, <4>1 DEF Span
    <3> HIDE DEF last, text
    <3> QED BY <1>3, <2>2, <3>4
  <2> QED BY <2>1, <2>2
<1> HIDE DEF trim
<1>5. ASSUME HasCursor(x, i) PROVE CursorOffset(x, i) \in Nat /\ CursorOffset(x, i) <= full
  <2> DEFINE a == x.cr - i
             b == End(x, i) - i
  <2>1. a \in Nat /\ b \in Nat /\ a <= b
    BY <1>1, <1>5 DEF HasCursor
  <2>2. full = (b + 1) * x.oc /\ CursorOffset(x, i) = a * x.oc + x.cc
    BY DEF full, Full, CursorOffset
  <2> HIDE DEF a, b
  <2>3. (b + 1) * x.oc = b * x.oc + x.oc
    <3>1. \A w \in Nat : (b + 1) * w = b * w + w
      BY <2>1
    <3> QED BY <1>1, <3>1
  <2>4. a * x.oc \in Nat /\ a * x.oc <= b * x.oc /\ b * x.oc \in Nat
    BY <1>1, <2>1, Monotone
  <2> DEFINE u == a * x.oc
             v == b * x.oc
  <2>5. u \in Nat /\ v \in Nat /\ u <= v /\ full = v + x.oc /\ CursorOffset(x, i) = u + x.cc
    BY <2>2, <2>3, <2>4
  <2> HIDE DEF u, v
  <2> QED BY <1>1, <2>5
<1> QED BY <1>2, <1>3, <1>4, <1>5 DEF Most, full

(* A logical line takes at least one row of any width.                     *)
LEMMA HeightIs ==
  ASSUME NEW x, InputOK(x), NEW i \in Span(Kept(x)), NEW nc \in Nat \ {0}
  PROVE  Height(x, i, nc) \in Nat \ {0}
<1> DEFINE len == Length(x, i)
<1>1. len \in Nat /\ Height(x, i, nc) = IF len = 0 THEN 1 ELSE (len + nc - 1) \div nc
  BY LengthIs DEF Height
<1> HIDE DEF len
<1>2. CASE len # 0
  <2> DEFINE o == len + nc - 1
             q == o \div nc
  <2>1. o \in Nat /\ nc <= o
    BY <1>1, <1>2
  <2> HIDE DEF o
  <2>2. q \in Nat /\ \A m \in Nat : q * nc <= o /\ (o < m * nc => q < m)
    BY <2>1, DivMod
  <2>3. q # 0
    <3> SUFFICES ASSUME q = 0 PROVE FALSE
      OBVIOUS
    <3>1. o = nc * (o \div nc) + (o % nc) /\ o % nc \in 0 .. (nc - 1)
      BY <2>1, SMTT(30)
    <3> HIDE DEF q
    <3>2. o = nc * q + (o % nc)
      BY <3>1 DEF q
    <3>3. nc * q = 0
      OBVIOUS
    <3>4. o = o % nc
      BY <2>1, <3>1, <3>2, <3>3
    <3> QED BY <2>1, <3>1, <3>4
  <2> HIDE DEF q
  <2>4. q \in Nat \ {0}
    BY <2>2, <2>3
  <2> QED BY <1>1, <1>2, <2>4 DEF q, o
<1> QED BY <1>1, <1>2

(* Logical lines start on kept rows.                                       *)
LEMMA StartsIn == ASSUME NEW x PROVE Starts(x) \subseteq Span(Kept(x))
  BY DEF Starts

(* The rows above each physical row: a sum along the physical rows.        *)
LEMMA BaseIs ==
  ASSUME NEW x, InputOK(x), NEW nc \in Nat \ {0}
  PROVE  LET B == Base(x, nc)
         IN  /\ B \in [0 .. Kept(x) -> Nat] /\ B[0] = 0
             /\ \A i \in Span(Kept(x)) :
                  B[i + 1] = B[i] + (IF i \in Starts(x) THEN Height(x, i, nc) ELSE 0)
<1> DEFINE K == Kept(x)
           add(i) == IF i - 1 \in Starts(x) THEN Height(x, i - 1, nc) ELSE 0
           g == [y \in Nat \X Nat |-> y[1] + add(y[2])]
           Eq(f) == f = [i \in 0 .. K |-> IF i = 0 THEN 0 ELSE f[i - 1] + add(i)]
           B == CHOOSE f : Eq(f)
<1>1. K \in Nat
  BY KeptIs
<1>2. Base(x, nc) = B
  BY ZenonT(60) DEF Base
<1>3. \A i \in Nat : add(i) \in Nat
  BY HeightIs, StartsIn
<1> HIDE DEF add, K
<1>4. StaysIn(g, Nat) /\ \A y, i \in Nat : g[<<y, i>>] = y + add(i)
  BY <1>3 DEF StaysIn
<1> HIDE DEF g
<1>5. PICK f \in [0 .. K -> Nat] : Iterate(f, 0, g, K)
  BY <1>1, <1>4, Iterates
<1>6. Eq(f)
  <2>1. ASSUME NEW i \in 0 .. K PROVE f[i] = IF i = 0 THEN 0 ELSE f[i - 1] + add(i)
    <3>1. CASE i = 0
      BY <1>5, <3>1 DEF Iterate
    <3>2. CASE i # 0
      <4>1. i \in 1 .. K /\ i \in Nat /\ i - 1 \in 0 .. K
        BY <1>1, <3>2
      <4>2. f[i] = g[<<f[i - 1], i>>] /\ f[i - 1] \in Nat
        BY <1>5, <4>1 DEF Iterate
      <4> QED BY <1>4, <3>2, <4>1, <4>2
    <3> QED BY <3>1, <3>2
  <2> QED BY <1>5, <2>1
<1>7. Eq(B)
  <2> HIDE DEF Eq
  <2> QED BY <1>6
<1> HIDE DEF B
<1>8. B[0] = 0 /\ \A i \in Span(K) : B[i + 1] = B[i] + add(i + 1)
  <2>1. 0 \in 0 .. K /\ \A i \in Span(K) : i + 1 \in 0 .. K /\ i + 1 # 0 /\ (i + 1) - 1 = i
    BY <1>1 DEF Span
  <2> QED BY <1>7, <2>1
<1>9. ASSUME NEW j \in Nat PROVE j <= K => B[j] \in Nat
  <2> DEFINE S == {k \in Nat : k <= K => B[k] \in Nat}
  <2>1. 0 \in S
    BY <1>8
  <2>2. ASSUME NEW k \in Nat, k \in S PROVE k + 1 \in S
    <3> SUFFICES ASSUME k + 1 <= K PROVE B[k + 1] \in Nat
      OBVIOUS
    <3>1. k <= K /\ k \in Span(K) /\ k + 1 \in Nat
      BY <1>1 DEF Span
    <3>2. B[k] \in Nat /\ add(k + 1) \in Nat
      BY <1>3, <2>2, <3>1
    <3> QED BY <1>8, <3>1, <3>2
  <2> HIDE DEF S
  <2>3. j \in S
    BY <2>1, <2>2, SetInduction
  <2> QED BY <2>3 DEF S
<1>10. B \in [0 .. K -> Nat]
  <2>1. \A i \in 0 .. K : i \in Nat /\ i <= K
    BY <1>1
  <2>2. B = [i \in 0 .. K |-> B[i]]
    BY <1>7
  <2> QED BY <1>9, <2>1, <2>2
<1>11. ASSUME NEW i \in Span(K)
       PROVE  add(i + 1) = IF i \in Starts(x) THEN Height(x, i, nc) ELSE 0
  <2>1. (i + 1) - 1 = i
    BY <1>1 DEF Span
  <2> QED BY <2>1 DEF add
<1> QED BY <1>2, <1>8, <1>10, <1>11 DEF K

(* Every row of the result is a chunk of one logical line.                 *)
LEMMA RowsCovered ==
  ASSUME NEW x, InputOK(x), NEW nc \in Nat \ {0},
         NEW k \in Nat, k < Base(x, nc)[Kept(x)]
  PROVE  \E i \in Starts(x) : LET B == Base(x, nc)
                              IN  B[i] <= k /\ k < B[i] + Height(x, i, nc)
<1> DEFINE B == Base(x, nc)
           K == Kept(x)
           S == {j \in Nat : j <= K => (k < B[j] => \E i \in Starts(x) :
                                            B[i] <= k /\ k < B[i] + Height(x, i, nc))}
<1>1. /\ K \in Nat /\ B \in [0 .. K -> Nat] /\ B[0] = 0
      /\ \A i \in Span(K) : B[i + 1] = B[i] + (IF i \in Starts(x) THEN Height(x, i, nc) ELSE 0)
  BY BaseIs, KeptIs
<1> HIDE DEF B, K
<1>2. 0 \in S
  BY <1>1
<1>3. ASSUME NEW j \in Nat, j \in S PROVE j + 1 \in S
  <2> SUFFICES ASSUME j + 1 <= K, k < B[j + 1]
               PROVE  \E i \in Starts(x) : B[i] <= k /\ k < B[i] + Height(x, i, nc)
    OBVIOUS
  <2>1. j <= K /\ j \in Span(K) /\ j \in 0 .. K
    BY <1>1 DEF Span
  <2>2. CASE k < B[j]
    BY <1>3, <2>1, <2>2
  <2>3. CASE ~(k < B[j])
    <3>1. B[j] \in Nat /\ B[j + 1] = B[j] + (IF j \in Starts(x) THEN Height(x, j, nc) ELSE 0)
      BY <1>1, <2>1
    <3>2. B[j] <= k
      BY <2>3, <3>1
    <3>3. j \in Starts(x)
      <4> SUFFICES ASSUME j \notin Starts(x) PROVE FALSE
        OBVIOUS
      <4>1. B[j + 1] = B[j]
        BY <3>1
      <4> QED BY <2>3, <4>1
    <3> QED BY <3>1, <3>2, <3>3
  <2> QED BY <2>2, <2>3
<1> HIDE DEF S
<1>4. K \in S
  BY <1>1, <1>2, <1>3, SetInduction
<1> QED BY <1>1, <1>4 DEF S, K, B

(* The cursor is in one of the logical lines.                              *)
LEMMA CursorLine ==
  ASSUME NEW x, InputOK(x)
  PROVE  \E i \in Starts(x) : HasCursor(x, i)
<1> DEFINE K == Kept(x)
           T == {i \in Starts(x) : i <= x.cr}
<1>1. K \in Nat /\ x.cr \in Nat /\ x.cr < K
  BY KeptIs DEF InputOK
<1>2. T \subseteq Nat /\ 0 \in T /\ \A i \in T : i <= x.cr
  BY <1>1 DEF Starts, Span
<1>3. PICK c \in T : \A i \in T : i <= c
  <2> HIDE DEF T
  <2> QED BY <1>1, <1>2, GreatestNat
<1>4. c \in Starts(x) /\ c \in Span(K) /\ c <= x.cr
  BY <1>3, StartsIn
<1>5. /\ c \in Nat /\ End(x, c) \in Nat /\ c <= End(x, c) /\ End(x, c) < K
      /\ x.p[End(x, c)].wrapped => End(x, c) = K - 1
  BY <1>4, EndIs
<1>6. x.cr <= End(x, c)
  <2> SUFFICES ASSUME End(x, c) < x.cr PROVE FALSE
    BY <1>1, <1>5
  <2> DEFINE j == End(x, c) + 1
  <2>1. j \in Span(K) /\ j - 1 = End(x, c) /\ j <= x.cr /\ j > c /\ j \in Nat
    BY <1>1, <1>5 DEF Span
  <2>2. ~x.p[j - 1].wrapped
    BY <1>1, <1>5, <2>1
  <2>3. j \in T
    BY <2>1, <2>2 DEF Starts
  <2> HIDE DEF j, T
  <2> QED BY <1>3, <1>5, <2>1, <2>3
<1> QED BY <1>4, <1>6 DEF HasCursor

(* A chunk of a logical line is a line of the new width.                   *)
LEMMA CutIs ==
  ASSUME NEW x, InputOK(x), NEW i \in Span(Kept(x)), NEW nc \in Nat \ {0}, NEW q \in Nat
  PROVE  CutRow(x, nc, i, q) \in Line(nc)
<1> DEFINE cells == [c \in Span(nc) |-> IF q * nc + c < Length(x, i)
                        THEN Plain(CellAt(x, i, q * nc + c).ch) ELSE BlankCell]
           wrapped == (q + 1) * nc < Length(x, i)
           rows == {m \in i .. End(x, i) : Chunk(x, nc, i, (m - i) * x.oc) = q}
           tag == UNION {x.p[j].tag : j \in rows}
<1>1. CutRow(x, nc, i, q) = [cells |-> cells, wrapped |-> wrapped, tag |-> tag]
  BY DEF CutRow
<1>2. ASSUME NEW c \in Span(nc), q * nc + c < Length(x, i)
      PROVE  CellAt(x, i, q * nc + c).ch \in Glyphs \cup {Blank}
  <2> DEFINE o == q * nc + c
  <2>1. o \in Nat
    <3>1. q * nc \in Nat /\ c \in Nat
      BY Monotone DEF Span
    <3> QED BY <3>1
  <2>2. o < Length(x, i)
    BY <1>2
  <2> HIDE DEF o
  <2>3. End(x, i) - i + 1 \in Nat /\ x.oc \in Nat
    BY EndIs DEF InputOK
  <2>4. Full(x, i) \in Nat
    BY <2>3, Monotone DEF Full
  <2>5. o < Full(x, i)
    BY <2>1, <2>2, <2>4, LengthIs
  <2>6. CellAt(x, i, o) \in Cell
    BY <2>1, <2>5, CellIs
  <2> QED BY <2>6 DEF Cell, o
<1>3. cells \in [Span(nc) -> Cell]
  BY <1>2, Blanks
<1>4. wrapped \in BOOLEAN
  OBVIOUS
<1>5. tag \subseteq Anchors
  <2> SUFFICES ASSUME NEW j \in rows PROVE x.p[j].tag \subseteq Anchors
    OBVIOUS
  <2>1. j \in i .. End(x, i)
    OBVIOUS
  <2>2. j \in Span(x.n)
    <3>1. /\ i \in Nat /\ End(x, i) \in Nat /\ End(x, i) < Kept(x)
          /\ Kept(x) \in Nat /\ Kept(x) <= x.n /\ x.n \in Nat
      BY EndIs, KeptIs DEF InputOK
    <3> HIDE DEF rows
    <3> QED BY <2>1, <3>1 DEF Span
  <2> QED BY <2>2 DEF InputOK, Line
<1> HIDE DEF cells, wrapped, tag
<1> QED BY <1>1, <1>3, <1>4, <1>5 DEF Line

(* A layout: rows of the new width, a grid within them, and a cursor on it.*)
LayoutOK(l, nr, nc) ==
  /\ l.total \in Nat /\ l.start \in Nat /\ l.start <= l.total
  /\ l.rows \in [Span(l.total) -> Line(nc)]
  /\ l.row \in Span(nr) /\ l.col \in Span(nc)

(* What is cut off for the grid and the cursor of the line that holds it,  *)
(* for any such line.                                                      *)
LEMMA WindowIs ==
  ASSUME NEW x, InputOK(x), NEW nr \in Nat \ {0}, NEW nc \in Nat \ {0},
         NEW ci \in Starts(x), HasCursor(x, ci)
  PROVE  LayoutOK(Window(x, nr, nc, Base(x, nc), ci), nr, nc)
<1> DEFINE base == Base(x, nc)
           total == base[Kept(x)]
           P(i, k) == base[i] <= k /\ k < base[i] + Height(x, i, nc)
           lineOf(k) == CHOOSE i \in Starts(x) : P(i, k)
           row(k) == CutRow(x, nc, lineOf(k), k - base[lineOf(k)])
           rows == [k \in Span(total) |-> row(k)]
           off == CursorOffset(x, ci)
           q0 == Chunk(x, nc, ci, off)
           cr == base[ci] + q0
           gs == Least(Minus(total, nr), cr)
           r == Least(cr - gs, nr - 1)
           c == Least(off - q0 * nc, nc - 1)
<1>1. Window(x, nr, nc, base, ci) =
        [rows |-> rows, total |-> total, start |-> gs, row |-> r, col |-> c]
  BY ZenonT(60) DEF Window
<1>2. /\ Kept(x) \in Nat /\ base \in [0 .. Kept(x) -> Nat]
      /\ ci \in Span(Kept(x)) /\ Starts(x) \subseteq Span(Kept(x))
  BY BaseIs, KeptIs, StartsIn
<1>3. total \in Nat /\ \A i \in Span(Kept(x)) : base[i] \in Nat
  BY <1>2 DEF Span
<1> HIDE DEF base
<1>4. rows \in [Span(total) -> Line(nc)]
  <2>1. ASSUME NEW k \in Span(total) PROVE row(k) \in Line(nc)
    <3>1. k \in Nat /\ k < total
      BY <1>3 DEF Span
    <3>2. \E i \in Starts(x) : P(i, k)
      BY <3>1, RowsCovered DEF base
    <3> DEFINE i == lineOf(k)
    <3>3. i \in Starts(x) /\ P(i, k)
      <4> HIDE DEF P
      <4> QED BY <3>2
    <3> HIDE DEF lineOf
    <3>4. i \in Span(Kept(x)) /\ k - base[i] \in Nat
      <4>1. i \in Span(Kept(x))
        BY <1>2, <3>3
      <4>2. base[i] \in Nat /\ base[i] <= k
        BY <1>3, <3>3, <4>1
      <4> HIDE DEF i, P
      <4> QED BY <3>1, <4>1, <4>2
    <3> QED BY <3>4, CutIs
  <2> HIDE DEF row
  <2> QED BY <2>1
<1>5. off \in Nat
  <2>1. x.cr - ci \in Nat /\ x.oc \in Nat /\ x.cc \in Nat
    BY <1>2 DEF HasCursor, InputOK, Span
  <2>2. (x.cr - ci) * x.oc \in Nat
    BY <2>1, Monotone
  <2> QED BY <2>1, <2>2 DEF CursorOffset
<1>6. q0 \in Nat /\ q0 * nc \in Nat /\ q0 * nc <= off
  <2> DEFINE d == off \div nc
             h == Height(x, ci, nc)
  <2>1. d \in Nat /\ d * nc <= off /\ h \in Nat \ {0} /\ q0 = Least(d, h - 1)
    BY <1>2, <1>5, DivMod, HeightIs DEF Chunk
  <2> HIDE DEF d, h, q0, off
  <2>2. q0 \in Nat /\ q0 <= d
    BY <2>1 DEF Least
  <2>3. q0 * nc \in Nat /\ q0 * nc <= d * nc
    BY <2>1, <2>2, Monotone
  <2>4. d * nc \in Nat
    BY <2>1, Monotone
  <2> DEFINE u == q0 * nc
             v == d * nc
  <2>5. u \in Nat /\ v \in Nat /\ u <= v /\ v <= off
    BY <2>1, <2>3, <2>4
  <2> HIDE DEF u, v
  <2>6. u <= off
    BY <1>5, <2>5
  <2> QED BY <2>2, <2>3, <2>6 DEF u
<1>7. cr \in Nat
  BY <1>2, <1>3, <1>6
<1> HIDE DEF cr, q0, off, rows, total
<1>8. gs \in Nat /\ gs <= total /\ gs <= cr
  BY <1>3, <1>7 DEF Least, Minus
<1> HIDE DEF gs
<1>9. r \in Span(nr)
  BY <1>7, <1>8 DEF Least, Span
<1>10. c \in Span(nc)
  <2> DEFINE u == q0 * nc
  <2>1. u \in Nat /\ u <= off
    BY <1>6
  <2> HIDE DEF u
  <2>2. Least(off - u, nc - 1) \in Span(nc)
    BY <1>5, <2>1 DEF Least, Span
  <2> QED BY <2>2 DEF u
<1> HIDE DEF r, c
<1>11. LayoutOK([rows |-> rows, total |-> total, start |-> gs, row |-> r, col |-> c], nr, nc)
  BY <1>3, <1>4, <1>8, <1>9, <1>10 DEF LayoutOK
<1> QED BY <1>1, <1>11 DEF base

(* The layout of reflow_resize, for every content, cursor and new size:    *)
(* every row above or on the grid has the new width, the grid starts       *)
(* within the rows, and the cursor is on the grid.                         *)
THEOREM LayoutIs ==
  ASSUME NEW x, InputOK(x), NEW nr \in Nat \ {0}, NEW nc \in Nat \ {0}
  PROVE  LayoutOK(Layout(x, nr, nc), nr, nc)
<1> DEFINE ci == CHOOSE i \in Starts(x) : HasCursor(x, i)
<1>1. ci \in Starts(x) /\ HasCursor(x, ci)
  BY CursorLine
<1> HIDE DEF ci
<1>2. Layout(x, nr, nc) = Window(x, nr, nc, Base(x, nc), ci)
  BY DEF Layout, ci
<1> QED BY <1>1, <1>2, WindowIs

-----------------------------------------------------------------------------
(* What an operation does to the screen and its text *)

Fields == {"grid", "row", "col", "top", "bot", "saved", "savedCursor", "hist", "cap",
           "view", "marks", "tabs", "last", "autowrap", "insert", "origin", "reverse"}
AnyLine == UNION {Line(w) : w \in Nat \ {0}}
Mark == [line : Nat, id : Anchors]
Place == [row : Nat, col : Nat]

Cols2(s) == Most(s.grid.cols, 2)
OnGrid(s) == s.row \in Span(s.grid.rows) /\ s.col \in Nat /\ s.col <= Cols2(s)
Margins(s) == /\ s.top \in Nat /\ s.bot \in Nat
              /\ s.top <= s.bot /\ s.bot < s.grid.rows
SavedOK(s) == OnAlt(s) => /\ s.saved = <<s.saved[1]>>
                          /\ Same(s.grid, s.saved[1].grid)
                          /\ s.saved[1].row \in Nat /\ s.saved[1].col \in Nat
ListsOK(s) == /\ s.hist \in Seq(AnyLine)
              /\ s.marks \in Seq(Mark) /\ Len(s.marks) <= MaxMarks
RestOK(s) == /\ s.cap \in Nat /\ s.view \in Nat
             /\ DOMAIN s.tabs = Span(s.grid.cols)
             /\ s.savedCursor # <<>> => s.savedCursor[1] \in Place
             /\ s.last # <<>> => s.last[1] \in Glyphs

Good(s) == /\ DOMAIN s = Fields /\ GridOK(s.grid)
           /\ OnGrid(s) /\ Margins(s) /\ SavedOK(s) /\ ListsOK(s) /\ RestOK(s)

(* What almost every operation keeps.                                      *)
Looks(s, t) == /\ IsDamaged(s.grid) => IsDamaged(t.grid)
               /\ IsDamaged(t.grid) \/ (t.hist = s.hist /\ SameChars(s.grid, t.grid))
Frame(s, t) == /\ t.grid.rows = s.grid.rows /\ t.grid.cols = s.grid.cols
               /\ t.saved = s.saved /\ t.cap = s.cap /\ t.view = s.view
               /\ s.marks = <<>> => t.marks = <<>>
Hist(s, t) == /\ OnAlt(s) => t.hist = s.hist
              /\ Len(s.hist) <= s.cap => Len(s.hist) <= Len(t.hist) /\ Len(t.hist) <= s.cap
Keeps(s, t) == Good(t) /\ Frame(s, t) /\ Hist(s, t) /\ Looks(s, t)

(* Where the text is: the anchors on the absolute line i, and how a step   *)
(* from s to t that loses e lines at the top moves them and the marks.     *)
TagAt(s, i) == IF i < Len(s.hist) THEN s.hist[i + 1].tag
               ELSE s.grid.line[i - Len(s.hist)].tag
Total(s) == Len(s.hist) + s.grid.rows
LinesMove(s, t, e) ==
  /\ \A i \in Span(Total(s)) : i >= e => /\ i - e \in Span(Total(t))
                                         /\ TagAt(t, i - e) = TagAt(s, i)
  /\ \A j \in Span(Total(t)) : j + e \notin Span(Total(s)) => TagAt(t, j) = {}
MarksMove(q, r, e) ==
  /\ \A i \in DOMAIN r : \E k \in DOMAIN q : q[k].line = r[i].line + e /\ q[k].id = r[i].id
  /\ \A k \in DOMAIN q : q[k].line >= e =>
       \E i \in DOMAIN r : q[k].line = r[i].line + e /\ q[k].id = r[i].id
Shift(s, t, e) == /\ LinesMove(s, t, e) /\ MarksMove(s.marks, t.marks, e)
                  /\ e > 0 => Len(t.hist) = t.cap
Carries(s, t) ==
  /\ RegionIsFull(s) => RegionIsFull(t)
  /\ OnAlt(s) => t.hist = s.hist /\ t.marks = s.marks
  /\ ~OnAlt(s) /\ RegionIsFull(s) /\ s.cap # 0 => \E e \in Nat : Shift(s, t, e)

(* What the operations keep that do not move lines against each other.     *)
Stays(s, t) == Keeps(s, t) /\ Carries(s, t)

(* What two operations keep, their composition keeps.                      *)
LEMMA KeepsTrans ==
  ASSUME NEW s, NEW t, NEW u, Keeps(s, t), Keeps(t, u)
  PROVE  Keeps(s, u)
<1>1. Good(u) /\ Frame(s, u)
  BY DEF Keeps, Frame
<1>2. Hist(s, u)
  BY DEF Keeps, Frame, Hist, OnAlt, Good, ListsOK, RestOK
<1>3. Looks(s, u)
  BY SMTT(30) DEF Keeps, Looks, SameChars, Frame
<1> QED BY <1>1, <1>2, <1>3 DEF Keeps

(* The parts of a mark of a list of marks.                                 *)
LEMMA MarkParts ==
  ASSUME NEW q \in Seq(Mark), NEW i \in DOMAIN q
  PROVE  q[i].line \in Nat /\ q[i].id \in Anchors /\ i \in Nat /\ 1 <= i /\ i <= Len(q)
<1>1. q[i] \in Mark /\ DOMAIN q = 1 .. Len(q) /\ Len(q) \in Nat
  OBVIOUS
<1> QED BY <1>1 DEF Mark

(* The marks move by the sum of two moves.                                 *)
LEMMA MarksMoveTrans ==
  ASSUME NEW p \in Seq(Mark), NEW q \in Seq(Mark), NEW r \in Seq(Mark),
         NEW e \in Nat, NEW d \in Nat, MarksMove(p, q, e), MarksMove(q, r, d)
  PROVE  MarksMove(p, r, e + d)
<1>1. /\ \A i \in DOMAIN p : p[i].line \in Nat
      /\ \A i \in DOMAIN q : q[i].line \in Nat
      /\ \A i \in DOMAIN r : r[i].line \in Nat
  BY MarkParts
<1>2. ASSUME NEW i \in DOMAIN r
      PROVE  \E k \in DOMAIN p : p[k].line = r[i].line + (e + d) /\ p[k].id = r[i].id
  <2>1. PICK j \in DOMAIN q : q[j].line = r[i].line + d /\ q[j].id = r[i].id
    BY DEF MarksMove
  <2>2. PICK k \in DOMAIN p : p[k].line = q[j].line + e /\ p[k].id = q[j].id
    BY DEF MarksMove
  <2> QED BY <1>1, <2>1, <2>2
<1>3. ASSUME NEW k \in DOMAIN p, p[k].line >= e + d
      PROVE  \E i \in DOMAIN r : p[k].line = r[i].line + (e + d) /\ p[k].id = r[i].id
  <2>1. p[k].line >= e
    BY <1>1, <1>3
  <2>2. PICK j \in DOMAIN q : p[k].line = q[j].line + e /\ p[k].id = q[j].id
    BY <2>1 DEF MarksMove
  <2>3. q[j].line >= d
    BY <1>1, <1>3, <2>2
  <2>4. PICK i \in DOMAIN r : q[j].line = r[i].line + d /\ q[j].id = r[i].id
    BY <2>3 DEF MarksMove
  <2> QED BY <1>1, <2>2, <2>4
<1> QED BY <1>2, <1>3 DEF MarksMove

(* And so do the lines.                                                    *)
LEMMA LinesTrans ==
  ASSUME NEW s, NEW t, NEW u, Total(s) \in Nat, Total(t) \in Nat, Total(u) \in Nat,
         NEW e \in Nat, NEW d \in Nat, LinesMove(s, t, e), LinesMove(t, u, d)
  PROVE  LinesMove(s, u, e + d)
<1>1. ASSUME NEW i \in Span(Total(s)), i >= e + d
      PROVE  i - (e + d) \in Span(Total(u)) /\ TagAt(u, i - (e + d)) = TagAt(s, i)
  <2>1. i \in Nat /\ i >= e /\ i - e \in Nat /\ i - e >= d /\ i - (e + d) = (i - e) - d
    BY <1>1 DEF Span
  <2>2. i - e \in Span(Total(t)) /\ TagAt(t, i - e) = TagAt(s, i)
    BY <2>1 DEF LinesMove
  <2>3. (i - e) - d \in Span(Total(u)) /\ TagAt(u, (i - e) - d) = TagAt(t, i - e)
    BY <2>1, <2>2 DEF LinesMove
  <2> QED BY <2>1, <2>2, <2>3
<1>2. ASSUME NEW j \in Span(Total(u)), j + (e + d) \notin Span(Total(s))
      PROVE  TagAt(u, j) = {}
  <2>1. j \in Nat /\ j + d \in Nat /\ (j + d) + e = j + (e + d) /\ j + d >= d /\ (j + d) - d = j
    BY DEF Span
  <2>2. CASE j + d \in Span(Total(t))
    <3>1. TagAt(u, j) = TagAt(t, j + d)
      BY <2>1, <2>2 DEF LinesMove
    <3>2. TagAt(t, j + d) = {}
      BY <1>2, <2>1, <2>2 DEF LinesMove
    <3> QED BY <3>1, <3>2
  <2>3. CASE j + d \notin Span(Total(t))
    BY <2>3 DEF LinesMove
  <2> QED BY <2>2, <2>3
<1> QED BY <1>1, <1>2 DEF LinesMove

(* A screen has a number of lines.                                         *)
LEMMA TotalNat == ASSUME NEW s, Good(s) PROVE Total(s) \in Nat /\ Len(s.hist) \in Nat
  BY DEF Good, GridOK, ListsOK, Total

(* Operations that carry the text may be composed.                         *)
LEMMA StaysTrans ==
  ASSUME NEW s, NEW t, NEW u, Good(s), Stays(s, t), Stays(t, u)
  PROVE  Stays(s, u)
<1>1. Keeps(s, u) /\ Good(t) /\ Good(u) /\ Frame(s, t) /\ Frame(t, u)
  BY KeepsTrans DEF Stays, Keeps
<1>2. /\ RegionIsFull(s) => RegionIsFull(u)
      /\ OnAlt(s) => u.hist = s.hist /\ u.marks = s.marks
  BY <1>1 DEF Stays, Carries, Frame, OnAlt
<1>3. ASSUME ~OnAlt(s), RegionIsFull(s), s.cap # 0
      PROVE  \E e \in Nat : Shift(s, u, e)
  <2>1. PICK e \in Nat : Shift(s, t, e)
    BY <1>3 DEF Stays, Carries
  <2>2. PICK d \in Nat : Shift(t, u, d)
    BY <1>1, <1>3 DEF Stays, Carries, Frame, OnAlt
  <2>3. LinesMove(s, u, e + d)
    BY <1>1, <2>1, <2>2, LinesTrans, TotalNat DEF Shift
  <2>4. MarksMove(s.marks, u.marks, e + d)
    BY <1>1, <2>1, <2>2, MarksMoveTrans DEF Shift, Good, ListsOK
  <2>5. e + d > 0 => Len(u.hist) = u.cap
    <3>1. e > 0 => Len(t.hist) = t.cap /\ t.cap = s.cap /\ u.cap = s.cap
      BY <1>1, <2>1 DEF Shift, Frame
    <3>2. Len(t.hist) = t.cap => Len(t.hist) <= Len(u.hist) /\ Len(u.hist) <= t.cap
      BY <1>1, TotalNat DEF Stays, Keeps, Hist
    <3>3. Len(t.hist) \in Nat /\ Len(u.hist) \in Nat
      BY <1>1, TotalNat
    <3> QED BY <2>2, <3>1, <3>2, <3>3 DEF Shift
  <2>6. e + d \in Nat
    OBVIOUS
  <2> QED BY <2>3, <2>4, <2>5, <2>6 DEF Shift
<1> QED BY <1>1, <1>2, <1>3 DEF Stays, Carries

(* The lines, the marks and their tags stay where they are.                *)
LEMMA Still ==
  ASSUME NEW s, Good(s), NEW t, t.hist = s.hist, t.marks = s.marks,
         t.grid.rows = s.grid.rows, SameTags(s.grid, t.grid),
         RegionIsFull(s) => RegionIsFull(t)
  PROVE  Carries(s, t)
<1>1. Total(s) \in Nat /\ Total(t) = Total(s) /\ Len(s.hist) \in Nat /\ s.grid.rows \in Nat
  BY TotalNat DEF Total, Good, GridOK
<1>2. ASSUME NEW i \in Span(Total(s)) PROVE TagAt(t, i) = TagAt(s, i)
  <2>1. i < Len(s.hist) \/ i - Len(s.hist) \in Span(s.grid.rows)
    BY <1>1 DEF Span, Total
  <2> QED BY <2>1 DEF TagAt, SameTags
<1>3. LinesMove(s, t, 0)
  <2>1. \A i \in Span(Total(s)) : i \in Nat /\ i - 0 = i /\ i + 0 = i
    BY <1>1 DEF Span
  <2> QED BY <1>1, <1>2, <2>1 DEF LinesMove
<1>4. MarksMove(s.marks, t.marks, 0)
  <2>1. \A k \in DOMAIN s.marks : s.marks[k].line \in Nat /\ s.marks[k].line + 0 = s.marks[k].line
    BY MarkParts DEF Good, ListsOK
  <2> QED BY <2>1 DEF MarksMove
<1>5. Shift(s, t, 0)
  BY <1>3, <1>4 DEF Shift
<1> QED BY <1>5 DEF Carries

(* Doing nothing carries the text.                                         *)
LEMMA StaysSame == ASSUME NEW s, Good(s) PROVE Stays(s, s)
<1>1. Keeps(s, s)
  BY DEF Keeps, Frame, Hist, Looks, SameChars
<1>2. Carries(s, s)
  BY Still DEF SameTags
<1> QED BY <1>1, <1>2 DEF Stays

(* The ranges of the numbers of a well formed screen.                      *)
LEMMA GoodGrid ==
  ASSUME NEW s, Good(s)
  PROVE  /\ GridOK(s.grid) /\ s.grid.rows \in Nat \ {0} /\ s.grid.cols \in Nat \ {0}
         /\ s.row \in Nat /\ s.row < s.grid.rows /\ s.col \in Nat /\ s.col <= Cols2(s)
         /\ Cols2(s) \in Nat /\ s.grid.cols <= Cols2(s) /\ 2 <= Cols2(s)
         /\ s.top \in Nat /\ s.bot \in Nat /\ s.top <= s.bot /\ s.bot < s.grid.rows
         /\ LastRow(s) \in Nat /\ LastRow(s) = s.grid.rows - 1
         /\ LastCol(s) \in Nat /\ LastCol(s) = s.grid.cols - 1
  BY DEF Good, GridOK, OnGrid, Margins, Span, LastRow, LastCol, Cols2, Most

(* A screen t that differs from s in the fields F only.                    *)
Apart(s, t, F) == DOMAIN t = Fields /\ \A f \in Fields \ F : t[f] = s[f]

(* An operation that leaves alone the scrollback, the marks, the saved     *)
(* screen and the margins, and paints what it changes; if no anchor moves, *)
(* it carries the text.                                                    *)
LEMMA KeepsFrom ==
  ASSUME NEW s, Good(s), NEW t,
         Apart(s, t, {"grid", "row", "col", "tabs", "last", "savedCursor",
                      "autowrap", "insert", "origin", "reverse"}),
         Rolled(s.grid, t.grid), OnGrid(t), RestOK(t)
  PROVE  Keeps(s, t) /\ (SameTags(s.grid, t.grid) => Stays(s, t))
<1>1. /\ t.top = s.top /\ t.bot = s.bot /\ t.saved = s.saved /\ t.hist = s.hist
      /\ t.cap = s.cap /\ t.view = s.view /\ t.marks = s.marks /\ DOMAIN t = Fields
  BY DEF Apart, Fields
<1>2. /\ t.grid.rows = s.grid.rows /\ t.grid.cols = s.grid.cols /\ GridOK(t.grid)
      /\ GridOK(s.grid)
  BY DEF Rolled, Same, Good
<1>3. Margins(t) /\ ListsOK(t)
  BY <1>1, <1>2 DEF Good, Margins, ListsOK
<1>4. SavedOK(t)
  BY <1>1, <1>2 DEF Good, SavedOK, OnAlt, Same
<1>5. Good(t)
  BY <1>1, <1>2, <1>3, <1>4 DEF Good
<1>6. Frame(s, t) /\ Hist(s, t)
  BY <1>1, <1>2 DEF Frame, Hist
<1>7. Looks(s, t)
  BY <1>1 DEF Looks, Rolled, Painted
<1>8. SameTags(s.grid, t.grid) => Carries(s, t)
  BY <1>1, <1>2, Still DEF RegionIsFull
<1> QED BY <1>5, <1>6, <1>7, <1>8 DEF Keeps, Stays

(* The same for the cursor and the grid put into a screen.                 *)
LEMMA PutKeeps ==
  ASSUME NEW s, Good(s), NEW r \in Span(s.grid.rows), NEW c \in Nat, c <= Cols2(s),
         NEW g, Rolled(s.grid, g)
  PROVE  /\ Stays(s, [s EXCEPT !.row = r])
         /\ Stays(s, [s EXCEPT !.col = c])
         /\ Stays(s, [s EXCEPT !.row = r, !.col = c])
         /\ Keeps(s, [s EXCEPT !.grid = g])
         /\ Keeps(s, [s EXCEPT !.grid = g, !.col = c])
         /\ Keeps(s, [s EXCEPT !.grid = g, !.row = r, !.col = c])
         /\ SameTags(s.grid, g) => /\ Stays(s, [s EXCEPT !.grid = g])
                                   /\ Stays(s, [s EXCEPT !.grid = g, !.col = c])
                                   /\ Stays(s, [s EXCEPT !.grid = g, !.row = r, !.col = c])
<1>1. ASSUME NEW t, DOMAIN t = Fields, t.grid \in {s.grid, g}, t.row \in {s.row, r},
             t.col \in {s.col, c}, \A f \in Fields \ {"grid", "row", "col"} : t[f] = s[f]
      PROVE  Keeps(s, t) /\ (SameTags(s.grid, t.grid) => Stays(s, t))
  <2>1. Apart(s, t, {"grid", "row", "col", "tabs", "last", "savedCursor",
                      "autowrap", "insert", "origin", "reverse"})
    BY <1>1 DEF Apart
  <2>2. Rolled(s.grid, t.grid)
    BY <1>1 DEF Good, Rolled, Same, Painted, SameChars
  <2>3. OnGrid(t)
    BY <1>1, <2>2 DEF Good, OnGrid, Rolled, Same, Cols2
  <2>4. t.cap = s.cap /\ t.view = s.view /\ t.tabs = s.tabs /\ t.savedCursor = s.savedCursor
        /\ t.last = s.last
    BY <1>1 DEF Fields
  <2>5. RestOK(t)
    BY <2>2, <2>4 DEF Good, RestOK, Rolled, Same
  <2> QED BY <2>1, <2>2, <2>3, <2>5, KeepsFrom
<1>2. DOMAIN s = Fields /\ {"grid", "row", "col"} \subseteq Fields
  BY DEF Good, Fields
<1>3. Stays(s, [s EXCEPT !.row = r])
  <2> DEFINE t == [s EXCEPT !.row = r]
  <2>1. DOMAIN t = Fields /\ t.row = r /\ \A f \in Fields \ {"row"} : t[f] = s[f]
    BY <1>2
  <2> HIDE DEF t
  <2>2. t.grid = s.grid /\ t.col = s.col
    BY <1>2, <2>1
  <2> QED BY <1>1, <2>1, <2>2 DEF t, SameTags
<1>4. Stays(s, [s EXCEPT !.col = c])
  <2> DEFINE t == [s EXCEPT !.col = c]
  <2>1. DOMAIN t = Fields /\ t.col = c /\ \A f \in Fields \ {"col"} : t[f] = s[f]
    BY <1>2
  <2> HIDE DEF t
  <2>2. t.grid = s.grid /\ t.row = s.row
    BY <1>2, <2>1
  <2> QED BY <1>1, <2>1, <2>2 DEF t, SameTags
<1>5. Stays(s, [s EXCEPT !.row = r, !.col = c])
  <2> DEFINE t == [s EXCEPT !.row = r, !.col = c]
  <2>1. DOMAIN t = Fields /\ t.row = r /\ t.col = c /\ \A f \in Fields \ {"row", "col"} : t[f] = s[f]
    BY <1>2
  <2> HIDE DEF t
  <2>2. t.grid = s.grid
    BY <1>2, <2>1
  <2> QED BY <1>1, <2>1, <2>2 DEF t, SameTags
<1>6. /\ Keeps(s, [s EXCEPT !.grid = g])
      /\ SameTags(s.grid, g) => Stays(s, [s EXCEPT !.grid = g])
  <2> DEFINE t == [s EXCEPT !.grid = g]
  <2>1. DOMAIN t = Fields /\ t.grid = g /\ \A f \in Fields \ {"grid"} : t[f] = s[f]
    BY <1>2
  <2> HIDE DEF t
  <2>2. t.row = s.row /\ t.col = s.col
    BY <1>2, <2>1
  <2> QED BY <1>1, <2>1, <2>2 DEF t
<1>7. /\ Keeps(s, [s EXCEPT !.grid = g, !.col = c])
      /\ SameTags(s.grid, g) => Stays(s, [s EXCEPT !.grid = g, !.col = c])
  <2> DEFINE t == [s EXCEPT !.grid = g, !.col = c]
  <2>1. DOMAIN t = Fields /\ t.grid = g /\ t.col = c /\ \A f \in Fields \ {"grid", "col"} : t[f] = s[f]
    BY <1>2
  <2> HIDE DEF t
  <2>2. t.row = s.row
    BY <1>2, <2>1
  <2> QED BY <1>1, <2>1, <2>2 DEF t
<1>8. /\ Keeps(s, [s EXCEPT !.grid = g, !.row = r, !.col = c])
      /\ SameTags(s.grid, g) => Stays(s, [s EXCEPT !.grid = g, !.row = r, !.col = c])
  <2> DEFINE t == [s EXCEPT !.grid = g, !.row = r, !.col = c]
  <2>1. DOMAIN t = Fields /\ t.grid = g /\ t.row = r /\ t.col = c
        /\ \A f \in Fields \ {"grid", "row", "col"} : t[f] = s[f]
    BY <1>2
  <2> HIDE DEF t
  <2> QED BY <1>1, <2>1 DEF t
<1> QED BY <1>3, <1>4, <1>5, <1>6, <1>7, <1>8

(* Moving the cursor on the grid carries the text.                         *)
LEMMA MoveStays ==
  ASSUME NEW s, Good(s)
  PROVE  /\ \A r \in Span(s.grid.rows) : Stays(s, [s EXCEPT !.row = r])
         /\ \A c \in Nat : c <= Cols2(s) => Stays(s, [s EXCEPT !.col = c])
         /\ \A r \in Span(s.grid.rows), c \in Nat : c <= Cols2(s) =>
              Stays(s, [s EXCEPT !.row = r, !.col = c])
<1>1. /\ Rolled(s.grid, s.grid) /\ s.row \in Span(s.grid.rows)
      /\ 0 \in Nat /\ 0 <= Cols2(s)
  BY GoodGrid DEF Good, Rolled, Same, Painted, SameChars, OnGrid
<1> QED BY <1>1, PutKeeps

(* A grid whose rows were rolled may be put into the screen.               *)
LEMMA GridKeeps ==
  ASSUME NEW s, Good(s), NEW g, Rolled(s.grid, g)
  PROVE  /\ Keeps(s, [s EXCEPT !.grid = g])
         /\ \A c \in Nat : c <= Cols2(s) => Keeps(s, [s EXCEPT !.grid = g, !.col = c])
<1>1. /\ s.row \in Span(s.grid.rows)
      /\ 0 \in Nat /\ 0 <= Cols2(s)
  BY GoodGrid DEF Good, OnGrid
<1> QED BY <1>1, PutKeeps

(* A grid whose cells were edited carries the text.                        *)
LEMMA GridStays ==
  ASSUME NEW s, Good(s), NEW g, Edited(s.grid, g)
  PROVE  /\ Stays(s, [s EXCEPT !.grid = g])
         /\ \A c \in Nat : c <= Cols2(s) => Stays(s, [s EXCEPT !.grid = g, !.col = c])
         /\ \A r \in Span(s.grid.rows), c \in Nat : c <= Cols2(s) =>
              Stays(s, [s EXCEPT !.grid = g, !.row = r, !.col = c])
<1>1. /\ s.row \in Span(s.grid.rows)
      /\ 0 \in Nat /\ 0 <= Cols2(s) /\ Rolled(s.grid, g) /\ SameTags(s.grid, g)
  BY GoodGrid DEF Good, OnGrid, Edited, Rolled
<1> QED BY <1>1, PutKeeps

-----------------------------------------------------------------------------
(* The cursor, the tab stops and the modes *)

(* The two usize helpers of the code.                                      *)
LEMMA Arith ==
  ASSUME NEW a \in Nat, NEW b \in Nat
  PROVE  /\ Least(a, b) \in Nat /\ Least(a, b) <= a /\ Least(a, b) <= b
         /\ Least(a, b) \in {a, b}
         /\ Most(a, b) \in Nat /\ Most(a, b) >= a /\ Most(a, b) >= b
         /\ Most(a, b) \in {a, b}
         /\ Minus(a, b) \in Nat /\ Minus(a, b) <= a
         /\ a >= b => Minus(a, b) = a - b
         /\ a < b => Minus(a, b) = 0
  BY DEF Least, Most, Minus

(* The cursor operations, for any parameters.                              *)
LEMMA CursorStays ==
  ASSUME NEW s, Good(s), NEW r \in Nat, NEW c \in Nat, NEW n \in Nat
  PROVE  /\ Stays(s, CursorTo(s, r, c)) /\ Stays(s, RowTo(s, r)) /\ Stays(s, ColTo(s, c))
         /\ Stays(s, CursorUp(s, n)) /\ Stays(s, CursorDown(s, n))
         /\ Stays(s, CursorRight(s, n)) /\ Stays(s, CursorLeft(s, n))
         /\ Stays(s, NextLine(s, n)) /\ Stays(s, PrevLine(s, n))
         /\ Stays(s, [s EXCEPT !.col = 0]) /\ Stays(s, [s EXCEPT !.col = Minus(@, 1)])
<1> USE GoodGrid
<1>1. /\ \A a \in Nat : a < s.grid.rows => a \in Span(s.grid.rows)
      /\ \A a \in Nat : Least(a, LastCol(s)) \in Nat /\ Least(a, LastCol(s)) <= Cols2(s)
      /\ \A a \in Nat : Least(a, LastRow(s)) \in Span(s.grid.rows)
      /\ \A a \in Nat : Minus(s.col, a) \in Nat /\ Minus(s.col, a) <= Cols2(s)
      /\ \A a \in Nat : Minus(s.row, a) \in Span(s.grid.rows)
      /\ 0 \in Nat /\ 0 <= Cols2(s)
  BY DEF Span, Least, Minus
<1>2. ResolveRow(s, r) \in Span(s.grid.rows)
  BY <1>1 DEF ResolveRow, Least, Span
<1>3. /\ Stays(s, CursorTo(s, r, c)) /\ Stays(s, RowTo(s, r)) /\ Stays(s, ColTo(s, c))
  BY <1>1, <1>2, MoveStays DEF CursorTo, RowTo, ColTo
<1>4. Stays(s, CursorUp(s, n))
  <2>1. Most(Minus(s.row, n), IF s.row >= s.top THEN s.top ELSE 0) \in Span(s.grid.rows)
    BY DEF Most, Minus, Span
  <2> QED BY <2>1, MoveStays DEF CursorUp
<1>5. Stays(s, CursorDown(s, n))
  <2>1. Least(s.row + n, IF s.row <= s.bot THEN s.bot ELSE LastRow(s)) \in Span(s.grid.rows)
    BY DEF Least, Span
  <2> QED BY <2>1, MoveStays DEF CursorDown
<1>6. Stays(s, CursorRight(s, n)) /\ Stays(s, CursorLeft(s, n))
  <2>1. s.col + n \in Nat
    OBVIOUS
  <2> QED BY <1>1, <2>1, MoveStays DEF CursorRight, CursorLeft
<1>7. Stays(s, NextLine(s, n)) /\ Stays(s, PrevLine(s, n))
  <2>1. s.row + n \in Nat
    OBVIOUS
  <2> QED BY <1>1, <2>1, MoveStays DEF NextLine, PrevLine
<1>8. Stays(s, [s EXCEPT !.col = 0]) /\ Stays(s, [s EXCEPT !.col = Minus(@, 1)])
  BY <1>1, MoveStays
<1> QED BY <1>3, <1>4, <1>5, <1>6, <1>7, <1>8

(* DECSC, and DECRC onto a grid that may have changed its size.            *)
LEMMA RestoreStays ==
  ASSUME NEW s, Good(s)
  PROVE  Stays(s, SaveCursor(s)) /\ Stays(s, RestoreCursor(s))
<1>1. Stays(s, SaveCursor(s))
  <2> DEFINE p == [row |-> s.row, col |-> s.col]
             t == [s EXCEPT !.savedCursor = <<p>>]
  <2>1. p \in Place
    BY GoodGrid DEF Place
  <2> HIDE DEF p
  <2>2. DOMAIN t = Fields /\ t.savedCursor = <<p>> /\ \A f \in Fields \ {"savedCursor"} : t[f] = s[f]
    BY DEF Good, Fields
  <2>3. SaveCursor(s) = t
    BY DEF SaveCursor, p
  <2> HIDE DEF t
  <2>4. /\ t.grid = s.grid /\ t.row = s.row /\ t.col = s.col /\ t.cap = s.cap
        /\ t.view = s.view /\ t.tabs = s.tabs /\ t.last = s.last
    BY <2>2 DEF Fields
  <2>5. Apart(s, t, {"grid", "row", "col", "tabs", "last", "savedCursor",
                     "autowrap", "insert", "origin", "reverse"})
    BY <2>2 DEF Apart
  <2>6. Rolled(s.grid, t.grid) /\ SameTags(s.grid, t.grid) /\ OnGrid(t) /\ RestOK(t)
    BY <2>1, <2>2, <2>4
       DEF Good, Rolled, Same, SameTags, Painted, SameChars, OnGrid, Cols2, RestOK
  <2> QED BY <2>3, <2>5, <2>6, KeepsFrom
<1>2. Stays(s, RestoreCursor(s))
  <2>1. CASE s.savedCursor = <<>>
    <3>1. 0 \in Span(s.grid.rows) /\ 0 \in Nat /\ 0 <= Cols2(s)
      BY GoodGrid DEF Span
    <3> QED BY <2>1, <3>1, MoveStays DEF RestoreCursor
  <2>2. CASE s.savedCursor # <<>>
    <3> DEFINE p == s.savedCursor[1]
    <3>1. p.row \in Nat /\ p.col \in Nat
      BY <2>2 DEF Good, RestOK, Place
    <3>2. /\ Least(p.row, LastRow(s)) \in Span(s.grid.rows)
          /\ Least(p.col, LastCol(s)) \in Nat /\ Least(p.col, LastCol(s)) <= Cols2(s)
      BY <3>1, GoodGrid DEF Least, Span
    <3> QED BY <2>2, <3>2, MoveStays DEF RestoreCursor
  <2> QED BY <2>1, <2>2
<1> QED BY <1>1, <1>2

(* The modes; DECOM also moves the cursor to its origin.                   *)
LEMMA ModeStays ==
  ASSUME NEW s, Good(s), NEW on \in BOOLEAN
  PROVE  /\ Stays(s, [s EXCEPT !.insert = on])
         /\ Stays(s, [s EXCEPT !.autowrap = on])
         /\ Stays(s, [s EXCEPT !.reverse = on])
         /\ Stays(s, [s EXCEPT !.origin = on, !.col = 0, !.row = IF on THEN s.top ELSE 0])
<1>1. ASSUME NEW t, NEW r \in Span(s.grid.rows), NEW c \in Nat, c <= Cols2(s),
             DOMAIN t = Fields, t.row = r, t.col = c,
             \A f \in Fields \ {"insert", "autowrap", "reverse", "origin", "row", "col"} :
               t[f] = s[f]
      PROVE  Stays(s, t)
  <2>1. /\ t.grid = s.grid /\ t.cap = s.cap /\ t.savedCursor = s.savedCursor
        /\ t.view = s.view /\ t.tabs = s.tabs /\ t.last = s.last
    BY <1>1 DEF Fields
  <2>2. Apart(s, t, {"grid", "row", "col", "tabs", "last", "savedCursor",
                     "autowrap", "insert", "origin", "reverse"})
    BY <1>1 DEF Apart
  <2>3. Rolled(s.grid, t.grid) /\ SameTags(s.grid, t.grid) /\ OnGrid(t) /\ RestOK(t)
    BY <1>1, <2>1 DEF Good, Rolled, Same, SameTags, Painted, SameChars, OnGrid, Cols2, RestOK
  <2> QED BY <2>2, <2>3, KeepsFrom
<1>2. /\ DOMAIN s = Fields /\ s.row \in Span(s.grid.rows) /\ s.col \in Nat /\ s.col <= Cols2(s)
  BY DEF Good, OnGrid
<1>3. Stays(s, [s EXCEPT !.insert = on])
  <2> DEFINE t == [s EXCEPT !.insert = on]
  <2>1. DOMAIN t = Fields /\ t.row = s.row /\ t.col = s.col
        /\ \A f \in Fields \ {"insert"} : t[f] = s[f]
    BY <1>2 DEF Fields
  <2> HIDE DEF t
  <2> QED BY <1>1, <1>2, <2>1 DEF t
<1>4. Stays(s, [s EXCEPT !.autowrap = on])
  <2> DEFINE t == [s EXCEPT !.autowrap = on]
  <2>1. DOMAIN t = Fields /\ t.row = s.row /\ t.col = s.col
        /\ \A f \in Fields \ {"autowrap"} : t[f] = s[f]
    BY <1>2 DEF Fields
  <2> HIDE DEF t
  <2> QED BY <1>1, <1>2, <2>1 DEF t
<1>5. Stays(s, [s EXCEPT !.reverse = on])
  <2> DEFINE t == [s EXCEPT !.reverse = on]
  <2>1. DOMAIN t = Fields /\ t.row = s.row /\ t.col = s.col
        /\ \A f \in Fields \ {"reverse"} : t[f] = s[f]
    BY <1>2 DEF Fields
  <2> HIDE DEF t
  <2> QED BY <1>1, <1>2, <2>1 DEF t
<1>6. Stays(s, [s EXCEPT !.origin = on, !.col = 0, !.row = IF on THEN s.top ELSE 0])
  <2> DEFINE r == IF on THEN s.top ELSE 0
             t == [s EXCEPT !.origin = on, !.col = 0, !.row = r]
  <2>1. r \in Span(s.grid.rows) /\ 0 <= Cols2(s)
    BY GoodGrid DEF Span
  <2> HIDE DEF r
  <2>2. DOMAIN t = Fields /\ t.row = r /\ t.col = 0
        /\ \A f \in Fields \ {"origin", "row", "col"} : t[f] = s[f]
    BY <1>2 DEF Fields
  <2> HIDE DEF t
  <2> QED BY <1>1, <2>1, <2>2 DEF t, r
<1> QED BY <1>3, <1>4, <1>5, <1>6

(* The next tab stop, or the last column; and the stop before.             *)
LEMMA TabStays ==
  ASSUME NEW s, Good(s), NEW on
  PROVE  /\ Stays(s, TabForward(s)) /\ Stays(s, TabBack(s))
         /\ Stays(s, SetTab(s, on)) /\ Stays(s, ClearTabs(s))
<1> USE GoodGrid
<1>1. Stays(s, TabForward(s))
  <2>1. CASE s.col >= LastCol(s)
    <3>1. LastCol(s) \in Nat /\ LastCol(s) <= Cols2(s)
      OBVIOUS
    <3> QED BY <2>1, <3>1, MoveStays DEF TabForward
  <2>2. CASE ~(s.col >= LastCol(s))
    <3> DEFINE T == {c \in (s.col + 1) .. LastCol(s) : c = LastCol(s) \/ IsStop(s, c)}
               Next1(c) == /\ c = LastCol(s) \/ IsStop(s, c)
                           /\ \A d \in (s.col + 1) .. (c - 1) : ~IsStop(s, d)
               stop == CHOOSE c \in (s.col + 1) .. LastCol(s) : Next1(c)
    <3>1. T \subseteq Nat /\ LastCol(s) \in T
      BY <2>2
    <3>2. PICK m \in T : \A k \in T : m <= k
      <4> HIDE DEF T
      <4> QED BY <3>1, LeastNat
    <3>3. \A d \in (s.col + 1) .. (m - 1) : ~IsStop(s, d)
      BY <3>1, <3>2
    <3>4. stop \in (s.col + 1) .. LastCol(s)
      <4>1. m \in (s.col + 1) .. LastCol(s) /\ Next1(m)
        BY <3>2, <3>3
      <4> HIDE DEF Next1
      <4> QED BY <4>1
    <3>5. TabForward(s) = [s EXCEPT !.col = stop]
      BY <2>2, ZenonT(60) DEF TabForward
    <3> HIDE DEF stop
    <3>6. stop \in Nat /\ stop <= Cols2(s)
      BY <3>4
    <3>7. Stays(s, [s EXCEPT !.col = stop])
      BY <3>6, MoveStays
    <3> QED BY <3>5, <3>7, Zenon
  <2> QED BY <2>1, <2>2
<1>2. Stays(s, TabBack(s))
  <2>1. CASE s.col = 0
    BY <2>1, StaysSame DEF TabBack
  <2>2. CASE s.col # 0
    <3> DEFINE T == {c \in 0 .. (s.col - 1) : c = 0 \/ IsStop(s, c)}
               Prev1(c) == /\ c = 0 \/ IsStop(s, c)
                           /\ \A d \in (c + 1) .. (s.col - 1) : ~IsStop(s, d)
               stop == CHOOSE c \in 0 .. (s.col - 1) : Prev1(c)
    <3>1. T \subseteq Nat /\ 0 \in T /\ \A k \in T : k <= s.col
      BY <2>2
    <3>2. PICK m \in T : \A k \in T : k <= m
      <4> HIDE DEF T
      <4>1. T # {} /\ s.col \in Nat
        BY <3>1
      <4> QED BY <3>1, <4>1, GreatestNat
    <3>3. \A d \in (m + 1) .. (s.col - 1) : ~IsStop(s, d)
      BY <3>1, <3>2
    <3>4. stop \in 0 .. (s.col - 1)
      <4>1. m \in 0 .. (s.col - 1) /\ Prev1(m)
        BY <3>2, <3>3
      <4> HIDE DEF Prev1
      <4> QED BY <4>1
    <3>5. TabBack(s) = [s EXCEPT !.col = stop]
      BY <2>2, ZenonT(60) DEF TabBack
    <3> HIDE DEF stop
    <3>6. stop \in Nat /\ stop <= Cols2(s)
      BY <3>4
    <3>7. Stays(s, [s EXCEPT !.col = stop])
      BY <3>6, MoveStays
    <3> QED BY <3>5, <3>7, Zenon
  <2> QED BY <2>1, <2>2
<1>3. ASSUME NEW x, DOMAIN x = DOMAIN s.tabs
      PROVE  Stays(s, [s EXCEPT !.tabs = x])
  <2> DEFINE t == [s EXCEPT !.tabs = x]
  <2>1. DOMAIN t = Fields /\ t.tabs = x /\ \A f \in Fields \ {"tabs"} : t[f] = s[f]
    BY DEF Good, Fields
  <2> HIDE DEF t
  <2>2. /\ t.grid = s.grid /\ t.row = s.row /\ t.col = s.col /\ t.cap = s.cap
        /\ t.view = s.view /\ t.savedCursor = s.savedCursor /\ t.last = s.last
    BY <2>1 DEF Fields
  <2>3. Apart(s, t, {"grid", "row", "col", "tabs", "last", "savedCursor",
                     "autowrap", "insert", "origin", "reverse"})
    BY <2>1 DEF Apart
  <2>4. Rolled(s.grid, t.grid) /\ SameTags(s.grid, t.grid) /\ OnGrid(t)
    BY <2>2 DEF Good, Rolled, Same, SameTags, Painted, SameChars, OnGrid, Cols2
  <2>5. RestOK(t)
    BY <1>3, <2>1, <2>2 DEF Good, RestOK
  <2> QED BY <2>3, <2>4, <2>5, KeepsFrom DEF t
<1>4. Stays(s, SetTab(s, on))
  <2> DEFINE x == [s.tabs EXCEPT ![s.col] = on]
  <2>1. DOMAIN x = DOMAIN s.tabs
    OBVIOUS
  <2>2. [s EXCEPT !.tabs[s.col] = on] = [s EXCEPT !.tabs = x]
    BY DEF Good, Fields
  <2> HIDE DEF x
  <2> QED BY <1>3, <2>1, <2>2, StaysSame DEF SetTab
<1>5. Stays(s, ClearTabs(s))
  BY <1>3 DEF ClearTabs
<1> QED BY <1>1, <1>2, <1>4, <1>5

-----------------------------------------------------------------------------
(* Cells and lines of the grid *)

(* Operations on the cells and the lines of one screen.                    *)
LEMMA EditStays ==
  ASSUME NEW s, Good(s), NEW n \in Nat, NEW block
  PROVE  /\ Stays(s, Erase(s, block))
         /\ Stays(s, [s EXCEPT !.grid = InsertBlanks(@, s.row, s.col, n)])
         /\ Stays(s, [s EXCEPT !.grid = DeleteChars(@, s.row, s.col, n)])
         /\ Stays(s, [s EXCEPT !.grid = EraseChars(@, s.row, s.col, n)])
<1>1. /\ Edited(s.grid, BlankCells(s.grid, block))
      /\ Edited(s.grid, InsertBlanks(s.grid, s.row, s.col, n))
      /\ Edited(s.grid, DeleteChars(s.grid, s.row, s.col, n))
      /\ Edited(s.grid, EraseChars(s.grid, s.row, s.col, n))
  BY GoodGrid, EraseEdits, RowEdits
<1> QED BY <1>1, GridStays DEF Erase

(* IL, DL, SD and RI: lines move inside the region only.                   *)
LEMMA LinesKeeps ==
  ASSUME NEW s, Good(s), NEW n \in Nat
  PROVE  /\ Keeps(s, InsertLines(s, n)) /\ Keeps(s, DeleteLines(s, n))
         /\ Keeps(s, RegionDown(s, n)) /\ Keeps(s, ReverseIndex(s))
<1>1. /\ Rolled(s.grid, ScrollRegionDown(s.grid, s.row, s.bot, n))
      /\ Rolled(s.grid, ScrollRegionUp(s.grid, s.row, s.bot, n))
      /\ Rolled(s.grid, ScrollRegionDown(s.grid, s.top, s.bot, n))
      /\ Rolled(s.grid, ScrollRegionDown(s.grid, s.top, s.bot, 1))
  BY GoodGrid, ScrollRolls
<1>2. 0 \in Nat /\ 0 <= Cols2(s) /\ Minus(s.row, 1) \in Span(s.grid.rows)
  BY GoodGrid DEF Minus, Span
<1> QED BY <1>1, <1>2, GridKeeps, MoveStays, StaysSame
        DEF Stays, InsertLines, DeleteLines, RegionDown, ReverseIndex

(* EL and ED, the modes that leave the scrollback alone.                   *)
LEMMA ClearStays ==
  ASSUME NEW s, Good(s), NEW mode \in 0 .. 2
  PROVE  Stays(s, EraseInLine(s, mode)) /\ Stays(s, EraseInDisplay(s, mode))
<1>1. Stays(s, EraseInLine(s, mode))
  BY EditStays DEF EraseInLine
<1>2. Stays(s, EraseInDisplay(s, mode))
  <2>1. mode = 2 => EraseInDisplay(s, mode) = [s EXCEPT !.grid = Clear(@), !.row = 0, !.col = 0]
    BY DEF EraseInDisplay
  <2>2. mode = 0 => EraseInDisplay(s, mode) = Erase(s, Below(s) \cup InRow(s, 0))
    BY DEF EraseInDisplay
  <2>3. mode = 1 => EraseInDisplay(s, mode) = Erase(s, Above(s) \cup InRow(s, 1))
    BY DEF EraseInDisplay
  <2>4. Edited(s.grid, Clear(s.grid)) /\ 0 \in Span(s.grid.rows) /\ 0 \in Nat /\ 0 <= Cols2(s)
    BY GoodGrid, WholeEdits DEF Span
  <2>5. Stays(s, [s EXCEPT !.grid = Clear(@), !.row = 0, !.col = 0])
    BY <2>4, GridStays
  <2>6. mode = 0 \/ mode = 1 \/ mode = 2
    OBVIOUS
  <2>7. 0 \in Nat /\ \A block : Stays(s, Erase(s, block))
    BY EditStays
  <2> QED BY <2>1, <2>2, <2>3, <2>5, <2>6, <2>7
<1> QED BY <1>1, <1>2

(* DECSTR: the screen is cleared, its lines stay.                          *)
LEMMA SoftResetStays == ASSUME NEW s, Good(s) PROVE Stays(s, Reset(s, FALSE))
<1> DEFINE g == Clear(s.grid)
           bot == LastRow(s)
           tabs == TabStops(s.grid.cols)
           t == [s EXCEPT !.grid = g, !.row = 0, !.col = 0, !.top = 0,
                 !.bot = bot, !.tabs = tabs,
                 !.savedCursor = <<>>, !.last = <<>>, !.autowrap = TRUE,
                 !.insert = FALSE, !.origin = FALSE, !.reverse = FALSE]
<1>1. Reset(s, FALSE) = t
  BY DEF Reset
<1>2. Edited(s.grid, g) /\ DOMAIN tabs = Span(s.grid.cols)
  BY GoodGrid, WholeEdits DEF TabStops
<1>3. bot \in Nat /\ bot < s.grid.rows
  BY GoodGrid
<1> HIDE DEF g, tabs, bot
<1>4. DOMAIN t = Fields /\ t.grid = g /\ t.row = 0 /\ t.col = 0
  BY DEF Good, Fields
<1>5. t.top = 0 /\ t.bot = bot /\ t.tabs = tabs /\ t.savedCursor = <<>> /\ t.last = <<>>
  BY DEF Good, Fields
<1>6. t.saved = s.saved /\ t.hist = s.hist /\ t.cap = s.cap /\ t.view = s.view
      /\ t.marks = s.marks
  BY DEF Good, Fields
<1> HIDE DEF t
<1>7. OnGrid(t) /\ Margins(t)
  BY <1>2, <1>3, <1>4, <1>5, GoodGrid DEF OnGrid, Margins, Edited, Same, Span, Cols2
<1>8. SavedOK(t) /\ ListsOK(t)
  BY <1>2, <1>4, <1>6 DEF Good, SavedOK, ListsOK, Edited, Same, OnAlt
<1>9. RestOK(t)
  BY <1>2, <1>4, <1>5, <1>6 DEF Good, RestOK, Edited, Same
<1>10. Frame(s, t) /\ Hist(s, t) /\ Looks(s, t)
  BY <1>2, <1>4, <1>6 DEF Frame, Hist, Looks, Edited, Painted, Same
<1>11. Carries(s, t)
  <2>1. RegionIsFull(t)
    BY <1>2, <1>3, <1>4, <1>5, GoodGrid DEF RegionIsFull, Edited, Same, LastRow, bot
  <2>2. t.grid.rows = s.grid.rows /\ SameTags(s.grid, t.grid)
    BY <1>2, <1>4 DEF Edited, Same
  <2> QED BY <1>6, <2>1, <2>2, Still
<1> QED BY <1>1, <1>2, <1>4, <1>7, <1>8, <1>9, <1>10, <1>11
        DEF Stays, Keeps, Good, Edited, Same

(* DECSTBM, for any parameters: margins are rows of the grid, in order.    *)
LEMMA MarginKeeps ==
  ASSUME NEW s, Good(s), NEW top \in Nat, NEW bot \in Nat
  PROVE  Keeps(s, SetMargins(s, top, bot))
<1> DEFINE t == Minus(top, 1)
           b == IF bot = 0 THEN LastRow(s) ELSE Least(bot - 1, LastRow(s))
<1>1. t \in Nat /\ b \in Nat /\ b < s.grid.rows
  BY GoodGrid DEF Minus, Least
<1>2. LastRow(s) \in Nat /\ LastRow(s) < s.grid.rows
  BY GoodGrid
<1>3. ASSUME NEW x \in Nat, NEW y \in Nat, x <= y, y < s.grid.rows
      PROVE  Keeps(s, [s EXCEPT !.top = x, !.bot = y, !.row = x, !.col = 0])
  <2> DEFINE u == [s EXCEPT !.top = x, !.bot = y, !.row = x, !.col = 0]
  <2>1. DOMAIN u = Fields /\ u.top = x /\ u.bot = y /\ u.row = x /\ u.col = 0
    BY DEF Good, Fields
  <2>2. /\ u.grid = s.grid /\ u.saved = s.saved /\ u.hist = s.hist /\ u.cap = s.cap
        /\ u.view = s.view /\ u.marks = s.marks
    BY DEF Good, Fields
  <2>3. u.tabs = s.tabs /\ u.savedCursor = s.savedCursor /\ u.last = s.last
    BY DEF Good, Fields
  <2> HIDE DEF u
  <2>4. OnGrid(u) /\ Margins(u)
    BY <1>3, <2>1, <2>2, GoodGrid DEF OnGrid, Margins, Span, Cols2
  <2>5. SavedOK(u) /\ ListsOK(u) /\ RestOK(u)
    BY <2>2, <2>3 DEF Good, SavedOK, ListsOK, RestOK, OnAlt
  <2>6. Frame(s, u) /\ Hist(s, u) /\ Looks(s, u)
    BY <2>2 DEF Frame, Hist, Looks, SameChars
  <2>7. GridOK(u.grid)
    BY <2>2 DEF Good
  <2> QED BY <2>1, <2>4, <2>5, <2>6, <2>7 DEF Keeps, Good, u
<1>4. SetMargins(s, top, bot) =
        IF t < b THEN [s EXCEPT !.top = t, !.bot = b, !.row = t, !.col = 0]
        ELSE [s EXCEPT !.top = 0, !.bot = LastRow(s), !.row = 0, !.col = 0]
  BY ZenonT(60) DEF SetMargins
<1> HIDE DEF t, b
<1>5. t < b => Keeps(s, [s EXCEPT !.top = t, !.bot = b, !.row = t, !.col = 0])
  <2>1. t < b => t <= b
    BY <1>1
  <2> QED BY <1>1, <1>3, <2>1
<1>6. Keeps(s, [s EXCEPT !.top = 0, !.bot = LastRow(s), !.row = 0, !.col = 0])
  <2>1. 0 \in Nat /\ 0 <= LastRow(s)
    BY <1>2
  <2> QED BY <1>2, <1>3, <2>1
<1> QED BY <1>4, <1>5, <1>6, ZenonT(60)

-----------------------------------------------------------------------------
(* The marks move with their lines *)

Match(q, r, e) == q.line = r.line + e /\ q.id = r.id
MarkStep(q, n) ==
  [p \in Seq(Mark) \X Nat |->
     IF p[2] \in DOMAIN q /\ q[p[2]].line >= n
     THEN Append(p[1], [q[p[2]] EXCEPT !.line = @ - n]) ELSE p[1]]

(* The marks from line n on, moved up by n: no other mark is lost and none *)
(* is made up.                                                             *)
LEMMA MarksFromMoves ==
  ASSUME NEW q \in Seq(Mark), NEW n \in Nat
  PROVE  /\ MarksFrom(q, n) \in Seq(Mark) /\ Len(MarksFrom(q, n)) <= Len(q)
         /\ MarksMove(q, MarksFrom(q, n), n)
<1> DEFINE Eq(f) == f = [i \in 0 .. Len(q) |->
              IF i = 0 THEN <<>>
              ELSE IF q[i].line >= n
                   THEN Append(f[i - 1], [q[i] EXCEPT !.line = @ - n])
                   ELSE f[i - 1]]
           F == CHOOSE f : Eq(f)
           G == MarkStep(q, n)
<1>1. Len(q) \in Nat /\ DOMAIN q = 1 .. Len(q) /\ <<>> \in Seq(Mark)
  OBVIOUS
<1>2. ASSUME NEW i \in DOMAIN q, q[i].line >= n
      PROVE  /\ [q[i] EXCEPT !.line = @ - n] \in Mark
             /\ Match(q[i], [q[i] EXCEPT !.line = @ - n], n)
  <2>1. q[i] \in Mark /\ q[i].line \in Nat
    BY MarkParts, <1>1
  <2>2. q[i].line - n \in Nat /\ (q[i].line - n) + n = q[i].line
    BY <1>2, <2>1
  <2> QED BY <2>1, <2>2 DEF Mark, Match
<1>3. ASSUME NEW p \in Seq(Mark), NEW i \in Nat
      PROVE  /\ G[<<p, i>>] \in Seq(Mark)
             /\ i \in DOMAIN q => G[<<p, i>>] = IF q[i].line >= n
                    THEN Append(p, [q[i] EXCEPT !.line = @ - n]) ELSE p
  <2>1. <<p, i>> \in Seq(Mark) \X Nat
    OBVIOUS
  <2>2. G[<<p, i>>] = IF i \in DOMAIN q /\ q[i].line >= n
                      THEN Append(p, [q[i] EXCEPT !.line = @ - n]) ELSE p
    BY <2>1 DEF MarkStep
  <2>3. i \in DOMAIN q /\ q[i].line >= n => Append(p, [q[i] EXCEPT !.line = @ - n]) \in Seq(Mark)
    <3> SUFFICES ASSUME i \in DOMAIN q, q[i].line >= n
                 PROVE  Append(p, [q[i] EXCEPT !.line = @ - n]) \in Seq(Mark)
      OBVIOUS
    <3> DEFINE m == [q[i] EXCEPT !.line = @ - n]
    <3>1. m \in Mark
      BY <1>2
    <3> HIDE DEF m
    <3>2. Append(p, m) \in Seq(Mark)
      BY <3>1
    <3> QED BY <3>2 DEF m
  <2> QED BY <2>2, <2>3
<1> HIDE DEF G
<1>4. PICK f \in [0 .. Len(q) -> Seq(Mark)] :
        f[0] = <<>> /\ \A i \in 1 .. Len(q) : f[i] = G[<<f[i - 1], i>>]
  <2>1. \A p \in Seq(Mark), i \in Nat : G[<<p, i>>] \in Seq(Mark)
    BY <1>3
  <2> DEFINE X == Seq(Mark)
  <2>2. <<>> \in X /\ StaysIn(G, X)
    BY <2>1 DEF StaysIn
  <2> HIDE DEF X
  <2>3. \E f \in [0 .. Len(q) -> X] : Iterate(f, <<>>, G, Len(q))
    BY <1>1, <2>2, Iterates
  <2> QED BY <2>3 DEF X, Iterate
<1>5. Eq(f)
  <2>1. ASSUME NEW i \in 0 .. Len(q)
        PROVE  f[i] = IF i = 0 THEN <<>>
              ELSE IF q[i].line >= n
                   THEN Append(f[i - 1], [q[i] EXCEPT !.line = @ - n])
                   ELSE f[i - 1]
    <3>1. CASE i = 0
      BY <1>4, <3>1
    <3>2. CASE i # 0
      <4>1. i \in DOMAIN q /\ i \in Nat /\ i - 1 \in 0 .. Len(q)
        BY <1>1, <3>2
      <4>2. f[i] = G[<<f[i - 1], i>>] /\ f[i - 1] \in Seq(Mark)
        BY <1>4, <3>2, <4>1
      <4> QED BY <1>3, <3>2, <4>1, <4>2
    <3> QED BY <3>1, <3>2
  <2>2. DOMAIN f = 0 .. Len(q) /\ f = [i \in DOMAIN f |-> f[i]]
    BY <1>4
  <2> QED BY <2>1, <2>2
<1>6. MarksFrom(q, n) = F[Len(q)]
  BY ZenonT(60) DEF MarksFrom
<1>7. Eq(F)
  <2> HIDE DEF Eq
  <2> QED BY <1>5
<1> HIDE DEF F
<1>8. /\ F[0] = <<>>
      /\ \A i \in 1 .. Len(q) : F[i] = IF q[i].line >= n
                   THEN Append(F[i - 1], [q[i] EXCEPT !.line = @ - n])
                   ELSE F[i - 1]
  <2>1. 0 \in 0 .. Len(q)
    BY <1>1
  <2>2. \A i \in 1 .. Len(q) : i \in 0 .. Len(q) /\ i # 0
    BY <1>1
  <2> QED BY <1>7, <2>1, <2>2
<1> HIDE DEF Eq
<1> DEFINE Holds(i) == /\ F[i] \in Seq(Mark) /\ Len(F[i]) <= i
                       /\ \A j \in DOMAIN F[i] : \E k \in 1 .. i : Match(q[k], F[i][j], n)
                       /\ \A k \in 1 .. i : q[k].line >= n =>
                            \E j \in DOMAIN F[i] : Match(q[k], F[i][j], n)
           S == {i \in Nat : i <= Len(q) => Holds(i)}
<1>9. 0 \in S
  <2>1. F[0] = <<>> /\ DOMAIN <<>> = {} /\ Len(<<>>) = 0 /\ 1 .. 0 = {}
    BY <1>8
  <2>2. Holds(0)
    BY <1>1, <2>1
  <2> QED BY <2>2
<1>10. ASSUME NEW i \in Nat, i \in S PROVE i + 1 \in S
  <2> SUFFICES ASSUME i + 1 <= Len(q) PROVE Holds(i + 1)
    OBVIOUS
  <2>1. i <= Len(q) /\ i + 1 \in 1 .. Len(q) /\ (i + 1) - 1 = i
    BY <1>1
  <2>2. Holds(i)
    BY <1>10, <2>1
  <2>3. F[i + 1] = IF q[i + 1].line >= n THEN Append(F[i], [q[i + 1] EXCEPT !.line = @ - n])
                   ELSE F[i]
    BY <1>8, <2>1
  <2> DEFINE m == [q[i + 1] EXCEPT !.line = @ - n]
             a == Append(F[i], m)
  <2>4. CASE q[i + 1].line >= n
    <3>1. m \in Mark /\ Match(q[i + 1], m, n)
      BY <1>1, <1>2, <2>1, <2>4
    <3> HIDE DEF m
    <3>2. /\ a \in Seq(Mark) /\ Len(a) = Len(F[i]) + 1 /\ a[Len(a)] = m
          /\ DOMAIN a = 1 .. Len(a) /\ DOMAIN F[i] = 1 .. Len(F[i]) /\ Len(F[i]) \in Nat
          /\ \A j \in DOMAIN F[i] : j \in DOMAIN a /\ a[j] = F[i][j]
          /\ \A j \in DOMAIN a : j \in DOMAIN F[i] \/ j = Len(a)
      BY <2>2, <3>1
    <3> HIDE DEF a
    <3>3. F[i + 1] = a
      BY <2>3, <2>4 DEF a, m
    <3>4. \A j \in DOMAIN a : \E k \in 1 .. i + 1 : Match(q[k], a[j], n)
      <4>1. \A k \in 1 .. i : k \in 1 .. i + 1
        OBVIOUS
      <4>2. i + 1 \in 1 .. i + 1
        OBVIOUS
      <4> QED BY <2>2, <3>1, <3>2, <4>1, <4>2
    <3>5. \A k \in 1 .. i + 1 : q[k].line >= n => \E j \in DOMAIN a : Match(q[k], a[j], n)
      <4>1. \A k \in 1 .. i + 1 : k \in 1 .. i \/ k = i + 1
        OBVIOUS
      <4>2. Len(a) \in DOMAIN a
        BY <3>2
      <4> QED BY <2>2, <3>1, <3>2, <4>1, <4>2
    <3>6. Len(a) <= i + 1
      BY <2>2, <3>2
    <3> QED BY <3>2, <3>3, <3>4, <3>5, <3>6
  <2>5. CASE ~(q[i + 1].line >= n)
    <3>1. F[i + 1] = F[i]
      BY <2>3, <2>5
    <3>2. \A k \in 1 .. i + 1 : k \in 1 .. i \/ k = i + 1
      OBVIOUS
    <3>3. \A k \in 1 .. i : k \in 1 .. i + 1
      OBVIOUS
    <3>4. Len(F[i]) <= i + 1
      BY <2>2
    <3> QED BY <2>2, <2>5, <3>1, <3>2, <3>3, <3>4
  <2> QED BY <2>4, <2>5
<1> HIDE DEF S
<1>11. Len(q) \in S
  BY <1>1, <1>9, <1>10, SetInduction
<1>12. Holds(Len(q))
  BY <1>1, <1>11 DEF S
<1> DEFINE r == F[Len(q)]
<1>13. /\ r \in Seq(Mark) /\ Len(r) <= Len(q)
       /\ \A j \in DOMAIN r : \E k \in DOMAIN q : Match(q[k], r[j], n)
       /\ \A k \in DOMAIN q : q[k].line >= n => \E j \in DOMAIN r : Match(q[k], r[j], n)
  BY <1>1, <1>12
<1>14. MarksFrom(q, n) = r
  BY <1>6
<1> HIDE DEF r, Holds
<1> QED BY <1>13, <1>14 DEF MarksMove, Match

-----------------------------------------------------------------------------
(* Lines enter the scrollback *)

(* A line of the grid, also stripped for the scrollback, is a line.        *)
LEMMA LineAny ==
  ASSUME NEW w \in Nat \ {0}, NEW l \in Line(w)
  PROVE  /\ l \in AnyLine /\ HistoryLine(l) \in AnyLine /\ HistoryLine(l).tag = l.tag
<1>1. l \in AnyLine
  BY DEF AnyLine
<1> DEFINE cs == [c \in DOMAIN l.cells |-> Plain(l.cells[c].ch)]
<1>2. /\ DOMAIN l.cells = Span(w) /\ l.cells \in [Span(w) -> Cell]
  BY Lines0
<1>3. \A c \in Span(w) : Plain(l.cells[c].ch) \in Cell
  BY Lines0, Blanks
<1>4. cs \in [Span(w) -> Cell]
  BY <1>2, <1>3
<1>5. HistoryLine(l) = [l EXCEPT !.cells = cs]
  BY DEF HistoryLine
<1> HIDE DEF cs
<1>6. HistoryLine(l) \in Line(w) /\ HistoryLine(l).tag = l.tag
  BY <1>4, <1>5, Lines0
<1> QED BY <1>1, <1>6 DEF AnyLine

(* The lines that leave the grid at its top, with their anchors.           *)
LEMMA PastLines ==
  ASSUME NEW g, GridOK(g), NEW n \in Nat
  PROVE  /\ HistoryLines(g, n) \in Seq(AnyLine) /\ Len(HistoryLines(g, n)) = n
         /\ \A i \in 1 .. n : HistoryLines(g, n)[i].tag =
              IF i <= g.rows THEN g.line[i - 1].tag ELSE {}
<1>1. /\ g.rows \in Nat /\ g.cols \in Nat \ {0} /\ g.line \in [Span(g.rows) -> Line(g.cols)]
      /\ BlankLine(g.cols) \in Line(g.cols) /\ BlankLine(g.cols).tag = {}
  BY Blanks DEF GridOK
<1> DEFINE l(i) == IF i <= g.rows THEN g.line[i - 1] ELSE BlankLine(g.cols)
<1>2. ASSUME NEW i \in 1 .. n
      PROVE  /\ HistoryLine(l(i)) \in AnyLine
             /\ HistoryLine(l(i)).tag = IF i <= g.rows THEN g.line[i - 1].tag ELSE {}
  <2>1. l(i) \in Line(g.cols)
    <3>1. i <= g.rows => i - 1 \in Span(g.rows)
      BY <1>1 DEF Span
    <3> QED BY <1>1, <3>1
  <2>2. l(i).tag = IF i <= g.rows THEN g.line[i - 1].tag ELSE {}
    BY <1>1
  <2> HIDE DEF l
  <2> QED BY <1>1, <2>1, <2>2, LineAny
<1>3. HistoryLines(g, n) = [i \in 1 .. n |-> HistoryLine(l(i))]
  BY DEF HistoryLines
<1> HIDE DEF l
<1> QED BY <1>2, <1>3

(* The elements of a concatenation.                                        *)
LEMMA ConcatParts ==
  ASSUME NEW S, NEW p \in Seq(S), NEW q \in Seq(S)
  PROVE  /\ p \o q \in Seq(S) /\ Len(p \o q) = Len(p) + Len(q)
         /\ \A i \in 1 .. Len(p) : (p \o q)[i] = p[i]
         /\ \A i \in 1 .. Len(q) : (p \o q)[Len(p) + i] = q[i]
  OBVIOUS

(* What leaves the top of the grid.                                        *)
LEMMA ScrollStays ==
  ASSUME NEW s, Good(s), NEW n \in Nat \ {0}
  PROVE  /\ Keeps(s, ScrollIntoHistory(s, n))
         /\ RegionIsFull(s) => Stays(s, ScrollIntoHistory(s, n))
         /\ ScrollIntoHistory(s, n).col = s.col
<1>0. /\ GridOK(s.grid) /\ s.grid.rows \in Nat \ {0} /\ s.grid.cols \in Nat \ {0}
      /\ 0 \in Nat /\ s.grid.rows - 1 \in Nat /\ Len(s.hist) \in Nat
  BY GoodGrid, TotalNat
<1> DEFINE up == ScrollRegionUp(s.grid, 0, s.grid.rows - 1, n)
           g == Touch(up)
           t == [s EXCEPT !.grid = g]
           all == s.hist \o HistoryLines(s.grid, n)
           ev == Minus(Len(all), s.cap)
           h == Suffix(all, Len(all) - ev)
           m == MarksFrom(s.marks, ev)
           u == [s EXCEPT !.grid = g, !.hist = h, !.marks = m]
<1>1. ScrollIntoHistory(s, n) = IF s.cap = 0 \/ OnAlt(s) THEN t ELSE u
  <2>1. ScrollIntoHistory(s, n) = IF s.cap = 0 \/ OnAlt(s) THEN t
                                  ELSE Reanchor([t EXCEPT !.hist = h], ev)
    BY ZenonT(60) DEF ScrollIntoHistory
  <2> HIDE DEF g, h, ev, all
  <2>2. Reanchor([t EXCEPT !.hist = h], ev) = u
    BY DEF Reanchor, Good, Fields
  <2> QED BY <2>1, <2>2
<1>2. /\ Rolled(s.grid, up) /\ Same(s.grid, g) /\ IsDamaged(g) /\ g.line = up.line
  <2>1. Rolled(s.grid, up)
    BY <1>0, ScrollRolls
  <2>2. GridOK(up) /\ up.rows = s.grid.rows /\ up.cols = s.grid.cols
    BY <2>1 DEF Rolled, Same
  <2> HIDE DEF up
  <2>3. Edited(up, Touch(up)) /\ IsDamaged(Touch(up)) /\ Touch(up).line = up.line
    BY <2>2, WholeEdits
  <2> QED BY <2>1, <2>2, <2>3 DEF Edited, Same
<1>3. Rolled(s.grid, g)
  BY <1>2 DEF Rolled, Painted
<1>4. /\ s.hist \in Seq(AnyLine) /\ s.cap \in Nat /\ s.marks \in Seq(Mark) /\ n \in Nat
      /\ HistoryLines(s.grid, n) \in Seq(AnyLine) /\ Len(HistoryLines(s.grid, n)) = n
  BY <1>0, PastLines DEF Good, ListsOK, RestOK
<1>5. /\ all \in Seq(AnyLine) /\ Len(all) = Len(s.hist) + n /\ Len(all) \in Nat
      /\ \A i \in 1 .. Len(s.hist) : all[i] = s.hist[i]
      /\ \A i \in 1 .. n : all[Len(s.hist) + i] = HistoryLines(s.grid, n)[i]
  <2>1. /\ all \in Seq(AnyLine) /\ Len(all) = Len(s.hist) + Len(HistoryLines(s.grid, n))
        /\ \A i \in 1 .. Len(s.hist) : all[i] = s.hist[i]
        /\ \A i \in 1 .. Len(HistoryLines(s.grid, n)) :
             all[Len(s.hist) + i] = HistoryLines(s.grid, n)[i]
    <3> DEFINE p == s.hist
               q == HistoryLines(s.grid, n)
    <3>1. p \in Seq(AnyLine) /\ q \in Seq(AnyLine) /\ all = p \o q
      BY <1>4
    <3> HIDE DEF p, q, all
    <3>2. /\ all \in Seq(AnyLine) /\ Len(all) = Len(p) + Len(q)
          /\ \A i \in 1 .. Len(p) : all[i] = p[i]
          /\ \A i \in 1 .. Len(q) : all[Len(p) + i] = q[i]
      BY <3>1, ConcatParts
    <3> QED BY <3>2 DEF p, q
  <2> HIDE DEF all
  <2> QED BY <1>0, <1>4, <2>1
<1>6. /\ ev \in Nat /\ Len(all) - ev \in Nat /\ Len(all) - ev <= Len(all)
      /\ Len(all) - ev <= s.cap /\ (ev > 0 => Len(all) - ev = s.cap)
      /\ Len(s.hist) <= s.cap => Len(s.hist) <= Len(all) - ev
  <2> DEFINE a == Len(all)
             l == Len(s.hist)
             c == s.cap
  <2>1. a \in Nat /\ l \in Nat /\ c \in Nat /\ a >= l
    BY <1>0, <1>4, <1>5
  <2>2. ev = IF a >= c THEN a - c ELSE 0
    BY DEF Minus
  <2> HIDE DEF a, l, c, ev
  <2>3. /\ ev \in Nat /\ a - ev \in Nat /\ a - ev <= a /\ a - ev <= c
        /\ (ev > 0 => a - ev = c) /\ (l <= c => l <= a - ev)
    BY <2>1, <2>2
  <2> QED BY <2>3 DEF a, l, c
<1>7. /\ h \in Seq(AnyLine) /\ Len(h) = Len(all) - ev
      /\ \A i \in 1 .. Len(h) : h[i] = all[ev + i]
  <2> DEFINE k == Len(all) - ev
  <2> HIDE DEF all, ev
  <2>1. k \in Nat /\ k <= Len(all) /\ \A i \in 1 .. k : Len(all) - k + i = ev + i
    BY <1>5, <1>6
  <2> HIDE DEF k
  <2>2. /\ Suffix(all, k) \in Seq(AnyLine) /\ Len(Suffix(all, k)) = k
        /\ \A i \in 1 .. k : Suffix(all, k)[i] = all[Len(all) - k + i]
    <3>1. all \in Seq(AnyLine) /\ k \in Nat /\ k <= Len(all)
      BY <1>5, <2>1
    <3>2. /\ \A i \in 1 .. k : Len(all) - k + i \in 1 .. Len(all)
          /\ \A i \in 1 .. Len(all) : all[i] \in AnyLine
      BY <3>1
    <3> QED BY <3>1, <3>2 DEF Suffix
  <2>3. h = Suffix(all, k)
    BY DEF k
  <2> HIDE DEF h
  <2>4. /\ h \in Seq(AnyLine) /\ Len(h) = k /\ \A i \in 1 .. Len(h) : h[i] = all[ev + i]
    BY <2>1, <2>2, <2>3
  <2> QED BY <2>4 DEF k
<1>8. m \in Seq(Mark) /\ Len(m) <= MaxMarks /\ MarksMove(s.marks, m, ev)
  <2> HIDE DEF ev
  <2>1. m \in Seq(Mark) /\ Len(m) <= Len(s.marks) /\ MarksMove(s.marks, m, ev)
    BY <1>4, <1>6, MarksFromMoves
  <2> HIDE DEF m
  <2>2. Len(s.marks) <= MaxMarks /\ Len(s.marks) \in Nat /\ MaxMarks \in Nat /\ Len(m) \in Nat
    BY <1>4, <2>1, MarksAssumption DEF Good, ListsOK
  <2> QED BY <2>1, <2>2
<1>80. s.marks = <<>> => m = <<>>
  <2> SUFFICES ASSUME s.marks = <<>> PROVE m = <<>>
    OBVIOUS
  <2> HIDE DEF m, ev
  <2>1. DOMAIN s.marks = {}
    OBVIOUS
  <2>2. \A i \in DOMAIN m : \E k \in DOMAIN s.marks : TRUE
    BY <1>8 DEF MarksMove
  <2>3. m \in Seq(Mark) /\ DOMAIN m = {}
    <3>1. \A i \in DOMAIN m : FALSE
      BY <2>1, <2>2
    <3> QED BY <1>8, <3>1
  <2>4. Len(m) = 0
    BY <2>3
  <2> QED BY <2>3, <2>4
<1>9. /\ DOMAIN u = Fields /\ u.grid = g /\ u.hist = h /\ u.marks = m
      /\ \A f \in Fields \ {"grid", "hist", "marks"} : u[f] = s[f]
  <2> HIDE DEF g, h, m
  <2> QED BY DEF Good, Fields
<1> HIDE DEF u, m, h, ev, all, g
<1>10. /\ u.row = s.row /\ u.col = s.col /\ u.top = s.top /\ u.bot = s.bot
       /\ u.saved = s.saved /\ u.cap = s.cap /\ u.view = s.view /\ u.tabs = s.tabs
       /\ u.savedCursor = s.savedCursor /\ u.last = s.last
  BY <1>9 DEF Fields
<1>11. Good(u) /\ Frame(s, u)
  <2>1. OnGrid(u) /\ Margins(u)
    BY <1>2, <1>9, <1>10 DEF Good, OnGrid, Margins, Same, Cols2
  <2>2. SavedOK(u)
    BY <1>2, <1>9, <1>10 DEF Good, SavedOK, OnAlt, Same
  <2>3. ListsOK(u)
    BY <1>7, <1>8, <1>9 DEF ListsOK
  <2>4. RestOK(u)
    BY <1>2, <1>9, <1>10 DEF Good, RestOK, Same
  <2>5. Good(u)
    BY <1>2, <1>9, <1>10, <2>1, <2>2, <2>3, <2>4 DEF Good, Same
  <2> QED BY <1>2, <1>80, <1>9, <1>10, <2>5 DEF Frame, Same
<1>12. ~OnAlt(s) => Keeps(s, u)
  <2>1. Looks(s, u)
    BY <1>2, <1>9 DEF Looks
  <2>2. ~OnAlt(s) => Hist(s, u)
    BY <1>5, <1>6, <1>7, <1>9 DEF Hist
  <2> QED BY <1>11, <2>1, <2>2 DEF Keeps
<1>13. Keeps(s, t)
  BY <1>3, GridKeeps
<1>14. ASSUME RegionIsFull(s), ~OnAlt(s), s.cap # 0 PROVE LinesMove(s, u, ev)
  <2> DEFINE L == Len(s.hist)
             R == s.grid.rows
             K == Len(h)
  <2>1. /\ L \in Nat /\ R \in Nat /\ R > 0 /\ K \in Nat /\ K = L + n - ev /\ ev \in Nat
        /\ Total(s) = L + R /\ Total(u) = K + R
    <3>1. Total(s) = L + R /\ Total(u) = K + R
      BY <1>2, <1>9 DEF Total, Same
    <3>2. K = L + n - ev /\ K \in Nat /\ ev \in Nat
      BY <1>5, <1>6, <1>7
    <3> QED BY <1>0, <3>1, <3>2
  <2> HIDE DEF L, R, K
  <2>2. \A i \in Nat : i < K => TagAt(u, i) = all[ev + i + 1].tag
    <3>1. \A i \in Nat : i < K => i + 1 \in 1 .. K /\ ev + (i + 1) = ev + i + 1
      BY <2>1
    <3> QED BY <1>7, <1>9, <3>1 DEF TagAt, K
  <2>3. \A i \in Nat : i < L => all[i + 1].tag = TagAt(s, i)
    <3>1. \A i \in Nat : i < L => i + 1 \in 1 .. L
      BY <2>1
    <3> QED BY <1>5, <3>1 DEF TagAt, L
  <2>4. \A i \in Nat : L <= i /\ i < L + n =>
          all[i + 1].tag = IF i < L + R THEN TagAt(s, i) ELSE {}
    <3> SUFFICES ASSUME NEW i \in Nat, L <= i, i < L + n
                 PROVE  all[i + 1].tag = IF i < L + R THEN TagAt(s, i) ELSE {}
      OBVIOUS
    <3> DEFINE k == i + 1 - L
    <3>1. k \in 1 .. n /\ L + k = i + 1 /\ k - 1 = i - L /\ (k <= R <=> i < L + R)
      BY <2>1, <1>4
    <3> HIDE DEF k
    <3>2. all[L + k] = HistoryLines(s.grid, n)[k]
      BY <1>5, <3>1 DEF L
    <3>3. HistoryLines(s.grid, n)[k].tag = IF k <= R THEN s.grid.line[k - 1].tag ELSE {}
      BY <1>0, <1>4, <3>1, PastLines DEF R
    <3>4. i < L + R => TagAt(s, i) = s.grid.line[i - L].tag
      BY <2>1 DEF TagAt, L
    <3> QED BY <3>1, <3>2, <3>3, <3>4
  <2>5. \A r \in Span(R) : up.line[r].tag =
          IF r + n < R THEN s.grid.line[r + n].tag ELSE {}
    <3>1. Least(s.grid.rows - 1, s.grid.rows - 1) = R - 1 /\ 0 <= R - 1
      BY <2>1 DEF Least, R
    <3>2. up.line = [r \in Span(s.grid.rows) |->
                   IF r < 0 \/ r > R - 1 THEN s.grid.line[r]
                   ELSE IF r + n <= R - 1 THEN s.grid.line[r + n]
                   ELSE BlankLine(s.grid.cols)]
      <4>1. DOMAIN s.grid = {"rows", "cols", "line", "dirty"}
        BY <1>0, GridIs DEF GridRec
      <4>2. ~(0 > R - 1)
        BY <2>1
      <4> QED BY <3>1, <4>1, <4>2 DEF ScrollRegionUp
    <3>3. \A r \in Span(R) : ~(r < 0 \/ r > R - 1) /\ (r + n <= R - 1 <=> r + n < R)
      BY <2>1, <1>4 DEF Span
    <3> HIDE DEF up
    <3> QED BY <3>2, <3>3, Blanks DEF R
  <2>6. \A i \in Nat : K <= i /\ i < K + R =>
          TagAt(u, i) = IF i + ev < L + R THEN TagAt(s, i + ev) ELSE {}
    <3> SUFFICES ASSUME NEW i \in Nat, K <= i, i < K + R
                 PROVE  TagAt(u, i) = IF i + ev < L + R THEN TagAt(s, i + ev) ELSE {}
      OBVIOUS
    <3> DEFINE r == i - K
    <3>1. /\ r \in Span(R) /\ (r + n < R <=> i + ev < L + R) /\ ~(i < K)
          /\ r + n = (i + ev) - L /\ ~(i + ev < L)
      BY <2>1, <1>4 DEF Span
    <3>2. TagAt(u, i) = up.line[r].tag
      <4> HIDE DEF up
      <4> QED BY <1>2, <1>9, <3>1 DEF TagAt, K
    <3>3. TagAt(s, i + ev) = s.grid.line[(i + ev) - L].tag
      BY <3>1 DEF TagAt, L
    <3> HIDE DEF r, up
    <3> QED BY <2>5, <3>1, <3>2, <3>3
  <2>7. ASSUME NEW i \in Span(Total(s)), i >= ev
        PROVE  i - ev \in Span(Total(u)) /\ TagAt(u, i - ev) = TagAt(s, i)
    <3>1. /\ i \in Nat /\ i < L + R /\ i - ev \in Nat /\ ev + (i - ev) + 1 = i + 1
          /\ (i - ev) + ev = i /\ i - ev < K + R /\ (i - ev < K <=> i < L + n)
      BY <1>4, <2>1, <2>7 DEF Span
    <3>2. i - ev \in Span(Total(u))
      BY <2>1, <3>1 DEF Span
    <3>3. CASE i - ev < K
      <4>1. TagAt(u, i - ev) = all[i + 1].tag
        BY <2>2, <3>1, <3>3
      <4>2. i < L \/ L <= i
        BY <2>1, <3>1
      <4> QED BY <2>3, <2>4, <3>1, <3>2, <3>3, <4>1, <4>2
    <3>4. CASE ~(i - ev < K)
      <4>1. K <= i - ev
        BY <2>1, <3>1, <3>4
      <4> QED BY <2>6, <3>1, <3>2, <4>1
    <3> QED BY <3>3, <3>4
  <2>8. ASSUME NEW j \in Span(Total(u)), j + ev \notin Span(Total(s))
        PROVE  TagAt(u, j) = {}
    <3>1. /\ j \in Nat /\ j < K + R /\ ~(j + ev < L + R) /\ ev + j + 1 = (j + ev) + 1
          /\ j + ev \in Nat /\ L <= j + ev /\ (j < K <=> j + ev < L + n)
      BY <1>4, <2>1, <2>8 DEF Span
    <3>2. CASE j < K
      <4>1. TagAt(u, j) = all[(j + ev) + 1].tag
        BY <2>2, <3>1, <3>2
      <4> QED BY <2>4, <3>1, <3>2, <4>1
    <3>3. CASE ~(j < K)
      <4>1. K <= j
        BY <2>1, <3>1, <3>3
      <4> QED BY <2>6, <3>1, <4>1
    <3> QED BY <3>2, <3>3
  <2> QED BY <2>7, <2>8 DEF LinesMove
<1>15. RegionIsFull(s) /\ ~OnAlt(s) /\ s.cap # 0 => Stays(s, u)
  <2> SUFFICES ASSUME RegionIsFull(s), ~OnAlt(s), s.cap # 0 PROVE Stays(s, u)
    OBVIOUS
  <2>1. RegionIsFull(u)
    BY <1>10, <1>2, <1>9 DEF RegionIsFull, Same
  <2>2. Shift(s, u, ev)
    BY <1>6, <1>7, <1>8, <1>9, <1>10, <1>14 DEF Shift
  <2> QED BY <1>6, <1>12, <2>1, <2>2 DEF Stays, Carries
<1>16. RegionIsFull(s) /\ (s.cap = 0 \/ OnAlt(s)) => Stays(s, t)
  <2>1. /\ t.hist = s.hist /\ t.marks = s.marks /\ t.top = s.top /\ t.bot = s.bot
        /\ t.grid = g
    BY DEF Good, Fields
  <2>2. RegionIsFull(s) => RegionIsFull(t)
    BY <1>2, <2>1 DEF RegionIsFull, Same
  <2> QED BY <1>13, <2>1, <2>2 DEF Stays, Carries
<1>17. t.col = s.col
  BY DEF Good, Fields
<1> HIDE DEF t
<1> QED BY <1>1, <1>10, <1>12, <1>13, <1>15, <1>16, <1>17

-----------------------------------------------------------------------------
(* Printing *)

(* The scrolling region stays, and only the whole screen scrolls into the  *)
(* scrollback.                                                             *)
Calm(s, t) == t.top = s.top /\ t.bot = s.bot /\ (~RegionIsFull(s) => t.hist = s.hist)

(* Text and cursor put into a screen are calm.                             *)
LEMMA PutCalm ==
  ASSUME NEW s, Good(s), NEW r, NEW c, NEW g, NEW x
  PROVE  /\ Calm(s, s) /\ Calm(s, [s EXCEPT !.row = r]) /\ Calm(s, [s EXCEPT !.col = c])
         /\ Calm(s, [s EXCEPT !.grid = g]) /\ Calm(s, [s EXCEPT !.grid = g, !.col = c])
         /\ Calm(s, [s EXCEPT !.last = x, !.grid = g])
         /\ Calm(s, [s EXCEPT !.col = c, !.grid = g])
  BY DEF Good, Fields, Calm

(* A scroll leaves the margins alone.                                      *)
LEMMA ScrollMargins ==
  ASSUME NEW s, Good(s), NEW n
  PROVE  ScrollIntoHistory(s, n).top = s.top /\ ScrollIntoHistory(s, n).bot = s.bot
<1> DEFINE g == Touch(ScrollRegionUp(s.grid, 0, s.grid.rows - 1, n))
           t == [s EXCEPT !.grid = g]
           all == s.hist \o HistoryLines(s.grid, n)
           ev == Minus(Len(all), s.cap)
           h == Suffix(all, Len(all) - ev)
           u == Reanchor([t EXCEPT !.hist = h], ev)
<1>1. ScrollIntoHistory(s, n) = IF s.cap = 0 \/ OnAlt(s) THEN t ELSE u
  BY DEF ScrollIntoHistory
<1> HIDE DEF g, h, ev
<1>2. t.top = s.top /\ t.bot = s.bot /\ DOMAIN t = Fields
  BY DEF Good, Fields
<1> HIDE DEF t
<1>3. u.top = t.top /\ u.bot = t.bot
  BY <1>2 DEF Reanchor, Fields
<1> QED BY <1>1, <1>2, <1>3

(* SU and the scroll of a line feed, for any margins.                      *)
LEMMA RegionUpStays ==
  ASSUME NEW s, Good(s), NEW n \in Nat \ {0}
  PROVE  /\ Keeps(s, RegionUp(s, n))
         /\ RegionIsFull(s) => Stays(s, RegionUp(s, n))
         /\ RegionUp(s, n).col = s.col /\ Calm(s, RegionUp(s, n))
<1>1. Rolled(s.grid, ScrollRegionUp(s.grid, s.top, s.bot, n))
  BY GoodGrid, ScrollRolls
<1>2. Keeps(s, [s EXCEPT !.grid = ScrollRegionUp(@, s.top, s.bot, n)])
  BY <1>1, GridKeeps
<1>3. [s EXCEPT !.grid = ScrollRegionUp(@, s.top, s.bot, n)].col = s.col
  BY DEF Good, Fields
<1>4. Calm(s, RegionUp(s, n))
  <2>1. CASE RegionIsFull(s)
    <3>1. /\ ScrollIntoHistory(s, n).top = s.top
          /\ ScrollIntoHistory(s, n).bot = s.bot
      BY ScrollMargins
    <3> QED BY <2>1, <3>1 DEF Calm, RegionUp
  <2>2. CASE ~RegionIsFull(s)
    BY <2>2, PutCalm DEF RegionUp
  <2> QED BY <2>1, <2>2
<1> QED BY <1>2, <1>3, <1>4, ScrollStays DEF RegionUp

(* A screen whose scrolling region is a part of it may move lines, and the *)
(* steps that follow say nothing of anchors; else they carry them.         *)
Goes(s, t) == Keeps(s, t) /\ Calm(s, t) /\ (RegionIsFull(s) => Stays(s, t))

(* Text may follow text.                                                   *)
LEMMA GoesTrans ==
  ASSUME NEW s, NEW t, NEW u, Good(s), Goes(s, t), Goes(t, u)
  PROVE  Goes(s, u)
<1>1. Keeps(s, u)
  BY KeepsTrans DEF Goes
<1>2. RegionIsFull(s) => RegionIsFull(t)
  BY DEF Goes, Stays, Carries
<1>3. Calm(s, u)
  <2>1. RegionIsFull(t) <=> RegionIsFull(s)
    BY DEF Goes, Calm, Keeps, Frame, RegionIsFull
  <2> QED BY <2>1 DEF Goes, Calm
<1> QED BY <1>1, <1>2, <1>3, StaysTrans DEF Goes

(* What carries the text and is calm may follow text.                      *)
LEMMA StaysGoes == ASSUME NEW s, NEW t, Stays(s, t), Calm(s, t) PROVE Goes(s, t) /\ Good(t)
  BY DEF Goes, Stays, Keeps

(* LF, wherever the cursor is.                                             *)
LEMMA NewlineGoes ==
  ASSUME NEW s, Good(s) PROVE Goes(s, Newline(s)) /\ Newline(s).col = s.col
<1>1. Goes(s, RegionUp(s, 1)) /\ Goes(s, s)
  <2>1. Goes(s, s)
    BY StaysSame, PutCalm, StaysGoes
  <2>2. 1 \in Nat \ {0}
    OBVIOUS
  <2> QED BY <2>1, <2>2, RegionUpStays DEF Goes
<1>2. s.row + 1 < s.grid.rows => Goes(s, [s EXCEPT !.row = @ + 1])
  <2>1. s.row + 1 < s.grid.rows => s.row + 1 \in Span(s.grid.rows)
    BY GoodGrid DEF Span
  <2> QED BY <2>1, MoveStays, PutCalm, StaysGoes
<1>3. [s EXCEPT !.row = @ + 1].col = s.col /\ RegionUp(s, 1).col = s.col
  BY RegionUpStays DEF Good, Fields
<1> QED BY <1>1, <1>2, <1>3 DEF Newline

(* The wrap of a full row: the cursor is at the start of a row.            *)
LEMMA SoftWrapGoes ==
  ASSUME NEW s, Good(s) PROVE Goes(s, SoftWrap(s)) /\ Good(SoftWrap(s)) /\ SoftWrap(s).col = 0
<1> DEFINE t == [s EXCEPT !.grid = SetWrapped(@, s.row), !.col = 0]
<1>1. Stays(s, t)
  <2>1. Edited(s.grid, SetWrapped(s.grid, s.row)) /\ 0 \in Nat /\ 0 <= Cols2(s)
    BY GoodGrid, WrapEdits
  <2> QED BY <2>1, GridStays
<1>2. t.col = 0 /\ Calm(s, t)
  BY PutCalm DEF Good, Fields
<1>3. SoftWrap(s) = Newline(t)
  BY DEF SoftWrap
<1> HIDE DEF t
<1>4. Good(t) /\ Goes(s, t) /\ Goes(t, Newline(t))
  BY <1>1, <1>2, StaysGoes, NewlineGoes
<1>5. Newline(t).col = 0
  BY <1>2, <1>4, NewlineGoes
<1>6. Good(Newline(t))
  BY <1>4 DEF Goes, Keeps
<1> QED BY <1>3, <1>4, <1>5, <1>6, GoesTrans

(* Printing: the cursor may end one past the last column, or two past the  *)
(* only one.                                                               *)
LEMMA PrintGoes ==
  ASSUME NEW s, Good(s), NEW x \in Glyphs PROVE Goes(s, PrintChar(s, x))
<1> DEFINE cols == s.grid.cols
           w  == Width(x)
           g1 == IF s.insert /\ s.col < cols THEN InsertBlanks(s.grid, s.row, s.col, w)
                 ELSE s.grid
           s1 == [s EXCEPT !.last = <<x>>, !.grid = g1]
           s2 == IF s1.col < cols THEN s1
                 ELSE IF s1.autowrap THEN SoftWrap(s1)
                 ELSE [s1 EXCEPT !.col = cols - 1]
           s3 == IF w = 2 /\ s2.col + 1 >= cols THEN SoftWrap(s2) ELSE s2
           g(s4) == SetCell(s4.grid, s4.row, s4.col, Plain(x))
           h(s4) == IF w = 2 THEN SetCell(g(s4), s4.row, s4.col + 1, Spacer) ELSE g(s4)
           put(s4) == [s4 EXCEPT !.col = @ + w, !.grid = h(s4)]
<1>1. PrintChar(s, x) = IF w = 2 /\ s2.col + 1 >= cols /\ ~s2.autowrap
                        THEN s2 ELSE put(s3)
  BY ZenonT(60) DEF PrintChar
<1>2. cols \in Nat \ {0} /\ w \in {1, 2} /\ Plain(x) \in Cell /\ Spacer \in Cell
  BY GoodGrid, Blanks DEF Width
<1> HIDE DEF w
<1>3. Edited(s.grid, g1)
  <2>1. Edited(s.grid, s.grid)
    BY DEF Good, Edited, Same, SameTags, Painted, SameChars
  <2>2. Edited(s.grid, InsertBlanks(s.grid, s.row, s.col, w))
    BY <1>2, GoodGrid, RowEdits
  <2> QED BY <2>1, <2>2
<1> HIDE DEF g1
<1>4. Stays(s, s1) /\ s1.grid.cols = cols
  <2>1. /\ DOMAIN s1 = Fields /\ s1.grid = g1 /\ s1.last = <<x>>
        /\ \A f \in Fields \ {"grid", "last"} : s1[f] = s[f]
    BY DEF Good, Fields
  <2> HIDE DEF s1
  <2>2. /\ s1.row = s.row /\ s1.col = s.col /\ s1.cap = s.cap /\ s1.view = s.view
        /\ s1.tabs = s.tabs /\ s1.savedCursor = s.savedCursor
    BY <2>1 DEF Fields
  <2>3. Apart(s, s1, {"grid", "row", "col", "tabs", "last", "savedCursor",
                      "autowrap", "insert", "origin", "reverse"})
    BY <2>1 DEF Apart
  <2>4. Rolled(s.grid, s1.grid) /\ SameTags(s.grid, s1.grid)
    BY <1>3, <2>1 DEF Edited, Rolled
  <2>5. OnGrid(s1)
    BY <2>2, <2>4 DEF Good, OnGrid, Rolled, Same, Cols2
  <2>6. RestOK(s1)
    BY <2>1, <2>2, <2>4 DEF Good, RestOK, Rolled, Same
  <2> QED BY <2>3, <2>4, <2>5, <2>6, KeepsFrom DEF Rolled, Same
<1>14. Calm(s, s1)
  BY PutCalm
<1> HIDE DEF s1
<1>5. Good(s1) /\ Goes(s, s1)
  BY <1>4, <1>14, StaysGoes
<1>6. Goes(s1, s2) /\ s2.col < cols
  <2>1. CASE s1.col < cols
    BY <1>5, <2>1, StaysSame, PutCalm, StaysGoes
  <2>2. CASE ~(s1.col < cols) /\ s1.autowrap
    BY <1>2, <1>5, <2>2, SoftWrapGoes
  <2>3. CASE ~(s1.col < cols) /\ ~s1.autowrap
    <3>1. cols - 1 \in Nat /\ cols - 1 <= Cols2(s1)
      BY <1>2, <1>4, <1>5, GoodGrid
    <3>2. Stays(s1, [s1 EXCEPT !.col = cols - 1])
      BY <1>5, <3>1, MoveStays
    <3>3. [s1 EXCEPT !.col = cols - 1].col = cols - 1
      BY <1>5 DEF Good, Fields
    <3>4. Calm(s1, [s1 EXCEPT !.col = cols - 1])
      BY <1>5, PutCalm
    <3> HIDE DEF cols
    <3> QED BY <1>2, <2>3, <3>2, <3>3, <3>4, StaysGoes
  <2> QED BY <2>1, <2>2, <2>3
<1> HIDE DEF s2
<1>7. Good(s2) /\ s2.grid.cols = cols
  BY <1>4, <1>6 DEF Goes, Keeps, Frame
<1>8. Goes(s2, s3) /\ s3.col + w <= Most(cols, 2)
  <2>0. s2.col \in Nat
    BY <1>7, GoodGrid
  <2>1. CASE w = 2 /\ s2.col + 1 >= cols
    BY <1>2, <1>7, <2>1, SoftWrapGoes DEF Most
  <2>2. CASE ~(w = 2 /\ s2.col + 1 >= cols)
    <3> HIDE DEF cols
    <3>1. s2.col + w <= Most(cols, 2)
      BY <1>2, <1>6, <2>0, <2>2 DEF Most
    <3> QED BY <1>7, <2>2, <3>1, StaysSame, PutCalm, StaysGoes
  <2> QED BY <2>1, <2>2
<1> HIDE DEF s3
<1>9. Good(s3) /\ s3.grid.cols = cols
  BY <1>7, <1>8 DEF Goes, Keeps, Frame
<1>15. Calm(s3, put(s3))
  <2> HIDE DEF h
  <2> QED BY <1>9, PutCalm
<1>10. Stays(s3, put(s3))
  <2>1. /\ GridOK(s3.grid) /\ s3.row \in Nat /\ s3.col \in Nat /\ s3.col + 1 \in Nat
        /\ s3.col + w \in Nat /\ s3.col + w <= Cols2(s3)
    BY <1>2, <1>8, <1>9, GoodGrid DEF Cols2
  <2>2. Edited(s3.grid, g(s3))
    BY <1>2, <2>1, SetCellEdits
  <2>3. Edited(s3.grid, h(s3))
    <3> DEFINE k == g(s3)
    <3>1. GridOK(k)
      BY <2>2 DEF Edited, Same
    <3> HIDE DEF k
    <3>2. Edited(k, SetCell(k, s3.row, s3.col + 1, Spacer))
      BY <1>2, <2>1, <3>1, SetCellEdits
    <3> DEFINE m == SetCell(k, s3.row, s3.col + 1, Spacer)
    <3> HIDE DEF m
    <3>3. Edited(s3.grid, k) /\ Edited(k, m)
      BY <2>2, <3>2 DEF k, m
    <3>4. Edited(s3.grid, m)
      BY <3>3 DEF Edited, Same, SameTags, Painted, SameChars
    <3> QED BY <3>3, <3>4 DEF k, m
  <2> DEFINE k == h(s3)
             c == s3.col + w
  <2>4. put(s3) = [s3 EXCEPT !.grid = k, !.col = c]
    <3> HIDE DEF h
    <3> QED OBVIOUS
  <2>5. Edited(s3.grid, k) /\ c \in Nat /\ c <= Cols2(s3)
    BY <2>1, <2>3
  <2> HIDE DEF k, c, put
  <2>6. Stays(s3, [s3 EXCEPT !.grid = k, !.col = c])
    BY <1>9, <2>5, GridStays
  <2> QED BY <2>4, <2>6
<1> HIDE DEF put
<1>11. Goes(s, s2)
  BY <1>5, <1>6, GoesTrans
<1>12. Goes(s, s3)
  BY <1>8, <1>11, GoesTrans
<1>13. Goes(s, put(s3))
  BY <1>10, <1>12, <1>15, GoesTrans, StaysGoes
<1> QED BY <1>1, <1>11, <1>13

(* REP: the characters are printed one after the other.                    *)
LEMMA RepeatGoes == ASSUME NEW s, Good(s), NEW n \in Nat PROVE Goes(s, Repeat(s, n))
<1> DEFINE x == s.last[1]
           Eq(f, k) == f = [i \in 0 .. k |-> IF i = 0 THEN s ELSE PrintChar(f[i - 1], x)]
           P == CHOOSE f : Eq(f, n)
           Has(f, k) == f[0] = s /\ \A i \in 1 .. k : f[i] = PrintChar(f[i - 1], x)
           E == {k \in Nat : \E f : f = [i \in 0 .. k |-> f[i]] /\ Has(f, k)}
<1>1. CASE s.last = <<>>
  BY <1>1, StaysSame, PutCalm, StaysGoes DEF Repeat
<1>2. CASE s.last # <<>>
  <2>1. x \in Glyphs
    BY <1>2 DEF Good, RestOK
  <2>2. Repeat(s, n) = P[n]
    BY <1>2, ZenonT(60) DEF Repeat
  <2> HIDE DEF x
  <2>3. 0 \in E
    <3> DEFINE f == [i \in 0 .. 0 |-> s]
    <3>1. f = [i \in 0 .. 0 |-> f[i]] /\ Has(f, 0)
      OBVIOUS
    <3> HIDE DEF f, Has
    <3> QED BY <3>1
  <2>4. ASSUME NEW k \in Nat, k \in E PROVE k + 1 \in E
    <3>1. PICK f : f = [i \in 0 .. k |-> f[i]] /\ Has(f, k)
      BY <2>4
    <3> DEFINE h == [i \in 0 .. k + 1 |-> IF i <= k THEN f[i] ELSE PrintChar(f[k], x)]
    <3>2. h = [i \in 0 .. k + 1 |-> h[i]]
      OBVIOUS
    <3>3. h[0] = s
      BY <3>1
    <3>4. ASSUME NEW i \in 1 .. k + 1 PROVE h[i] = PrintChar(h[i - 1], x)
      <4>1. h[i - 1] = f[i - 1] /\ (i \in 1 .. k \/ i = k + 1)
        OBVIOUS
      <4>2. CASE i \in 1 .. k
        <5>1. h[i] = f[i] /\ i \in 1 .. k
          BY <4>2
        <5> HIDE DEF h
        <5> QED BY <3>1, <4>1, <5>1
      <4>3. CASE i = k + 1
        <5>1. h[i] = PrintChar(f[k], x) /\ i - 1 = k
          BY <4>3
        <5> HIDE DEF h
        <5> QED BY <4>1, <5>1
      <4> QED BY <4>1, <4>2, <4>3
    <3> HIDE DEF h
    <3>5. Has(h, k + 1) /\ k + 1 \in Nat
      BY <3>3, <3>4
    <3> HIDE DEF Has
    <3> QED BY <3>2, <3>5
  <2> HIDE DEF E
  <2>5. n \in E
    BY <2>3, <2>4, SetInduction
  <2>6. PICK f : f = [i \in 0 .. n |-> f[i]] /\ Has(f, n)
    BY <2>5 DEF E
  <2>7. Eq(f, n)
    <3>1. \A i \in 0 .. n : f[i] = IF i = 0 THEN s ELSE PrintChar(f[i - 1], x)
      <4>1. \A i \in 0 .. n : i = 0 \/ i \in 1 .. n
        OBVIOUS
      <4>2. \A i \in 1 .. n : i # 0
        OBVIOUS
      <4> QED BY <2>6, <4>1, <4>2
    <3>2. DOMAIN f = 0 .. n
      BY <2>6
    <3> QED BY <2>6, <3>1, <3>2
  <2>8. Eq(P, n)
    <3> HIDE DEF Eq
    <3> QED BY <2>7
  <2> HIDE DEF P
  <2>9. P[0] = s /\ \A i \in 1 .. n : P[i] = PrintChar(P[i - 1], x)
    <3>1. 0 \in 0 .. n /\ \A i \in 1 .. n : i \in 0 .. n /\ i # 0
      OBVIOUS
    <3> QED BY <2>8, <3>1
  <2> HIDE DEF Eq
  <2> DEFINE S == {i \in Nat : i <= n => Goes(s, P[i])}
  <2>10. 0 \in S
    BY <2>9, StaysSame, PutCalm, StaysGoes
  <2>11. ASSUME NEW i \in Nat, i \in S PROVE i + 1 \in S
    <3> SUFFICES ASSUME i + 1 <= n PROVE Goes(s, P[i + 1])
      OBVIOUS
    <3>1. i <= n /\ i + 1 \in 1 .. n /\ (i + 1) - 1 = i
      OBVIOUS
    <3>2. Goes(s, P[i]) /\ P[i + 1] = PrintChar(P[i], x)
      BY <2>9, <2>11, <3>1
    <3>3. Good(P[i])
      BY <3>2 DEF Goes, Keeps
    <3> QED BY <2>1, <3>2, <3>3, PrintGoes, GoesTrans
  <2> HIDE DEF S
  <2>12. n \in S
    BY <2>10, <2>11, SetInduction
  <2> QED BY <2>2, <2>12 DEF S
<1> QED BY <1>1, <1>2

-----------------------------------------------------------------------------
(* Resizing *)

(* What a resize of the primary screen gives.                              *)
Sized(s, t, rows, cols) ==
  /\ Good(t) /\ t.saved = s.saved /\ t.cap = s.cap /\ t.marks = s.marks
  /\ t.grid.rows = rows /\ t.grid.cols = cols /\ IsDamaged(t.grid)
  /\ Len(s.hist) <= s.cap /\ s.view <= Len(s.hist) =>
       Len(t.hist) <= t.cap /\ t.view <= Len(t.hist)

(* The rows a reflow reads: the scrollback brought to the width of the     *)
(* grid, then the grid; the cursor is on one of them.                      *)
LEMMA InputIs ==
  ASSUME NEW s, Good(s)
  PROVE  InputOK(Input(s.hist, s.grid, s.row, s.col))
<1> DEFINE h == Len(s.hist)
           oc == s.grid.cols
           wide(i) == [s.hist[i + 1] EXCEPT !.cells = [c \in Span(oc) |->
                         IF c \in DOMAIN s.hist[i + 1].cells
                         THEN s.hist[i + 1].cells[c] ELSE BlankCell]]
           p == [i \in Span(h + s.grid.rows) |->
                   IF i < h THEN wide(i) ELSE s.grid.line[i - h]]
           x == Input(s.hist, s.grid, s.row, s.col)
<1>1. /\ h \in Nat /\ s.hist \in Seq(AnyLine) /\ s.grid.rows \in Nat \ {0} /\ oc \in Nat \ {0}
      /\ s.row \in Nat /\ s.col \in Nat /\ s.row < s.grid.rows
      /\ s.grid.line \in [Span(s.grid.rows) -> Line(oc)]
  BY GoodGrid, TotalNat DEF Good, ListsOK, GridOK
<1>2. /\ x.n = h + s.grid.rows /\ x.oc = oc /\ x.p = p
      /\ x.cr = h + Least(s.row, s.grid.rows - 1) /\ x.cc = Least(s.col, oc)
  BY DEF Input
<1>3. ASSUME NEW i \in Span(h + s.grid.rows), i < h PROVE wide(i) \in Line(oc)
  <2>1. s.hist[i + 1] \in AnyLine
    BY <1>1, <1>3 DEF Span
  <2>2. PICK w \in Nat \ {0} : s.hist[i + 1] \in Line(w)
    BY <2>1 DEF AnyLine
  <2> QED BY <2>2, Blanks DEF Line
<1>4. ASSUME NEW i \in Span(h + s.grid.rows), ~(i < h) PROVE s.grid.line[i - h] \in Line(oc)
  <2>1. i - h \in Span(s.grid.rows)
    BY <1>1, <1>4 DEF Span
  <2> QED BY <1>1, <2>1
<1> HIDE DEF wide
<1>5. p \in [Span(h + s.grid.rows) -> Line(oc)]
  BY <1>3, <1>4
<1> HIDE DEF p, x, h, oc
<1>6. InputOK(x)
  BY <1>1, <1>2, <1>5 DEF InputOK, Least
<1> QED BY <1>6 DEF x

(* The tab stops follow the number of columns.                             *)
LEMMA TabsOf ==
  ASSUME NEW s, Good(s), NEW t, DOMAIN t = Fields, NEW cols
  PROVE  LET u == ResizeTabs(t, cols)
         IN  DOMAIN u = Fields /\ DOMAIN u.tabs = Span(cols) /\ \A f \in Fields \ {"tabs"} : u[f] = t[f]
<1> DEFINE tabs == [c \in Span(cols) |->
                      IF c \in DOMAIN t.tabs THEN t.tabs[c] ELSE c % TabInterval = 0]
           u == [t EXCEPT !.tabs = tabs]
<1>1. ResizeTabs(t, cols) = u /\ DOMAIN tabs = Span(cols)
  BY DEF ResizeTabs
<1> HIDE DEF tabs
<1>2. DOMAIN u = Fields /\ u.tabs = tabs /\ \A f \in Fields \ {"tabs"} : u[f] = t[f]
  BY DEF Fields
<1> QED BY <1>1, <1>2

(* The margins are brought back onto the resized grid.                     *)
LEMMA FitSized ==
  ASSUME NEW s, Good(s), ~OnAlt(s), NEW rows \in Nat \ {0}, NEW cols \in Nat \ {0},
         NEW t, DOMAIN t = Fields, t.saved = s.saved, t.cap = s.cap, t.marks = s.marks,
         t.top = s.top, t.bot = s.bot, t.savedCursor = s.savedCursor, t.last = s.last,
         GridOK(t.grid), t.grid.rows = rows, t.grid.cols = cols, IsDamaged(t.grid),
         DOMAIN t.tabs = Span(cols), t.row \in Span(rows), t.col \in Span(cols),
         t.hist \in Seq(AnyLine), t.view \in Nat,
         Len(s.hist) <= s.cap /\ s.view <= Len(s.hist) =>
           Len(t.hist) <= t.cap /\ t.view <= Len(t.hist)
  PROVE  Sized(s, FitMargins(s, t, rows), rows, cols)
<1> DEFINE full == \/ RegionIsFull(s)
                   \/ t.bot + 1 >= t.grid.rows
                   \/ t.bot = 0
           u == IF full \/ t.top > Least(t.bot, rows - 1)
                THEN [t EXCEPT !.top = 0, !.bot = rows - 1]
                ELSE [t EXCEPT !.bot = Least(@, rows - 1)]
<1>1. FitMargins(s, t, rows) = u
  BY DEF FitMargins
<1>2. /\ DOMAIN u = Fields /\ \A f \in Fields \ {"top", "bot"} : u[f] = t[f]
      /\ \/ u.top = 0 /\ u.bot = rows - 1
         \/ u.top = t.top /\ u.bot = Least(t.bot, rows - 1) /\ ~(t.top > Least(t.bot, rows - 1))
  BY DEF Fields
<1> HIDE DEF u
<1>3. /\ u.grid = t.grid /\ u.row = t.row /\ u.col = t.col /\ u.saved = t.saved
      /\ u.savedCursor = t.savedCursor /\ u.hist = t.hist /\ u.cap = t.cap
      /\ u.view = t.view /\ u.marks = t.marks /\ u.tabs = t.tabs /\ u.last = t.last
  BY <1>2 DEF Fields
<1>4. s.top \in Nat /\ s.bot \in Nat
  BY GoodGrid
<1>5. Margins(u)
  BY <1>2, <1>3, <1>4 DEF Margins, Least
<1>6. OnGrid(u)
  BY <1>3 DEF OnGrid, Cols2, Most, Span
<1>7. SavedOK(u) /\ ~OnAlt(u)
  BY <1>3 DEF SavedOK, OnAlt
<1>8. ListsOK(u) /\ RestOK(u)
  BY <1>3 DEF ListsOK, RestOK, Good
<1>9. Good(u)
  BY <1>2, <1>3, <1>5, <1>6, <1>7, <1>8 DEF Good
<1> QED BY <1>1, <1>3, <1>9 DEF Sized

(* A resize that keeps the width.                                          *)
LEMMA PlainSized ==
  ASSUME NEW s, Good(s), ~OnAlt(s), NEW rows \in Nat \ {0}, NEW cols \in Nat \ {0}
  PROVE  Sized(s, FitMargins(s, PlainResize(s, rows, cols), rows), rows, cols)
<1> DEFINE g == ResizeGrid(s.grid, rows, cols)
           r == Least(s.row, rows - 1)
           c == Least(s.col, cols - 1)
           t == [s EXCEPT !.grid = g, !.row = r, !.col = c]
           u == ResizeTabs(t, cols)
<1>1. /\ PlainResize(s, rows, cols) = u /\ DOMAIN s = Fields
  BY DEF PlainResize, Good
<1>2. GridOK(g) /\ g.rows = rows /\ g.cols = cols /\ IsDamaged(g)
  BY ResizeGridOK DEF Good
<1>3. r \in Span(rows) /\ c \in Span(cols)
  BY GoodGrid DEF Least, Span
<1> HIDE DEF g, r, c
<1>4. DOMAIN t = Fields /\ t.grid = g /\ t.row = r /\ t.col = c
      /\ \A f \in Fields \ {"grid", "row", "col"} : t[f] = s[f]
  BY <1>1 DEF Fields
<1> HIDE DEF t
<1>5. DOMAIN u = Fields /\ DOMAIN u.tabs = Span(cols) /\ \A f \in Fields \ {"tabs"} : u[f] = t[f]
  BY <1>4, TabsOf
<1> HIDE DEF u
<1>6. /\ u.saved = s.saved /\ u.cap = s.cap /\ u.marks = s.marks /\ u.top = s.top
      /\ u.bot = s.bot /\ u.savedCursor = s.savedCursor /\ u.last = s.last
      /\ u.hist = s.hist /\ u.view = s.view /\ u.grid = g /\ u.row = r /\ u.col = c
  BY <1>4, <1>5 DEF Fields
<1>7. s.hist \in Seq(AnyLine) /\ s.view \in Nat
  BY DEF Good, ListsOK, RestOK
<1> QED BY <1>1, <1>2, <1>3, <1>5, <1>6, <1>7, FitSized

(* A resize that changes the width: the layout, whatever it is, is cut     *)
(* into a scrollback within its cap and a grid.                            *)
LEMMA ReflowSized ==
  ASSUME NEW s, Good(s), ~OnAlt(s), NEW rows \in Nat \ {0}, NEW cols \in Nat \ {0}
  PROVE  Sized(s, FitMargins(s, ReflowResize(s, rows, cols), rows), rows, cols)
<1> DEFINE l == Layout(Input(s.hist, s.grid, s.row, s.col), rows, cols)
           k == Least(l.start, s.cap)
           h == [i \in 1 .. k |-> l.rows[l.start - k + i - 1]]
           lines == [r \in Span(rows) |-> IF l.start + r < l.total
                                          THEN l.rows[l.start + r] ELSE BlankLine(cols)]
           g == [NewGrid(rows, cols) EXCEPT !.line = lines]
           t == [s EXCEPT !.hist = h, !.grid = g, !.row = l.row, !.col = l.col, !.view = 0]
           u == ResizeTabs(t, cols)
<1>1. ReflowResize(s, rows, cols) = u /\ DOMAIN s = Fields /\ s.cap \in Nat
  BY ZenonT(60) DEF ReflowResize, Rebuilt, Good, RestOK
<1>2. LayoutOK(l, rows, cols)
  BY InputIs, LayoutIs
<1> HIDE DEF l
<1>3. k \in Nat /\ k <= l.start /\ k <= s.cap /\ l.start \in Nat /\ l.total \in Nat /\ l.start <= l.total
  BY <1>1, <1>2 DEF LayoutOK, Least
<1> HIDE DEF k
<1>4. h \in Seq(AnyLine) /\ Len(h) = k
  <2>1. ASSUME NEW i \in 1 .. k PROVE l.rows[l.start - k + i - 1] \in AnyLine
    <3>1. l.start - k + i - 1 \in Span(l.total)
      BY <1>3 DEF Span
    <3>2. l.rows[l.start - k + i - 1] \in Line(cols)
      BY <1>2, <3>1 DEF LayoutOK
    <3> QED BY <3>2, LineAny
  <2> QED BY <1>3, <2>1
<1>5. lines \in [Span(rows) -> Line(cols)]
  <2>1. ASSUME NEW r \in Span(rows), l.start + r < l.total
        PROVE  l.rows[l.start + r] \in Line(cols)
    <3>1. l.start + r \in Span(l.total)
      BY <1>3, <2>1 DEF Span
    <3> QED BY <1>2, <3>1 DEF LayoutOK
  <2> QED BY <2>1, Blanks
<1> HIDE DEF h, lines
<1>6. GridOK(g) /\ g.rows = rows /\ g.cols = cols /\ IsDamaged(g)
  BY <1>5, NewGridOK
<1> HIDE DEF g
<1>7. DOMAIN t = Fields /\ t.grid = g /\ t.row = l.row /\ t.col = l.col /\ t.hist = h /\ t.view = 0
      /\ \A f \in Fields \ {"grid", "row", "col", "hist", "view"} : t[f] = s[f]
  BY <1>1 DEF Fields
<1> HIDE DEF t
<1>8. DOMAIN u = Fields /\ DOMAIN u.tabs = Span(cols) /\ \A f \in Fields \ {"tabs"} : u[f] = t[f]
  BY <1>7, TabsOf
<1> HIDE DEF u
<1>9. /\ u.saved = s.saved /\ u.cap = s.cap /\ u.marks = s.marks /\ u.top = s.top
      /\ u.bot = s.bot /\ u.savedCursor = s.savedCursor /\ u.last = s.last
      /\ u.hist = h /\ u.view = 0 /\ u.grid = g /\ u.row = l.row /\ u.col = l.col
  BY <1>7, <1>8 DEF Fields
<1>10. l.row \in Span(rows) /\ l.col \in Span(cols)
  BY <1>2 DEF LayoutOK
<1>11. Len(u.hist) <= u.cap /\ u.view <= Len(u.hist)
  BY <1>3, <1>4, <1>9
<1> QED BY <1>1, <1>4, <1>6, <1>8, <1>9, <1>10, <1>11, FitSized

(* Terminal::resize on the primary screen: a well formed screen of the     *)
(* dimensions asked for, whatever was on it.                               *)
LEMMA ResizeSized ==
  ASSUME NEW s, Good(s), ~OnAlt(s), NEW rows \in Nat \ {0}, NEW cols \in Nat \ {0}
  PROVE  Sized(s, Resize(s, rows, cols), rows, cols)
<1>1. Resize(s, rows, cols) \in {FitMargins(s, PlainResize(s, rows, cols), rows),
                                 FitMargins(s, ReflowResize(s, rows, cols), rows)}
  BY ZenonT(60) DEF Resize
<1> QED BY <1>1, PlainSized, ReflowSized

-----------------------------------------------------------------------------
(* What is shown *)

(* The lines of a screen, one by one.                                      *)
LEMMA LinesParts ==
  ASSUME NEW s, Good(s)
  PROVE  /\ Len(LinesOf(s)) = Total(s) /\ DOMAIN LinesOf(s) = 1 .. Total(s)
         /\ \A i \in Span(Total(s)) :
              /\ LinesOf(s)[i + 1] = IF i < Len(s.hist) THEN s.hist[i + 1]
                                     ELSE s.grid.line[i - Len(s.hist)]
              /\ LinesOf(s)[i + 1].tag = TagAt(s, i)
<1> DEFINE q == [i \in 1 .. s.grid.rows |-> s.grid.line[i - 1]]
           h == s.hist
<1>1. h \in Seq(AnyLine) /\ Len(h) \in Nat /\ s.grid.rows \in Nat \ {0}
  BY GoodGrid, TotalNat DEF Good, ListsOK
<1>2. q \in Seq(AnyLine) /\ Len(q) = s.grid.rows /\ \A i \in 1 .. s.grid.rows : q[i] = s.grid.line[i - 1]
  <2>1. ASSUME NEW i \in 1 .. s.grid.rows PROVE s.grid.line[i - 1] \in AnyLine
    <3>1. i - 1 \in Span(s.grid.rows)
      BY <1>1 DEF Span
    <3>2. s.grid.line[i - 1] \in Line(s.grid.cols) /\ s.grid.cols \in Nat \ {0}
      BY <3>1 DEF Good, GridOK
    <3> QED BY <3>2, LineAny
  <2> QED BY SMTT(30), <1>1, <2>1
<1>3. LinesOf(s) = h \o q
  BY DEF LinesOf
<1> HIDE DEF q, h
<1>4. /\ h \o q \in Seq(AnyLine) /\ Len(h \o q) = Len(h) + Len(q)
      /\ \A i \in 1 .. Len(h) : (h \o q)[i] = h[i]
      /\ \A i \in 1 .. Len(q) : (h \o q)[Len(h) + i] = q[i]
  <2>1. h \in Seq(AnyLine) /\ q \in Seq(AnyLine)
    BY <1>1, <1>2
  <2> QED BY ONLY <2>1, ConcatParts
<1>5. Len(h \o q) = Total(s) /\ DOMAIN (h \o q) = 1 .. Total(s)
  BY <1>2, <1>4 DEF Total, h
<1>6. ASSUME NEW i \in Span(Total(s))
      PROVE  (h \o q)[i + 1] = IF i < Len(h) THEN h[i + 1] ELSE s.grid.line[i - Len(h)]
  <2>1. i \in Nat /\ i < Len(h) + s.grid.rows
    BY <1>1 DEF Span, Total, h
  <2>2. CASE i < Len(h)
    BY <1>1, <1>4, <2>1, <2>2
  <2>3. CASE ~(i < Len(h))
    <3> DEFINE j == i + 1 - Len(h)
    <3>1. j \in 1 .. Len(q) /\ i + 1 = Len(h) + j /\ j - 1 = i - Len(h)
      BY <1>1, <1>2, <2>1, <2>3
    <3>2. (h \o q)[i + 1] = q[j]
      BY <1>4, <3>1
    <3> QED BY <1>2, <2>3, <3>1, <3>2
  <2> QED BY <2>2, <2>3
<1> QED BY <1>3, <1>5, <1>6 DEF h, TagAt

(* What the window shows: a function of the cells of the scrollback, the   *)
(* characters of the grid, and the view.                                   *)
SameCells(h, k) == Len(k) = Len(h) /\ \A i \in DOMAIN h : k[i].cells = h[i].cells

(* It shows the same when these are the same.                              *)
LEMMA VisibleSame ==
  ASSUME NEW s, Good(s), NEW t, Good(t), t.view = s.view,
         t.grid.rows = s.grid.rows, t.grid.cols = s.grid.cols,
         SameCells(s.hist, t.hist), SameChars(s.grid, t.grid)
  PROVE  Visible(t) = Visible(s)
<1> DEFINE text(u, i, c) == IF i <= EndShown(u) /\ c \in DOMAIN LinesOf(u)[i].cells
                            THEN LinesOf(u)[i].cells[c].ch ELSE Blank
           at(u, r, c) == text(u, FirstShown(u) + r + 1, c)
           R == Span(s.grid.rows)
           C == Span(s.grid.cols)
<1>1. /\ Visible(s) = [r \in R |-> [c \in C |-> at(s, r, c)]]
      /\ Visible(t) = [r \in R |-> [c \in C |-> at(t, r, c)]]
  BY ZenonT(60) DEF Visible
<1>2. /\ Total(s) = Total(t) /\ Total(s) \in Nat /\ Len(s.hist) = Len(t.hist) /\ Len(s.hist) \in Nat
      /\ s.view \in Nat /\ s.grid.rows \in Nat \ {0}
  BY TotalNat, GoodGrid DEF Total, SameCells, Good, RestOK
<1>3. /\ EndShown(t) = EndShown(s) /\ FirstShown(t) = FirstShown(s)
      /\ EndShown(s) \in Nat /\ EndShown(s) <= Total(s) /\ FirstShown(s) \in Nat
  BY <1>2, LinesParts DEF EndShown, FirstShown, Minus
<1>4. ASSUME NEW i \in Nat, i <= EndShown(s), i >= 1, NEW c \in C
      PROVE  /\ c \in DOMAIN LinesOf(t)[i].cells <=> c \in DOMAIN LinesOf(s)[i].cells
             /\ c \in DOMAIN LinesOf(s)[i].cells =>
                  LinesOf(t)[i].cells[c].ch = LinesOf(s)[i].cells[c].ch
  <2> DEFINE j == i - 1
  <2>1. j \in Span(Total(s)) /\ j \in Nat /\ i = j + 1
    BY <1>2, <1>3, <1>4 DEF Span
  <2>2. CASE j < Len(s.hist)
    <3>1. LinesOf(s)[i] = s.hist[i] /\ LinesOf(t)[i] = t.hist[i]
      BY <1>2, <2>1, <2>2, LinesParts
    <3>2. i \in DOMAIN s.hist
      <4>1. s.hist \in Seq(AnyLine) /\ i \in 1 .. Len(s.hist)
        BY <1>2, <2>1, <2>2 DEF Good, ListsOK
      <4> QED BY <4>1
    <3> QED BY <3>1, <3>2 DEF SameCells
  <2>3. CASE ~(j < Len(s.hist))
    <3> DEFINE r == j - Len(s.hist)
    <3>1. r \in R
      <4>1. j < Len(s.hist) + s.grid.rows
        BY <1>2, <2>1 DEF Span, Total
      <4> HIDE DEF j
      <4> QED BY <1>2, <2>1, <2>3, <4>1 DEF Span
    <3>2. LinesOf(s)[i] = s.grid.line[r] /\ LinesOf(t)[i] = t.grid.line[r]
      BY <1>2, <2>1, <2>3, LinesParts
    <3> HIDE DEF r
    <3>3. DOMAIN s.grid.line[r].cells = C /\ DOMAIN t.grid.line[r].cells = C
      BY <3>1 DEF Good, GridOK, Line
    <3> QED BY <3>1, <3>2, <3>3 DEF SameChars
  <2> QED BY <2>2, <2>3
<1>5. ASSUME NEW r \in R, NEW c \in C PROVE at(s, r, c) = at(t, r, c)
  <2> DEFINE i == FirstShown(s) + r + 1
  <2>1. i \in Nat /\ i >= 1
    BY <1>2, <1>3 DEF Span
  <2> QED BY <1>3, <1>4, <2>1
<1> HIDE DEF at
<1> QED BY <1>1, <1>5

(* At the bottom, the window shows the grid.                               *)
LEMMA VisibleLive ==
  ASSUME NEW s, Good(s), NEW t, Good(t), s.view = 0, t.view = 0,
         t.grid.rows = s.grid.rows, t.grid.cols = s.grid.cols, SameChars(s.grid, t.grid)
  PROVE  Visible(t) = Visible(s)
<1> DEFINE R == Span(s.grid.rows)
           C == Span(s.grid.cols)
<1>1. ASSUME NEW u, Good(u), u.view = 0, u.grid.rows = s.grid.rows, u.grid.cols = s.grid.cols
      PROVE  Visible(u) = [r \in R |-> [c \in C |-> u.grid.line[r].cells[c].ch]]
  <2> DEFINE text(i, c) == IF i <= EndShown(u) /\ c \in DOMAIN LinesOf(u)[i].cells
                           THEN LinesOf(u)[i].cells[c].ch ELSE Blank
             at(r, c) == text(FirstShown(u) + r + 1, c)
  <2>1. Visible(u) = [r \in R |-> [c \in C |-> at(r, c)]]
    BY <1>1, ZenonT(60) DEF Visible
  <2>2. /\ Total(u) \in Nat /\ Len(u.hist) \in Nat /\ u.grid.rows \in Nat \ {0}
        /\ Total(u) = Len(u.hist) + u.grid.rows
    BY <1>1, TotalNat, GoodGrid DEF Total
  <2>3. EndShown(u) = Total(u) /\ FirstShown(u) = Len(u.hist)
    BY <1>1, <2>2, LinesParts DEF EndShown, FirstShown, Minus
  <2>4. ASSUME NEW r \in R, NEW c \in C PROVE at(r, c) = u.grid.line[r].cells[c].ch
    <3> DEFINE j == Len(u.hist) + r
    <3>1. j \in Span(Total(u)) /\ ~(j < Len(u.hist)) /\ j - Len(u.hist) = r
          /\ j + 1 <= Total(u) /\ r \in Span(u.grid.rows)
      BY <1>1, <2>2 DEF Span
    <3>2. LinesOf(u)[j + 1] = u.grid.line[r]
      BY <1>1, <3>1, LinesParts
    <3>3. DOMAIN u.grid.line[r].cells = C
      BY <1>1, <3>1 DEF Good, GridOK, Line
    <3> QED BY <2>3, <3>1, <3>2, <3>3
  <2> HIDE DEF at
  <2> QED BY <2>1, <2>4
<1>2. /\ Visible(s) = [r \in R |-> [c \in C |-> s.grid.line[r].cells[c].ch]]
      /\ Visible(t) = [r \in R |-> [c \in C |-> t.grid.line[r].cells[c].ch]]
  BY <1>1
<1> QED BY <1>2 DEF SameChars

-----------------------------------------------------------------------------
(* What every step of a pane that is not resized keeps.                    *)
CapStep(s, t) ==
  /\ t.cap = s.cap
  /\ Len(s.hist) <= s.cap /\ s.view <= Len(s.hist) =>
       Len(t.hist) <= t.cap /\ t.view <= Len(t.hist)
DrawStep(s, t) ==
  \/ IsDamaged(t.grid)
  \/ /\ ~IsDamaged(s.grid)
     /\ \/ t.view = s.view /\ Visible(t) = Visible(s)
        \/ t.view = 0 /\ s.view # 0
AltStep(s, t) == OnAlt(s) /\ OnAlt(t) => t.hist = <<>> \/ RowsOf(t.hist) = RowsOf(s.hist)
Sound(s, t) == /\ Good(t) /\ t.grid.rows = s.grid.rows /\ t.grid.cols = s.grid.cols
               /\ DrawStep(s, t) /\ AltStep(s, t)

(* What almost every operation keeps is enough.                            *)
LEMMA KeepsSound ==
  ASSUME NEW s, Good(s), NEW t, Keeps(s, t)
  PROVE  Sound(s, t) /\ CapStep(s, t) /\ (OnAlt(t) => OnAlt(s))
<1>1. /\ Good(t) /\ t.grid.rows = s.grid.rows /\ t.grid.cols = s.grid.cols
      /\ t.saved = s.saved /\ t.cap = s.cap /\ t.view = s.view
  BY DEF Keeps, Frame
<1>2. CapStep(s, t)
  <2>1. Len(s.hist) \in Nat /\ Len(t.hist) \in Nat /\ s.view \in Nat
    BY <1>1, TotalNat DEF Good, RestOK
  <2> QED BY <1>1, <2>1 DEF CapStep, Keeps, Hist
<1>3. DrawStep(s, t)
  <2>1. t.hist = s.hist => SameCells(s.hist, t.hist)
    BY DEF SameCells
  <2> QED BY <1>1, <2>1, VisibleSame DEF Keeps, Looks, DrawStep
<1> QED BY <1>1, <1>2, <1>3 DEF Sound, AltStep, OnAlt, Keeps, Hist

-----------------------------------------------------------------------------
(* The view, the alternate screen, the resets and the clears *)

(* A screen t with another grid, view, cursor or cap than s.               *)
Differ(s, t, F) == DOMAIN t = Fields /\ \A f \in Fields \ F : t[f] = s[f]

(* The view moves and the whole window is damaged.                         *)
LEMMA ViewSound ==
  ASSUME NEW s, Good(s), NEW v \in Nat, s.view <= Len(s.hist) => v <= Len(s.hist)
  PROVE  LET t == [s EXCEPT !.view = v, !.grid = Touch(@)]
         IN  Sound(s, t) /\ CapStep(s, t) /\ (OnAlt(t) => OnAlt(s)) /\ t.hist = s.hist
<1> DEFINE t == [s EXCEPT !.view = v, !.grid = Touch(@)]
<1>1. DOMAIN t = Fields /\ t.view = v /\ t.grid = Touch(s.grid)
      /\ \A f \in Fields \ {"view", "grid"} : t[f] = s[f]
  BY DEF Good, Fields
<1> HIDE DEF t
<1>2. /\ t.row = s.row /\ t.col = s.col /\ t.top = s.top /\ t.bot = s.bot /\ t.saved = s.saved
      /\ t.hist = s.hist /\ t.marks = s.marks /\ t.cap = s.cap /\ t.tabs = s.tabs
      /\ t.savedCursor = s.savedCursor /\ t.last = s.last
  BY <1>1 DEF Fields
<1>3. Edited(s.grid, t.grid) /\ IsDamaged(t.grid)
  BY <1>1, WholeEdits DEF Good
<1>4. GridOK(t.grid) /\ t.grid.rows = s.grid.rows /\ t.grid.cols = s.grid.cols
  BY <1>3 DEF Edited, Same
<1>5. OnGrid(t) /\ Margins(t) /\ ListsOK(t) /\ RestOK(t)
  BY <1>1, <1>2, <1>4 DEF Good, OnGrid, Cols2, Margins, ListsOK, RestOK
<1>6. SavedOK(t)
  BY <1>2, <1>4 DEF Good, SavedOK, OnAlt, Same
<1>7. Good(t)
  BY <1>1, <1>4, <1>5, <1>6 DEF Good
<1>8. CapStep(s, t)
  BY <1>1, <1>2 DEF CapStep
<1> QED BY <1>2, <1>3, <1>4, <1>7, <1>8 DEF Sound, DrawStep, AltStep, OnAlt, t

(* The lines of the marks.                                                 *)
LEMMA MarkLines ==
  ASSUME NEW s, Good(s)
  PROVE  {s.marks[i].line : i \in DOMAIN s.marks} \subseteq Nat
  BY MarkParts DEF Good, ListsOK

(* jump_to_prompt, if it moves, shows the line of some mark.               *)
LEMMA JumpTarget ==
  ASSUME NEW s, Good(s), NEW forward \in BOOLEAN, JumpToPrompt(s, forward) # s
  PROVE  \E k \in DOMAIN s.marks :
           JumpToPrompt(s, forward) = SetView(s, Minus(Len(s.hist), s.marks[k].line))
<1> DEFINE lines == {s.marks[i].line : i \in DOMAIN s.marks}
           ahead == {l \in lines : IF forward THEN l > WindowStart(s) ELSE l < WindowStart(s)}
           P(l) == \A k \in ahead : IF forward THEN l <= k ELSE l >= k
           target == CHOOSE l \in ahead : P(l)
<1>1. JumpToPrompt(s, forward) =
        IF ahead = {} THEN s ELSE SetView(s, Minus(Len(s.hist), target))
  BY ZenonT(60) DEF JumpToPrompt
<1>2. ahead \subseteq Nat /\ ahead # {} /\ WindowStart(s) \in Nat
  <2>1. lines \subseteq Nat
    BY MarkLines
  <2>2. WindowStart(s) \in Nat
    BY TotalNat DEF WindowStart, Minus, Good, RestOK
  <2> QED BY <1>1, <2>1, <2>2
<1>3. \E l \in ahead : P(l)
  <2>1. CASE forward
    <3>1. PICK l \in ahead : \A k \in ahead : l <= k
      <4> HIDE DEF ahead
      <4> QED BY <1>2, LeastNat
    <3> HIDE DEF ahead
    <3> QED BY <2>1, <3>1
  <2>2. CASE ~forward
    <3>1. \A k \in ahead : k <= WindowStart(s)
      <4>1. \A k \in ahead : k \in Nat /\ k < WindowStart(s)
        BY <1>2, <2>2
      <4> HIDE DEF ahead
      <4> QED BY <1>2, <4>1
    <3> HIDE DEF ahead
    <3>2. PICK l \in ahead : \A k \in ahead : k <= l
      BY <1>2, <3>1, GreatestNat
    <3>3. l \in Nat /\ \A k \in ahead : k \in Nat
      BY <1>2
    <3> QED BY <2>2, <3>2, <3>3
  <2> QED BY <2>1, <2>2
<1>4. target \in ahead
  <2> HIDE DEF ahead, P
  <2> QED BY <1>3
<1> HIDE DEF target
<1>5. PICK k \in DOMAIN s.marks : target = s.marks[k].line
  BY <1>4
<1> QED BY <1>1, <1>2, <1>5

(* The scrolling of the user, for any amount.                              *)
LEMMA UserSound ==
  ASSUME NEW s, Good(s), NEW n \in Nat, NEW forward \in BOOLEAN,
         NEW t \in {ScrollUpView(s, n), ScrollDownView(s, n), ScrollToBottom(s),
                    ScrollToTop(s), JumpToPrompt(s, forward)}
  PROVE  Sound(s, t) /\ CapStep(s, t) /\ (OnAlt(t) => OnAlt(s)) /\ t.hist = s.hist
<1>1. s.view \in Nat /\ Len(s.hist) \in Nat
  BY TotalNat DEF Good, RestOK
<1>2. ASSUME NEW k \in Nat
      PROVE  LET u == SetView(s, k)
             IN  Sound(s, u) /\ CapStep(s, u) /\ (OnAlt(u) => OnAlt(s)) /\ u.hist = s.hist
  <2> DEFINE v == Least(k, Len(s.hist))
  <2>1. v \in Nat /\ v <= Len(s.hist)
    BY <1>1 DEF Least
  <2> HIDE DEF v
  <2> QED BY <2>1, ViewSound DEF SetView, v
<1>3. Sound(s, s) /\ CapStep(s, s)
  BY StaysSame, KeepsSound DEF Stays
<1>4. s.view + n \in Nat /\ 0 \in Nat
  BY <1>1
<1>5. LET u == ScrollDownView(s, n)
      IN  Sound(s, u) /\ CapStep(s, u) /\ (OnAlt(u) => OnAlt(s)) /\ u.hist = s.hist
  <2> DEFINE v == Minus(s.view, n)
  <2>1. v \in Nat /\ v <= s.view
    BY <1>1 DEF Minus
  <2> HIDE DEF v
  <2>3. s.view <= Len(s.hist) => v <= Len(s.hist)
    BY <1>1, <2>1
  <2> QED BY <2>1, <2>3, ViewSound DEF ScrollDownView, v
<1>6. CASE t = JumpToPrompt(s, forward) /\ t # s
  <2>1. PICK k \in DOMAIN s.marks : t = SetView(s, Minus(Len(s.hist), s.marks[k].line))
    BY <1>6, JumpTarget
  <2>2. Minus(Len(s.hist), s.marks[k].line) \in Nat
    BY <1>1, MarkParts DEF Minus, Good, ListsOK
  <2> QED BY <1>2, <2>1, <2>2
<1>7. CASE t = ScrollUpView(s, n)
  BY <1>2, <1>4, <1>7 DEF ScrollUpView
<1>8. CASE t = ScrollDownView(s, n)
  BY <1>5, <1>8
<1>9. CASE t \in {ScrollToBottom(s), ScrollToTop(s)}
  BY <1>1, <1>2, <1>3, <1>4, <1>9 DEF ScrollToBottom, ScrollToTop
<1>10. CASE t = s
  BY <1>3, <1>10
<1> QED BY <1>6, <1>7, <1>8, <1>9, <1>10

(* A screen whose grid is another well formed one of the same size.        *)
LEMMA SwapGood ==
  ASSUME NEW s, Good(s), NEW t, Differ(s, t, {"grid", "row", "col", "saved"}),
         Same(s.grid, t.grid), OnGrid(t), SavedOK(t)
  PROVE  Good(t) /\ t.hist = s.hist /\ t.cap = s.cap /\ t.view = s.view /\ t.marks = s.marks
         /\ t.top = s.top /\ t.bot = s.bot
<1>1. /\ DOMAIN t = Fields /\ t.top = s.top /\ t.bot = s.bot
      /\ t.hist = s.hist /\ t.marks = s.marks /\ t.cap = s.cap /\ t.view = s.view /\ t.tabs = s.tabs
      /\ t.savedCursor = s.savedCursor /\ t.last = s.last
  BY DEF Differ, Fields
<1>2. GridOK(t.grid) /\ t.grid.rows = s.grid.rows /\ t.grid.cols = s.grid.cols
  BY DEF Same
<1>3. Margins(t) /\ ListsOK(t) /\ RestOK(t)
  BY <1>1, <1>2 DEF Good, Margins, ListsOK, RestOK
<1> QED BY <1>1, <1>2, <1>3 DEF Good

(* Two grids change places: the one shown is damaged.                      *)
LEMMA SwapSound ==
  ASSUME NEW s, Good(s), NEW t, Differ(s, t, {"grid", "row", "col", "saved"}),
         Same(s.grid, t.grid), OnGrid(t), SavedOK(t), IsDamaged(t.grid)
  PROVE  Sound(s, t) /\ CapStep(s, t)
<1>1. Good(t) /\ t.hist = s.hist /\ t.cap = s.cap /\ t.view = s.view
  BY SwapGood
<1>2. t.grid.rows = s.grid.rows /\ t.grid.cols = s.grid.cols
  BY DEF Same
<1> QED BY <1>1, <1>2 DEF Sound, CapStep, DrawStep, AltStep

(* What EnterAlt and LeaveAlt do.                                          *)
Entered(s, t) == /\ Differ(s, t, {"grid", "row", "col", "saved"})
                 /\ t.saved # <<>> /\ t.saved[1].grid = s.grid
Left(s, t) == /\ Differ(s, t, {"grid", "row", "col", "saved"})
              /\ t.saved = <<>> /\ t.grid.line = s.saved[1].grid.line
              /\ t.grid.rows = s.grid.rows

(* DECSET 47, 1047 and 1049 on the primary screen.                         *)
LEMMA EnterSound ==
  ASSUME NEW s, Good(s), NEW mode, ~OnAlt(s)
  PROVE  LET t == EnterAlt(s, mode) IN Sound(s, t) /\ CapStep(s, t) /\ Entered(s, t)
<1> DEFINE p == <<[grid |-> s.grid, row |-> s.row, col |-> s.col]>>
           g == NewGrid(s.grid.rows, s.grid.cols)
           a == [s EXCEPT !.saved = p, !.grid = g]
           b == [a EXCEPT !.row = 0, !.col = 0]
           t == EnterAlt(s, mode)
<1>1. t \in {a, b}
  BY DEF EnterAlt
<1>2. p # <<>> /\ p = <<p[1]>> /\ p[1].grid = s.grid /\ p[1].row = s.row /\ p[1].col = s.col
  OBVIOUS
<1>3. Same(s.grid, g) /\ IsDamaged(g)
  BY GoodGrid, NewGridOK DEF Same
<1> HIDE DEF p, g
<1>4. /\ DOMAIN a = Fields /\ a.saved = p /\ a.grid = g /\ a.row = s.row /\ a.col = s.col
      /\ \A f \in Fields \ {"saved", "grid"} : a[f] = s[f]
  BY DEF Good, Fields
<1> HIDE DEF a
<1>5. /\ DOMAIN b = Fields /\ b.saved = p /\ b.grid = g /\ b.row = 0 /\ b.col = 0
      /\ \A f \in Fields \ {"saved", "grid", "row", "col"} : b[f] = s[f]
  BY <1>4 DEF Fields
<1> HIDE DEF b, t
<1>6. /\ t.saved = p /\ t.grid = g /\ t.row \in {s.row, 0} /\ t.col \in {s.col, 0}
      /\ Differ(s, t, {"grid", "row", "col", "saved"})
  BY <1>1, <1>4, <1>5 DEF Differ
<1>7. OnGrid(t)
  BY <1>3, <1>6, GoodGrid DEF OnGrid, Same, Cols2, Span
<1>8. Same(g, s.grid)
  BY <1>3 DEF Good, Same
<1>9. SavedOK(t)
  BY <1>2, <1>6, <1>8, GoodGrid DEF SavedOK
<1>10. Sound(s, t) /\ CapStep(s, t)
  BY <1>3, <1>6, <1>7, <1>9, SwapSound
<1> QED BY <1>2, <1>6, <1>10 DEF Entered, t

(* DECRST of them on the alternate screen.                                 *)
LEMMA LeaveSound ==
  ASSUME NEW s, Good(s), NEW mode, OnAlt(s)
  PROVE  LET t == LeaveAlt(s, mode) IN Sound(s, t) /\ CapStep(s, t) /\ Left(s, t)
<1> DEFINE p == s.saved[1]
           g == Touch(p.grid)
           row == IF mode = 1049 THEN p.row ELSE s.row
           col == IF mode = 1049 THEN p.col ELSE s.col
           r == Least(row, p.grid.rows - 1)
           c == Least(col, p.grid.cols - 1)
           t == [s EXCEPT !.saved = <<>>, !.grid = g, !.row = r, !.col = c]
<1>1. LeaveAlt(s, mode) = t
  BY DEF LeaveAlt
<1>2. Same(s.grid, p.grid) /\ p.row \in Nat /\ p.col \in Nat
  BY DEF Good, SavedOK
<1>3. Edited(p.grid, g) /\ IsDamaged(g) /\ g.line = p.grid.line
  BY <1>2, WholeEdits DEF Same
<1>4. r \in Span(s.grid.rows) /\ c \in Span(s.grid.cols)
  <2>1. row \in Nat /\ col \in Nat
    BY <1>2, GoodGrid
  <2> HIDE DEF row, col
  <2> QED BY <1>2, <2>1, GoodGrid DEF Same, Least, Span
<1> HIDE DEF g, r, c
<1>5. /\ t.saved = <<>> /\ t.grid = g /\ t.row = r /\ t.col = c
      /\ Differ(s, t, {"grid", "row", "col", "saved"})
  BY DEF Good, Fields, Differ
<1> HIDE DEF t
<1>6. Same(s.grid, t.grid)
  BY <1>2, <1>3, <1>5 DEF Same, Edited
<1>7. OnGrid(t) /\ SavedOK(t)
  <2>1. t.grid.rows = s.grid.rows /\ t.grid.cols = s.grid.cols
    BY <1>6 DEF Same
  <2>2. s.grid.cols \in Nat \ {0}
    BY GoodGrid
  <2>3. t.col \in Nat /\ t.col <= Cols2(t)
    BY <1>4, <1>5, <2>1, <2>2 DEF Span, Cols2, Most
  <2> QED BY <1>4, <1>5, <2>1, <2>3 DEF OnGrid, SavedOK, OnAlt
<1>8. Sound(s, t) /\ CapStep(s, t)
  BY <1>3, <1>5, <1>6, <1>7, SwapSound
<1> QED BY <1>1, <1>3, <1>5, <1>6, <1>8 DEF Left, Same

(* RIS: everything but the cap is as at spawn.                             *)
Blanked(s, t) == /\ t.hist = <<>> /\ t.saved = <<>> /\ t.marks = <<>>
                 /\ t.top = 0 /\ t.bot = LastRow(s)
                 /\ \A r \in Span(s.grid.rows) : t.grid.line[r].tag = {}

(* RIS.                                                                    *)
LEMMA HardResetSound ==
  ASSUME NEW s, Good(s)
  PROVE  LET t == Reset(s, TRUE) IN Sound(s, t) /\ CapStep(s, t) /\ ~OnAlt(t) /\ Blanked(s, t)
<1> DEFINE tabs == TabStops(s.grid.cols)
           g == Clear(s.grid)
           a == [s EXCEPT !.grid = g, !.row = 0, !.col = 0, !.top = 0, !.bot = LastRow(s),
                 !.tabs = tabs, !.savedCursor = <<>>, !.last = <<>>, !.autowrap = TRUE,
                 !.insert = FALSE, !.origin = FALSE, !.reverse = FALSE]
           l == [r \in Span(s.grid.rows) |-> BlankLine(s.grid.cols)]
           k == [g EXCEPT !.line = l]
           t == [a EXCEPT !.hist = <<>>, !.view = 0, !.saved = <<>>, !.marks = <<>>, !.grid = k]
<1>1. g.rows = s.grid.rows /\ Edited(s.grid, g) /\ IsDamaged(g) /\ DOMAIN tabs = Span(s.grid.cols)
  BY WholeEdits DEF Good, Edited, Same, TabStops
<1> HIDE DEF g, tabs
<1>2. DOMAIN a = Fields /\ a.grid = g /\ a.row = 0 /\ a.col = 0 /\ a.top = 0 /\ a.bot = LastRow(s)
      /\ a.tabs = tabs /\ a.savedCursor = <<>> /\ a.last = <<>> /\ a.cap = s.cap
  BY DEF Good, Fields
<1>3. Reset(s, TRUE) = [a EXCEPT !.hist = <<>>, !.view = 0, !.saved = <<>>,
                          !.marks = <<>>, !.grid.line = l]
  BY ZenonT(60) DEF Reset, g, tabs
<1> HIDE DEF a
<1>4. Reset(s, TRUE) = t
  <2> HIDE DEF l
  <2> QED BY <1>2, <1>3 DEF Fields
<1>5. l \in [Span(g.rows) -> Line(g.cols)] /\ \A r \in Span(s.grid.rows) : l[r].tag = {}
  BY <1>1, Blanks DEF Edited, Same
<1> HIDE DEF l
<1>6. Same(s.grid, k) /\ IsDamaged(k) /\ k.line = l
  <2>1. Formed(g, k, l, g.dirty)
    BY <1>1, <1>5, GridFrom DEF Edited, Same, GridOK
  <2> HIDE DEF k
  <2> QED BY <1>1, <2>1 DEF Formed, Same, Edited, IsDamaged
<1> HIDE DEF k
<1>7. /\ DOMAIN t = Fields /\ t.hist = <<>> /\ t.view = 0 /\ t.saved = <<>> /\ t.marks = <<>>
      /\ t.grid = k /\ t.row = 0 /\ t.col = 0 /\ t.top = 0 /\ t.bot = LastRow(s)
      /\ t.tabs = tabs /\ t.savedCursor = <<>> /\ t.last = <<>> /\ t.cap = s.cap
  BY <1>2 DEF Fields
<1> HIDE DEF t
<1>8. GridOK(k) /\ k.rows = s.grid.rows /\ k.cols = s.grid.cols
  BY <1>6 DEF Same
<1>9. OnGrid(t)
  <2>1. Cols2(t) = Cols2(s)
    BY <1>7, <1>8 DEF Cols2
  <2>2. 0 \in Span(k.rows) /\ 0 <= Cols2(s)
    BY <1>8, GoodGrid DEF Span
  <2> QED BY <1>7, <2>1, <2>2 DEF OnGrid
<1>10. Margins(t)
  BY <1>7, <1>8, GoodGrid DEF Margins
<1>11. ListsOK(t) /\ SavedOK(t) /\ ~OnAlt(t)
  BY <1>7, MarksAssumption DEF ListsOK, SavedOK, OnAlt
<1>12. RestOK(t)
  BY <1>1, <1>7, <1>8 DEF RestOK, Good
<1>13. Good(t)
  BY <1>7, <1>8, <1>9, <1>10, <1>11, <1>12 DEF Good
<1>14. CapStep(s, t)
  BY <1>7 DEF CapStep, Good, RestOK
<1> QED BY <1>4, <1>5, <1>6, <1>7, <1>8, <1>11, <1>13, <1>14 DEF Sound, DrawStep, AltStep, Blanked

(* The scrollback is cleared: the marks above the grid go, the others stay *)
(* on their lines.                                                         *)
Cleared(s, t) == /\ Differ(s, t, {"hist", "view", "marks"}) /\ t.hist = <<>>
                 /\ MarksMove(s.marks, t.marks, Len(s.hist))

(* ED 3 and the menu's clear: the view is at the bottom, where nothing     *)
(* shown has changed, or the key tells.                                    *)
LEMMA ClearSound ==
  ASSUME NEW s, Good(s)
  PROVE  LET t == ClearScrollback(s)
         IN  Sound(s, t) /\ CapStep(s, t) /\ (OnAlt(t) => OnAlt(s)) /\ Cleared(s, t)
<1> DEFINE n == Len(s.hist)
           a == [s EXCEPT !.hist = <<>>, !.view = 0]
           m == MarksFrom(s.marks, n)
           t == [a EXCEPT !.marks = m]
<1>1. n \in Nat /\ s.marks \in Seq(Mark)
  BY TotalNat DEF Good, ListsOK
<1>2. m \in Seq(Mark) /\ Len(m) <= Len(s.marks) /\ MarksMove(s.marks, m, n)
  BY <1>1, MarksFromMoves
<1>3. /\ DOMAIN a = Fields /\ a.hist = <<>> /\ a.view = 0 /\ a.marks = s.marks
      /\ \A f \in Fields \ {"hist", "view"} : a[f] = s[f]
  BY DEF Good, Fields
<1> HIDE DEF n
<1>4. ClearScrollback(s) = t
  <2>1. ClearScrollback(s) = Reanchor(a, n)
    BY DEF ClearScrollback, n
  <2> HIDE DEF a
  <2> QED BY <1>3, <2>1 DEF Reanchor
<1> HIDE DEF a, m
<1>5. /\ DOMAIN t = Fields /\ t.hist = <<>> /\ t.view = 0 /\ t.marks = m
      /\ \A f \in Fields \ {"hist", "view", "marks"} : t[f] = s[f]
  BY <1>3 DEF Fields
<1> HIDE DEF t
<1>6. /\ t.grid = s.grid /\ t.row = s.row /\ t.col = s.col /\ t.top = s.top /\ t.bot = s.bot
      /\ t.saved = s.saved /\ t.cap = s.cap /\ t.tabs = s.tabs
      /\ t.savedCursor = s.savedCursor /\ t.last = s.last
  BY <1>5 DEF Fields
<1>7. ListsOK(t)
  <2>1. Len(s.marks) \in Nat /\ Len(m) \in Nat /\ Len(s.marks) <= MaxMarks /\ MaxMarks \in Nat
    BY <1>1, <1>2, MarksAssumption DEF Good, ListsOK
  <2>2. Len(m) <= MaxMarks
    BY <1>2, <2>1
  <2> QED BY <1>2, <1>5, <2>2 DEF ListsOK
<1>8. OnGrid(t) /\ Margins(t) /\ SavedOK(t) /\ RestOK(t)
  BY <1>5, <1>6 DEF Good, OnGrid, Cols2, Margins, SavedOK, OnAlt, RestOK
<1>9. Good(t)
  BY <1>5, <1>6, <1>7, <1>8 DEF Good
<1>10. CapStep(s, t)
  BY <1>5, <1>6 DEF CapStep, Good, RestOK
<1>11. DrawStep(s, t)
  <2>1. SameChars(s.grid, t.grid)
    BY <1>6 DEF SameChars
  <2>2. s.view = 0 => Visible(t) = Visible(s)
    BY <1>5, <1>6, <1>9, <2>1, VisibleLive
  <2> QED BY <1>5, <1>6, <2>2 DEF DrawStep
<1> QED BY <1>2, <1>4, <1>5, <1>6, <1>9, <1>10, <1>11 DEF Sound, AltStep, OnAlt, Cleared, Differ, n

-----------------------------------------------------------------------------
(* New anchors: prompt marks and the selection *)

(* Row r of the grid gets the anchor id, and nothing else changes.         *)
Tagged(g, h, r, id) ==
  /\ Same(g, h) /\ h.dirty = g.dirty /\ SameChars(g, h)
  /\ \A q \in Span(g.rows) :
       h.line[q].tag = g.line[q].tag \cup (IF q = r THEN {id} ELSE {})

(* A new anchor on a row.                                                  *)
LEMMA TagRow ==
  ASSUME NEW g, GridOK(g), NEW r \in Span(g.rows), NEW id \in Anchors
  PROVE  Tagged(g, [g EXCEPT !.line[r].tag = @ \cup {id}], r, id)
<1> DEFINE l == [g.line EXCEPT ![r].tag = @ \cup {id}]
           h == [g EXCEPT !.line = l]
<1>1. [g EXCEPT !.line[r].tag = @ \cup {id}] = h
  BY DEF GridOK
<1>2. g.line \in [Span(g.rows) -> Line(g.cols)]
  BY DEF GridOK
<1>3. ASSUME NEW q \in Span(g.rows)
      PROVE  /\ l[q] \in Line(g.cols) /\ l[q].cells = g.line[q].cells
             /\ l[q].tag = g.line[q].tag \cup (IF q = r THEN {id} ELSE {})
  <2>1. g.line[q] \in Line(g.cols)
    BY <1>2
  <2>2. CASE q = r
    <3>1. l[q] = [g.line[q] EXCEPT !.tag = @ \cup {id}]
      BY <1>2, <2>2
    <3> HIDE DEF l
    <3> QED BY <2>1, <2>2, <3>1 DEF Line
  <2>3. CASE q # r
    <3>1. l[q] = g.line[q]
      BY <1>2, <2>3
    <3> HIDE DEF l
    <3> QED BY <2>1, <2>3, <3>1
  <2> QED BY <2>2, <2>3
<1>4. l \in [Span(g.rows) -> Line(g.cols)]
  <2>1. l = [q \in Span(g.rows) |-> l[q]]
    BY <1>2
  <2> HIDE DEF l
  <2> QED BY <1>3, <2>1
<1> HIDE DEF l
<1>5. Formed(g, h, l, g.dirty)
  BY <1>4, GridFrom DEF GridOK
<1> HIDE DEF h
<1> QED BY <1>1, <1>3, <1>5 DEF Tagged, Formed, SameChars

(* The last n elements of a sequence.                                      *)
LEMMA SuffixParts ==
  ASSUME NEW S, NEW q \in Seq(S), NEW n \in Nat, n <= Len(q)
  PROVE  /\ Suffix(q, n) \in Seq(S) /\ Len(Suffix(q, n)) = n /\ DOMAIN Suffix(q, n) = 1 .. n
         /\ \A i \in 1 .. n : Suffix(q, n)[i] = q[Len(q) - n + i]
<1>1. \A i \in 1 .. n : Len(q) - n + i \in 1 .. Len(q)
  OBVIOUS
<1> QED BY <1>1 DEF Suffix

(* What OSC 133 A does when it does anything.                              *)
Prompted(s, t, id) ==
  /\ Differ(s, t, {"marks", "grid"})
  /\ Tagged(s.grid, t.grid, s.row, id)
  /\ \A i \in DOMAIN t.marks :
       \/ t.marks[i].line = Len(s.hist) + s.row /\ t.marks[i].id = id
       \/ \E k \in DOMAIN s.marks :
            t.marks[i].line = s.marks[k].line /\ t.marks[i].id = s.marks[k].id
  /\ \A k \in DOMAIN s.marks :
       Len(s.marks) = MaxMarks \/ \E i \in DOMAIN t.marks : t.marks[i].id = s.marks[k].id

(* OSC 133;A, when it adds a mark.                                         *)
LEMMA PromptSound ==
  ASSUME NEW s, Good(s), NEW id \in Anchors, PromptMark(s, id) # s
  PROVE  LET t == PromptMark(s, id)
         IN  Sound(s, t) /\ CapStep(s, t) /\ (OnAlt(t) => OnAlt(s)) /\ Prompted(s, t, id)
             /\ t.hist = s.hist
<1> DEFINE mark == [line |-> Len(s.hist) + s.row, id |-> id]
           more == Append(s.marks, mark)
           k == Least(Len(more), MaxMarks)
           m == Suffix(more, k)
           g == [s.grid EXCEPT !.line[s.row].tag = @ \cup {id}]
           t == [s EXCEPT !.marks = m, !.grid = g]
<1>1. /\ Len(s.hist) \in Nat /\ s.row \in Span(s.grid.rows) /\ GridOK(s.grid)
      /\ s.marks \in Seq(Mark) /\ Len(s.marks) <= MaxMarks /\ MaxMarks \in Nat \ {0}
      /\ DOMAIN s = Fields /\ s.row \in Nat
  BY TotalNat, GoodGrid, MarksAssumption DEF Good, OnGrid, ListsOK
<1>2. PromptMark(s, id) = [s EXCEPT !.marks = m, !.grid.line[s.row].tag = @ \cup {id}]
  <2>1. PromptMark(s, id) =
          IF s.marks # <<>> /\ s.marks[Len(s.marks)].line = Len(s.hist) + s.row THEN s
          ELSE [s EXCEPT !.marks = m, !.grid.line[s.row].tag = @ \cup {id}]
    BY ZenonT(60) DEF PromptMark
  <2> HIDE DEF m
  <2> QED BY <2>1
<1>3. mark \in Mark /\ mark.line = Len(s.hist) + s.row /\ mark.id = id
  BY <1>1 DEF Mark
<1> HIDE DEF mark
<1>4. /\ more \in Seq(Mark) /\ Len(more) = Len(s.marks) + 1 /\ more[Len(s.marks) + 1] = mark
      /\ \A i \in 1 .. Len(s.marks) : more[i] = s.marks[i]
  BY <1>1, <1>3
<1> HIDE DEF more
<1>5. k \in Nat /\ k <= Len(more) /\ k <= MaxMarks /\ (k = Len(more) \/ k = MaxMarks)
      /\ Len(s.marks) \in Nat /\ Len(more) \in Nat
  BY <1>1, <1>4 DEF Least
<1> HIDE DEF k
<1>6. m \in Seq(Mark) /\ Len(m) = k /\ DOMAIN m = 1 .. k
      /\ \A i \in 1 .. k : m[i] = more[Len(more) - k + i]
  <2>1. more \in Seq(Mark) /\ k \in Nat /\ k <= Len(more)
    BY <1>4, <1>5
  <2> QED BY ONLY <2>1, SuffixParts
<1>7. Tagged(s.grid, g, s.row, id)
  BY <1>1, TagRow
<1>8. PromptMark(s, id) = t
  <2> HIDE DEF m
  <2> QED BY <1>1, <1>2 DEF Fields
<1> HIDE DEF m, g
<1>9. DOMAIN t = Fields /\ t.marks = m /\ t.grid = g /\ \A f \in Fields \ {"marks", "grid"} : t[f] = s[f]
  BY <1>1 DEF Fields
<1> HIDE DEF t
<1>10. /\ t.hist = s.hist /\ t.row = s.row /\ t.col = s.col /\ t.top = s.top /\ t.bot = s.bot
       /\ t.saved = s.saved /\ t.cap = s.cap /\ t.view = s.view /\ t.tabs = s.tabs
       /\ t.savedCursor = s.savedCursor /\ t.last = s.last
  BY <1>9 DEF Fields
<1>11. GridOK(g) /\ g.rows = s.grid.rows /\ g.cols = s.grid.cols /\ g.dirty = s.grid.dirty
       /\ SameChars(s.grid, g)
  BY <1>7 DEF Tagged, Same
<1>12. Good(t)
  <2>1. OnGrid(t) /\ Margins(t) /\ RestOK(t)
    BY <1>9, <1>10, <1>11 DEF Good, OnGrid, Cols2, Margins, RestOK
  <2>2. ListsOK(t)
    BY <1>5, <1>6, <1>9, <1>10 DEF Good, ListsOK
  <2>3. SavedOK(t)
    BY <1>9, <1>10, <1>11 DEF Good, SavedOK, OnAlt, Same
  <2> QED BY <1>9, <1>11, <2>1, <2>2, <2>3 DEF Good
<1>13. CapStep(s, t)
  BY <1>10 DEF CapStep
<1>14. DrawStep(s, t)
  <2>1. SameCells(s.hist, t.hist)
    BY <1>10 DEF SameCells
  <2>2. Visible(t) = Visible(s)
    BY <1>9, <1>10, <1>11, <1>12, <2>1, VisibleSame
  <2> QED BY <1>9, <1>10, <1>11, <2>2 DEF DrawStep, IsDamaged
<1>15. Sound(s, t)
  BY <1>9, <1>10, <1>11, <1>12, <1>14 DEF Sound, AltStep
<1>16. ASSUME NEW i \in DOMAIN t.marks
       PROVE  \/ t.marks[i].line = Len(s.hist) + s.row /\ t.marks[i].id = id
              \/ \E j \in DOMAIN s.marks :
                   t.marks[i].line = s.marks[j].line /\ t.marks[i].id = s.marks[j].id
  <2> DEFINE j == Len(more) - k + i
  <2>1. i \in 1 .. k /\ t.marks[i] = more[j]
    BY <1>6, <1>9
  <2>2. j \in 1 .. Len(s.marks) \/ j = Len(s.marks) + 1
    BY <1>4, <1>5, <2>1
  <2> HIDE DEF j
  <2>3. CASE j = Len(s.marks) + 1
    BY <1>3, <1>4, <2>1, <2>3
  <2>4. CASE j \in 1 .. Len(s.marks)
    BY SMTT(30), <1>1, <1>4, <2>1, <2>4
  <2> QED BY <2>2, <2>3, <2>4
<1>17. ASSUME NEW j \in DOMAIN s.marks, Len(s.marks) # MaxMarks
       PROVE  \E i \in DOMAIN t.marks : t.marks[i].id = s.marks[j].id
  <2>1. k = Len(more) /\ j \in 1 .. Len(s.marks)
    BY <1>1, <1>4, <1>5, <1>17
  <2>2. j \in 1 .. k /\ Len(more) - k + j = j
    BY <1>4, <1>5, <2>1
  <2>3. t.marks[j] = s.marks[j] /\ j \in DOMAIN t.marks
    BY <1>4, <1>6, <1>9, <2>1, <2>2
  <2> QED BY <2>3
<1>18. Prompted(s, t, id)
  BY <1>7, <1>9, <1>16, <1>17 DEF Prompted, Differ
<1> QED BY <1>8, <1>10, <1>12, <1>13, <1>15, <1>18 DEF OnAlt

(* A mouse selection tags a line and nothing else: the same line in terms  *)
(* of its absolute index.                                                  *)
Chosen(s, t, n, id) ==
  /\ Differ(s, t, {"hist", "grid"}) /\ Len(t.hist) = Len(s.hist)
  /\ \A i \in Span(Total(s)) : TagAt(t, i) = TagAt(s, i) \cup (IF i = n THEN {id} ELSE {})
ChooseLine(s, n, id) ==
  IF n < Len(s.hist)
  THEN [s EXCEPT !.hist[n + 1].tag = @ \cup {id}]
  ELSE [s EXCEPT !.grid.line[n - Len(s.hist)].tag = @ \cup {id}]

(* A line of the window is selected, in the scrollback or on the grid.     *)
LEMMA SelectSound ==
  ASSUME NEW s, Good(s), NEW id \in Anchors, NEW n \in Span(Total(s))
  PROVE  LET t == ChooseLine(s, n, id)
         IN  Sound(s, t) /\ CapStep(s, t) /\ (OnAlt(t) => OnAlt(s)) /\ Chosen(s, t, n, id)
<1> DEFINE t == ChooseLine(s, n, id)
<1>1. /\ Len(s.hist) \in Nat /\ GridOK(s.grid) /\ s.hist \in Seq(AnyLine) /\ DOMAIN s = Fields
      /\ n \in Nat /\ n < Total(s) /\ Total(s) = Len(s.hist) + s.grid.rows /\ s.grid.rows \in Nat \ {0}
  BY TotalNat, GoodGrid DEF Good, ListsOK, Span, Total
<1>2. ASSUME NEW u, Differ(s, u, {"hist", "grid"}), Same(s.grid, u.grid), u.grid.dirty = s.grid.dirty,
             SameChars(s.grid, u.grid), u.hist \in Seq(AnyLine), SameCells(s.hist, u.hist),
             RowsOf(u.hist) = RowsOf(s.hist)
      PROVE  Sound(s, u) /\ CapStep(s, u) /\ (OnAlt(u) => OnAlt(s))
  <2>1. /\ DOMAIN u = Fields /\ u.marks = s.marks /\ u.row = s.row /\ u.col = s.col /\ u.top = s.top
        /\ u.bot = s.bot /\ u.saved = s.saved /\ u.cap = s.cap /\ u.view = s.view /\ u.tabs = s.tabs
        /\ u.savedCursor = s.savedCursor /\ u.last = s.last
    BY <1>2 DEF Differ, Fields
  <2>2. GridOK(u.grid) /\ u.grid.rows = s.grid.rows /\ u.grid.cols = s.grid.cols
    BY <1>2 DEF Same
  <2>3. Good(u)
    <3>1. OnGrid(u) /\ Margins(u) /\ RestOK(u)
      BY <2>1, <2>2 DEF Good, OnGrid, Cols2, Margins, RestOK
    <3>2. ListsOK(u)
      BY <1>2, <2>1 DEF Good, ListsOK
    <3>3. SavedOK(u)
      BY <2>1, <2>2 DEF Good, SavedOK, OnAlt, Same
    <3> QED BY <2>1, <2>2, <3>1, <3>2, <3>3 DEF Good
  <2>4. Visible(u) = Visible(s)
    BY <1>2, <2>1, <2>2, <2>3, VisibleSame
  <2>5. DrawStep(s, u)
    BY <1>2, <2>1, <2>2, <2>4 DEF DrawStep, IsDamaged
  <2>6. CapStep(s, u)
    BY <1>2, <2>1 DEF CapStep, SameCells
  <2> QED BY <1>2, <2>1, <2>2, <2>3, <2>5, <2>6 DEF Sound, AltStep, OnAlt
<1>3. CASE n < Len(s.hist)
  <2> DEFINE h == [s.hist EXCEPT ![n + 1].tag = @ \cup {id}]
             u == [s EXCEPT !.hist = h]
  <2>1. t = u
    <3>1. t = [s EXCEPT !.hist[n + 1].tag = @ \cup {id}]
      BY <1>3 DEF ChooseLine
    <3> QED BY <1>1, <3>1 DEF Fields
  <2>2. DOMAIN s.hist = 1 .. Len(s.hist) /\ n + 1 \in 1 .. Len(s.hist)
    BY <1>1, <1>3
  <2>3. ASSUME NEW i \in 1 .. Len(s.hist)
        PROVE  /\ h[i] \in AnyLine /\ h[i].cells = s.hist[i].cells /\ h[i].wrapped = s.hist[i].wrapped
               /\ h[i].tag = s.hist[i].tag \cup (IF i = n + 1 THEN {id} ELSE {})
    <3>1. s.hist[i] \in AnyLine
      BY <1>1
    <3>2. CASE i = n + 1
      <4>1. h[i] = [s.hist[i] EXCEPT !.tag = @ \cup {id}]
        BY <2>2, <3>2
      <4>2. PICK w \in Nat \ {0} : s.hist[i] \in Line(w)
        BY <3>1 DEF AnyLine
      <4> HIDE DEF h
      <4>3. /\ h[i] \in Line(w) /\ h[i].cells = s.hist[i].cells /\ h[i].wrapped = s.hist[i].wrapped
            /\ h[i].tag = s.hist[i].tag \cup {id}
        BY <4>1, <4>2 DEF Line
      <4> QED BY <3>2, <4>3 DEF AnyLine
    <3>3. CASE i # n + 1
      <4>1. h[i] = s.hist[i]
        BY <2>2, <3>3
      <4> HIDE DEF h
      <4> QED BY <3>1, <3>3, <4>1
    <3> QED BY <3>2, <3>3
  <2>4. h = [i \in 1 .. Len(s.hist) |-> h[i]]
    BY <2>2
  <2> HIDE DEF h
  <2>5. h \in Seq(AnyLine) /\ Len(h) = Len(s.hist) /\ DOMAIN h = 1 .. Len(s.hist)
    <3>1. \A i \in 1 .. Len(s.hist) : h[i] \in AnyLine
      BY <2>3
    <3> QED BY ONLY <1>1, <2>4, <3>1
  <2>6. SameCells(s.hist, h)
    BY <2>2, <2>3, <2>5 DEF SameCells
  <2>7. RowsOf(h) = RowsOf(s.hist)
    BY <2>2, <2>3, <2>5 DEF RowsOf
  <2>8. u.hist = h /\ u.grid = s.grid /\ Differ(s, u, {"hist", "grid"})
    BY <1>1 DEF Fields, Differ
  <2> HIDE DEF u
  <2>9. Sound(s, u) /\ CapStep(s, u) /\ (OnAlt(u) => OnAlt(s))
    BY <1>1, <1>2, <2>5, <2>6, <2>7, <2>8 DEF Same, SameChars
  <2>10. ASSUME NEW i \in Span(Total(s))
         PROVE  TagAt(u, i) = TagAt(s, i) \cup (IF i = n THEN {id} ELSE {})
    <3>1. i \in Nat /\ (i + 1 = n + 1 <=> i = n) /\ (i < Len(s.hist) => i + 1 \in 1 .. Len(s.hist))
      BY <1>1 DEF Span
    <3>2. CASE i < Len(s.hist)
      BY <2>3, <2>5, <2>8, <3>1, <3>2 DEF TagAt
    <3>3. CASE ~(i < Len(s.hist))
      BY <1>3, <2>5, <2>8, <3>3 DEF TagAt
    <3> QED BY <3>2, <3>3
  <2>11. Chosen(s, u, n, id)
    BY <2>5, <2>8, <2>10 DEF Chosen
  <2> HIDE DEF t
  <2> QED BY <2>1, <2>9, <2>11 DEF t
<1>4. CASE ~(n < Len(s.hist))
  <2> DEFINE r == n - Len(s.hist)
             g == [s.grid EXCEPT !.line[r].tag = @ \cup {id}]
             u == [s EXCEPT !.grid = g]
  <2>1. r \in Span(s.grid.rows)
    BY <1>1, <1>4 DEF Span
  <2>2. t = u
    <3>1. t = [s EXCEPT !.grid.line[r].tag = @ \cup {id}]
      BY <1>4 DEF ChooseLine
    <3> HIDE DEF r
    <3> QED BY <1>1, <3>1 DEF Fields
  <2>3. Tagged(s.grid, g, r, id)
    <3> HIDE DEF r
    <3> QED BY <1>1, <2>1, TagRow
  <2> HIDE DEF g
  <2>4. u.hist = s.hist /\ u.grid = g /\ Differ(s, u, {"hist", "grid"})
    BY <1>1 DEF Fields, Differ
  <2> HIDE DEF u
  <2>5. Sound(s, u) /\ CapStep(s, u) /\ (OnAlt(u) => OnAlt(s))
    BY <1>1, <1>2, <2>3, <2>4 DEF Tagged, SameCells
  <2>6. ASSUME NEW i \in Span(Total(s))
        PROVE  TagAt(u, i) = TagAt(s, i) \cup (IF i = n THEN {id} ELSE {})
    <3>1. CASE i < Len(s.hist)
      BY <1>4, <2>4, <3>1 DEF TagAt
    <3>2. CASE ~(i < Len(s.hist))
      <4>1. i - Len(s.hist) \in Span(s.grid.rows) /\ (i - Len(s.hist) = r <=> i = n)
        BY <1>1, <3>2 DEF Span
      <4> HIDE DEF r
      <4> QED BY <2>3, <2>4, <3>2, <4>1 DEF TagAt, Tagged
    <3> QED BY <3>1, <3>2
  <2>7. Chosen(s, u, n, id)
    BY <2>4, <2>6 DEF Chosen
  <2> HIDE DEF t
  <2> QED BY <2>2, <2>5, <2>7 DEF t
<1> QED BY <1>3, <1>4

-----------------------------------------------------------------------------
(* The kinds of steps *)

(* The kinds of steps: text that may scroll, edits that leave every line   *)
(* where it is, and those that move the lines of the grid.                 *)
Edit(s, t) == Stays(s, t) /\ t.hist = s.hist
Shuffle(s, t) == /\ Keeps(s, t) /\ t.hist = s.hist /\ t.marks = s.marks
                 /\ (t.top = s.top /\ t.bot = s.bot) \/ May("DECSTBM")
Fine(s, t) == Sound(s, t) /\ CapStep(s, t)
Others == UNCHANGED <<cache, sel, size, scene>>
Shufflers == {"RI", "IL", "DL", "SD", "DECSTBM"}

(* None of these touches the scrollback.                                   *)
LEMMA HistStill ==
  ASSUME NEW s, Good(s), NEW r, NEW c, NEW n, NEW on, NEW g
  PROVE  /\ CursorTo(s, r, c).hist = s.hist /\ RowTo(s, r).hist = s.hist /\ ColTo(s, c).hist = s.hist
         /\ CursorUp(s, n).hist = s.hist /\ CursorDown(s, n).hist = s.hist
         /\ CursorRight(s, n).hist = s.hist /\ CursorLeft(s, n).hist = s.hist
         /\ NextLine(s, n).hist = s.hist /\ PrevLine(s, n).hist = s.hist
         /\ SaveCursor(s).hist = s.hist /\ RestoreCursor(s).hist = s.hist
         /\ SetTab(s, on).hist = s.hist /\ ClearTabs(s).hist = s.hist
         /\ [s EXCEPT !.col = c].hist = s.hist /\ [s EXCEPT !.grid = g].hist = s.hist
         /\ [s EXCEPT !.insert = on].hist = s.hist /\ [s EXCEPT !.autowrap = on].hist = s.hist
         /\ [s EXCEPT !.reverse = on].hist = s.hist
         /\ [s EXCEPT !.origin = on, !.col = c, !.row = r].hist = s.hist
         /\ [s EXCEPT !.grid = g, !.row = r, !.col = c].hist = s.hist
         /\ [s EXCEPT !.row = r].hist = s.hist
         /\ [s EXCEPT !.grid = g, !.col = c].hist = s.hist
<1>1. DOMAIN s = Fields
  BY DEF Good
<1>2. /\ CursorTo(s, r, c).hist = s.hist /\ RowTo(s, r).hist = s.hist /\ ColTo(s, c).hist = s.hist
  BY <1>1 DEF Fields, CursorTo, RowTo, ColTo
<1>3. /\ CursorUp(s, n).hist = s.hist /\ CursorDown(s, n).hist = s.hist
      /\ CursorRight(s, n).hist = s.hist /\ CursorLeft(s, n).hist = s.hist
      /\ NextLine(s, n).hist = s.hist /\ PrevLine(s, n).hist = s.hist
  BY <1>1 DEF Fields, CursorUp, CursorDown, CursorRight, CursorLeft, NextLine, PrevLine
<1>4. /\ SaveCursor(s).hist = s.hist /\ RestoreCursor(s).hist = s.hist
      /\ SetTab(s, on).hist = s.hist /\ ClearTabs(s).hist = s.hist
  BY <1>1 DEF Fields, SaveCursor, RestoreCursor, SetTab, ClearTabs
<1>5. /\ [s EXCEPT !.col = c].hist = s.hist /\ [s EXCEPT !.grid = g].hist = s.hist
      /\ [s EXCEPT !.insert = on].hist = s.hist /\ [s EXCEPT !.autowrap = on].hist = s.hist
      /\ [s EXCEPT !.reverse = on].hist = s.hist
      /\ [s EXCEPT !.origin = on, !.col = c, !.row = r].hist = s.hist
      /\ [s EXCEPT !.grid = g, !.row = r, !.col = c].hist = s.hist
      /\ [s EXCEPT !.row = r].hist = s.hist
      /\ [s EXCEPT !.grid = g, !.col = c].hist = s.hist
  BY <1>1 DEF Fields
<1> QED BY <1>2, <1>3, <1>4, <1>5

(* Nor do the tabs.                                                        *)
LEMMA TabHist ==
  ASSUME NEW s, Good(s) PROVE TabForward(s).hist = s.hist /\ TabBack(s).hist = s.hist
<1> DEFINE a == CHOOSE c \in (s.col + 1) .. LastCol(s) :
                  /\ c = LastCol(s) \/ IsStop(s, c)
                  /\ \A d \in (s.col + 1) .. (c - 1) : ~IsStop(s, d)
           b == CHOOSE c \in 0 .. (s.col - 1) :
                  /\ c = 0 \/ IsStop(s, c)
                  /\ \A d \in (c + 1) .. (s.col - 1) : ~IsStop(s, d)
<1>1. /\ TabForward(s) = IF s.col >= LastCol(s) THEN [s EXCEPT !.col = LastCol(s)]
                         ELSE [s EXCEPT !.col = a]
      /\ TabBack(s) = IF s.col = 0 THEN s ELSE [s EXCEPT !.col = b]
  BY ZenonT(60) DEF TabForward, TabBack
<1> HIDE DEF a, b
<1> QED BY <1>1, HistStill

(* The parameters and glyphs of a program.                                 *)
LEMMA Params ==
  ASSUME scene \in Scenes
  PROVE  /\ Counts \subseteq Nat \ {0} /\ scene.glyphs \subseteq Glyphs
         /\ \A n \in Counts : n \in Nat /\ n \in Nat \ {0} /\ n - 1 \in Nat
         /\ scene.params \subseteq Nat
<1>1. scene.params \subseteq Nat /\ scene.glyphs \subseteq Glyphs
  BY ScenesAssumption
<1>2. ASSUME NEW n \in Counts PROVE n \in Nat /\ n \in Nat \ {0} /\ n - 1 \in Nat
  <2>1. n \in Nat /\ n # 0
    BY <1>1 DEF Counts
  <2> QED BY <2>1
<1> QED BY <1>1, <1>2

(* The text a program prints, and the line feeds.                          *)
LEMMA TextKind ==
  ASSUME Good(scr), scene \in Scenes, Text
  PROVE  Others /\ (Goes(scr, scr') \/ Edit(scr, scr') \/ (Shuffle(scr, scr') /\ May("RI")))
<1>1. \A x \in scene.glyphs : Goes(scr, PrintChar(scr, x))
  BY Params, PrintGoes
<1>2. \A n \in Counts : Goes(scr, Repeat(scr, n))
  BY Params, RepeatGoes
<1>3. Goes(scr, Newline(scr))
  BY NewlineGoes
<1>4. Edit(scr, [scr EXCEPT !.col = 0]) /\ Edit(scr, [scr EXCEPT !.col = Minus(@, 1)])
  <2>1. /\ Stays(scr, [scr EXCEPT !.col = 0])
        /\ Stays(scr, [scr EXCEPT !.col = Minus(@, 1)])
    <3>1. 0 \in Nat
      OBVIOUS
    <3> QED BY <3>1, CursorStays
  <2> DEFINE c == Minus(scr.col, 1)
  <2>2. [scr EXCEPT !.col = Minus(@, 1)] = [scr EXCEPT !.col = c]
    OBVIOUS
  <2> HIDE DEF c
  <2> QED BY <2>1, <2>2, HistStill DEF Edit
<1>5. Goes(scr, Newline([scr EXCEPT !.col = 0]))
  <2> DEFINE t == [scr EXCEPT !.col = 0]
  <2>1. Goes(scr, t) /\ Good(t)
    BY <1>4, PutCalm, StaysGoes DEF Edit
  <2> HIDE DEF t
  <2>2. Goes(t, Newline(t))
    BY <2>1, NewlineGoes
  <2> QED BY <2>1, <2>2, GoesTrans DEF t
<1>6. Shuffle(scr, ReverseIndex(scr))
  <2>1. Keeps(scr, ReverseIndex(scr))
    <3>1. 0 \in Nat
      OBVIOUS
    <3> QED BY <3>1, LinesKeeps
  <2> DEFINE g == ScrollRegionDown(scr.grid, scr.top, scr.bot, 1)
             r == Minus(scr.row, 1)
  <2>2. ReverseIndex(scr) = IF scr.row = scr.top THEN [scr EXCEPT !.grid = g]
                            ELSE [scr EXCEPT !.row = r]
    BY DEF ReverseIndex
  <2> HIDE DEF g, r
  <2> QED BY <2>1, <2>2, HistStill DEF Shuffle
<1>7. CASE \E x \in scene.glyphs : Emits("print", PrintChar(scr, x))
  BY <1>1, <1>7 DEF Emits, Others
<1>8. CASE \E n \in Counts : Emits("REP", Repeat(scr, n))
  BY <1>2, <1>8 DEF Emits, Others
<1>9. CASE Emits("LF", Newline(scr)) \/ Emits("NEL", Newline([scr EXCEPT !.col = 0]))
  BY <1>3, <1>5, <1>9 DEF Emits, Others
<1>10. CASE Emits("CR", [scr EXCEPT !.col = 0]) \/ Emits("BS", [scr EXCEPT !.col = Minus(@, 1)])
  BY <1>4, <1>10, ZenonT(60) DEF Emits, Others
<1>11. CASE Emits("RI", ReverseIndex(scr))
  BY <1>6, <1>11 DEF Emits, Others
<1> QED BY <1>7, <1>8, <1>9, <1>10, <1>11, ZenonT(60) DEF Text

(* The cursor movements of a program.                                      *)
LEMMA CursorKind ==
  ASSUME Good(scr), scene \in Scenes, Cursor PROVE Others /\ Edit(scr, scr')
<1>1. \A r \in Nat, c \in Nat, n \in Nat :
        /\ Edit(scr, CursorTo(scr, r, c)) /\ Edit(scr, RowTo(scr, r)) /\ Edit(scr, ColTo(scr, c))
        /\ Edit(scr, CursorUp(scr, n)) /\ Edit(scr, CursorDown(scr, n))
        /\ Edit(scr, CursorRight(scr, n)) /\ Edit(scr, CursorLeft(scr, n))
        /\ Edit(scr, NextLine(scr, n)) /\ Edit(scr, PrevLine(scr, n))
  <2> TAKE r \in Nat, c \in Nat, n \in Nat
  <2>1. /\ Stays(scr, CursorTo(scr, r, c)) /\ Stays(scr, RowTo(scr, r)) /\ Stays(scr, ColTo(scr, c))
        /\ Stays(scr, CursorUp(scr, n)) /\ Stays(scr, CursorDown(scr, n))
        /\ Stays(scr, CursorRight(scr, n)) /\ Stays(scr, CursorLeft(scr, n))
        /\ Stays(scr, NextLine(scr, n)) /\ Stays(scr, PrevLine(scr, n))
    BY CursorStays
  <2>2. /\ CursorTo(scr, r, c).hist = scr.hist /\ RowTo(scr, r).hist = scr.hist
        /\ ColTo(scr, c).hist = scr.hist
        /\ CursorUp(scr, n).hist = scr.hist /\ CursorDown(scr, n).hist = scr.hist
        /\ CursorRight(scr, n).hist = scr.hist /\ CursorLeft(scr, n).hist = scr.hist
        /\ NextLine(scr, n).hist = scr.hist /\ PrevLine(scr, n).hist = scr.hist
    BY HistStill
  <2> QED BY <2>1, <2>2 DEF Edit
<1>2. Edit(scr, SaveCursor(scr)) /\ Edit(scr, RestoreCursor(scr))
  BY RestoreStays, HistStill DEF Edit
<1>3. \A n \in Counts : n \in Nat /\ n - 1 \in Nat
  BY Params
<1>4. /\ \A n \in Nat : /\ Edit(scr, RowTo(scr, n)) /\ Edit(scr, ColTo(scr, n))
                        /\ Edit(scr, CursorUp(scr, n)) /\ Edit(scr, CursorDown(scr, n))
                        /\ Edit(scr, CursorRight(scr, n)) /\ Edit(scr, CursorLeft(scr, n))
                        /\ Edit(scr, NextLine(scr, n)) /\ Edit(scr, PrevLine(scr, n))
      /\ \A r \in Nat, c \in Nat : Edit(scr, CursorTo(scr, r, c))
  BY <1>1
<1>5. /\ \A r, c \in Counts : Edit(scr, CursorTo(scr, r - 1, c - 1))
      /\ \A n \in Counts : /\ Edit(scr, RowTo(scr, n - 1)) /\ Edit(scr, ColTo(scr, n - 1))
                           /\ Edit(scr, CursorUp(scr, n)) /\ Edit(scr, CursorDown(scr, n))
                           /\ Edit(scr, CursorRight(scr, n)) /\ Edit(scr, CursorLeft(scr, n))
                           /\ Edit(scr, NextLine(scr, n)) /\ Edit(scr, PrevLine(scr, n))
  BY <1>3, <1>4
<1> QED BY <1>2, <1>5, ZenonT(60) DEF Cursor, Emits, Others

(* Its tabs.                                                               *)
LEMMA TabsKind ==
  ASSUME Good(scr), scene \in Scenes, Tabs PROVE Others /\ Edit(scr, scr')
<1>1. \A on : /\ Edit(scr, TabForward(scr)) /\ Edit(scr, TabBack(scr))
              /\ Edit(scr, SetTab(scr, on)) /\ Edit(scr, ClearTabs(scr))
  BY TabStays, TabHist, HistStill DEF Edit
<1> QED BY <1>1, ZenonT(60) DEF Tabs, Emits, Others

(* What it does to whole lines.                                            *)
LEMMA LinesKind ==
  ASSUME Good(scr), scene \in Scenes, Lines
  PROVE  Others /\ (Goes(scr, scr') \/ (Shuffle(scr, scr') /\ \E op \in Shufflers : May(op)))
<1>1. \A n \in Counts : Goes(scr, RegionUp(scr, n))
  <2> TAKE n \in Counts
  <2>1. n \in Nat \ {0}
    BY Params
  <2> QED BY <2>1, RegionUpStays DEF Goes
<1>2. \A n \in Counts : /\ Keeps(scr, InsertLines(scr, n)) /\ Keeps(scr, DeleteLines(scr, n))
                        /\ Keeps(scr, RegionDown(scr, n))
  BY Params, LinesKeeps
<1>3. \A n : \A t \in {InsertLines(scr, n), DeleteLines(scr, n), RegionDown(scr, n)} :
        t.hist = scr.hist /\ t.marks = scr.marks /\ t.top = scr.top /\ t.bot = scr.bot
  BY DEF InsertLines, DeleteLines, RegionDown, Good, Fields
<1>4. \A t, b \in scene.params : Keeps(scr, SetMargins(scr, t, b))
  BY Params, MarginKeeps
<1>5. \A t, b : SetMargins(scr, t, b).hist = scr.hist /\ SetMargins(scr, t, b).marks = scr.marks
  BY DEF SetMargins, Good, Fields
<1>6. CASE \E n \in Counts : Emits("SU", RegionUp(scr, n))
  BY <1>1, <1>6 DEF Emits, Others
<1>7. CASE \E n \in Counts : \/ Emits("IL", InsertLines(scr, n)) \/ Emits("DL", DeleteLines(scr, n))
                             \/ Emits("SD", RegionDown(scr, n))
  <2>0. PICK n \in Counts : \/ Emits("IL", InsertLines(scr, n)) \/ Emits("DL", DeleteLines(scr, n))
                            \/ Emits("SD", RegionDown(scr, n))
    BY <1>7
  <2>1. PICK t \in {InsertLines(scr, n), DeleteLines(scr, n), RegionDown(scr, n)} :
          \E op \in {"IL", "DL", "SD"} : Emits(op, t)
    BY <2>0
  <2>2. Keeps(scr, t) /\ t.hist = scr.hist /\ t.marks = scr.marks /\ t.top = scr.top /\ t.bot = scr.bot
    BY <1>2, <1>3
  <2>3. Others /\ scr' = t /\ \E op \in Shufflers : May(op)
    BY <2>1 DEF Emits, Others, Shufflers
  <2> QED BY <2>2, <2>3 DEF Shuffle
<1>8. CASE \E t, b \in scene.params : Emits("DECSTBM", SetMargins(scr, t, b))
  <2>1. PICK t, b \in scene.params : Emits("DECSTBM", SetMargins(scr, t, b))
    BY <1>8
  <2>2. Others /\ scr' = SetMargins(scr, t, b) /\ May("DECSTBM")
    BY <2>1 DEF Emits, Others
  <2>3. Shuffle(scr, scr')
    BY <1>4, <1>5, <2>2 DEF Shuffle
  <2> QED BY <2>2, <2>3 DEF Shufflers
<1> QED BY <1>6, <1>7, <1>8, ZenonT(60) DEF Lines

(* What it does to cells, and ED 3.                                        *)
LEMMA CellsKind ==
  ASSUME Good(scr), scene \in Scenes, Cells
  PROVE  Others /\ (Edit(scr, scr') \/ scr' = ClearScrollback(scr))
<1>1. \A n \in Counts :
        /\ Edit(scr, [scr EXCEPT !.grid = InsertBlanks(@, scr.row, scr.col, n)])
        /\ Edit(scr, [scr EXCEPT !.grid = DeleteChars(@, scr.row, scr.col, n)])
        /\ Edit(scr, [scr EXCEPT !.grid = EraseChars(@, scr.row, scr.col, n)])
  <2> TAKE n \in Counts
  <2>1. n \in Nat
    BY Params
  <2>2. /\ Stays(scr, [scr EXCEPT !.grid = InsertBlanks(@, scr.row, scr.col, n)])
        /\ Stays(scr, [scr EXCEPT !.grid = DeleteChars(@, scr.row, scr.col, n)])
        /\ Stays(scr, [scr EXCEPT !.grid = EraseChars(@, scr.row, scr.col, n)])
    BY <2>1, EditStays
  <2>3. /\ [scr EXCEPT !.grid = InsertBlanks(@, scr.row, scr.col, n)].hist = scr.hist
        /\ [scr EXCEPT !.grid = DeleteChars(@, scr.row, scr.col, n)].hist = scr.hist
        /\ [scr EXCEPT !.grid = EraseChars(@, scr.row, scr.col, n)].hist = scr.hist
    BY DEF Good, Fields
  <2> QED BY <2>2, <2>3 DEF Edit
<1>2. \A mode \in 0 .. 2 : Edit(scr, EraseInLine(scr, mode)) /\ Edit(scr, EraseInDisplay(scr, mode))
  <2> TAKE mode \in 0 .. 2
  <2>1. Stays(scr, EraseInLine(scr, mode)) /\ Stays(scr, EraseInDisplay(scr, mode))
    BY ClearStays
  <2>2. \A block : Erase(scr, block).hist = scr.hist
    <3> TAKE block
    <3> QED BY DEF Erase, Good, Fields
  <2>3. [scr EXCEPT !.grid = Clear(@), !.row = 0, !.col = 0].hist = scr.hist
    BY DEF Good, Fields
  <2>4. mode = 0 \/ mode = 1 \/ mode = 2
    OBVIOUS
  <2>5. EraseInDisplay(scr, mode).hist = scr.hist
    <3>1. CASE mode = 0
      BY <2>2, <3>1 DEF EraseInDisplay
    <3>2. CASE mode = 1
      BY <2>2, <3>2 DEF EraseInDisplay
    <3>3. CASE mode = 2
      <4>1. EraseInDisplay(scr, 2) = [scr EXCEPT !.grid = Clear(@), !.row = 0, !.col = 0]
        BY DEF EraseInDisplay
      <4> QED BY <2>3, <3>3, <4>1
    <3> QED BY <2>4, <3>1, <3>2, <3>3
  <2> QED BY <2>1, <2>2, <2>5 DEF Edit, EraseInLine
<1>3. EraseInDisplay(scr, 3) = ClearScrollback(scr)
  BY DEF EraseInDisplay
<1> QED BY <1>1, <1>2, <1>3, ZenonT(60) DEF Cells, Emits, Others

(* The other kinds.                                                        *)
Enters(s, t) == ~OnAlt(s) /\ Fine(s, t) /\ Entered(s, t)
Leaves(s, t) == OnAlt(s) /\ Fine(s, t) /\ Left(s, t)
Blanks1(s, t) == Fine(s, t) /\ ~OnAlt(t) /\ Blanked(s, t)

(* Its modes, screens and resets.                                          *)
LEMMA ModesKind ==
  ASSUME Good(scr), scene \in Scenes, Modes
  PROVE  /\ Others
         /\ \/ Edit(scr, scr')
            \/ Enters(scr, scr') /\ May("altOn")
            \/ Leaves(scr, scr')
            \/ Blanks1(scr, scr')
<1>1. \A on \in BOOLEAN :
        /\ Edit(scr, [scr EXCEPT !.insert = on]) /\ Edit(scr, [scr EXCEPT !.autowrap = on])
        /\ Edit(scr, [scr EXCEPT !.reverse = on])
        /\ Edit(scr, [scr EXCEPT !.origin = on, !.col = 0, !.row = IF on THEN scr.top ELSE 0])
  <2> TAKE on \in BOOLEAN
  <2> DEFINE r == IF on THEN scr.top ELSE 0
  <2>1. /\ Stays(scr, [scr EXCEPT !.insert = on]) /\ Stays(scr, [scr EXCEPT !.autowrap = on])
        /\ Stays(scr, [scr EXCEPT !.reverse = on])
        /\ Stays(scr, [scr EXCEPT !.origin = on, !.col = 0, !.row = r])
    BY ModeStays
  <2> HIDE DEF r
  <2>2. /\ Edit(scr, [scr EXCEPT !.insert = on]) /\ Edit(scr, [scr EXCEPT !.autowrap = on])
        /\ Edit(scr, [scr EXCEPT !.reverse = on])
        /\ Edit(scr, [scr EXCEPT !.origin = on, !.col = 0, !.row = r])
    BY <2>1, HistStill DEF Edit
  <2> QED BY <2>2 DEF r
<1>2. Edit(scr, scr)
  BY StaysSame DEF Edit
<1>3. \A mode \in AltModes : Edit(scr, EnterAlt(scr, mode)) \/ Enters(scr, EnterAlt(scr, mode))
  <2> TAKE mode \in AltModes
  <2>1. CASE OnAlt(scr)
    BY <1>2, <2>1 DEF EnterAlt
  <2>2. CASE ~OnAlt(scr)
    BY <2>2, EnterSound DEF Enters, Fine
  <2> QED BY <2>1, <2>2
<1>4. \A mode \in AltModes : Edit(scr, LeaveAlt(scr, mode)) \/ Leaves(scr, LeaveAlt(scr, mode))
  <2> TAKE mode \in AltModes
  <2>1. CASE ~OnAlt(scr)
    BY <1>2, <2>1 DEF LeaveAlt
  <2>2. CASE OnAlt(scr)
    BY <2>2, LeaveSound DEF Leaves, Fine
  <2> QED BY <2>1, <2>2
<1>5. Edit(scr, Reset(scr, FALSE)) /\ Blanks1(scr, Reset(scr, TRUE))
  <2>1. Reset(scr, FALSE).hist = scr.hist
    BY DEF Reset, Good, Fields
  <2> QED BY <2>1, SoftResetStays, HardResetSound DEF Edit, Blanks1, Fine
<1>6. CASE \E on \in BOOLEAN :
             \/ Emits("IRM", [scr EXCEPT !.insert = on])
             \/ Emits("DECAWM", [scr EXCEPT !.autowrap = on])
             \/ Emits("DECSCNM", [scr EXCEPT !.reverse = on])
             \/ Emits("DECOM", [scr EXCEPT !.origin = on, !.col = 0,
                                          !.row = IF on THEN scr.top ELSE 0])
  <2>1. PICK on \in BOOLEAN :
             \/ Emits("IRM", [scr EXCEPT !.insert = on])
             \/ Emits("DECAWM", [scr EXCEPT !.autowrap = on])
             \/ Emits("DECSCNM", [scr EXCEPT !.reverse = on])
             \/ Emits("DECOM", [scr EXCEPT !.origin = on, !.col = 0,
                                          !.row = IF on THEN scr.top ELSE 0])
    BY <1>6
  <2>2. Others /\ Edit(scr, scr')
    BY <1>1, <2>1, ZenonT(60) DEF Emits, Others
  <2> QED BY <2>2
<1>7. CASE \E mode \in AltModes : \/ Emits("altOn", EnterAlt(scr, mode))
                                  \/ Emits("altOff", LeaveAlt(scr, mode))
  <2>1. PICK mode \in AltModes : \/ Emits("altOn", EnterAlt(scr, mode))
                                 \/ Emits("altOff", LeaveAlt(scr, mode))
    BY <1>7
  <2>2. CASE Emits("altOn", EnterAlt(scr, mode))
    <3>1. Others /\ May("altOn") /\ (Edit(scr, scr') \/ Enters(scr, scr'))
      BY <1>3, <2>2 DEF Emits, Others
    <3> QED BY <3>1
  <2>3. CASE Emits("altOff", LeaveAlt(scr, mode))
    <3>1. Others /\ (Edit(scr, scr') \/ Leaves(scr, scr'))
      BY <1>4, <2>3 DEF Emits, Others
    <3> QED BY <3>1
  <2> QED BY <2>1, <2>2, <2>3
<1>8. CASE Emits("DECSTR", Reset(scr, FALSE)) \/ Emits("RIS", Reset(scr, TRUE))
  <2>1. Others /\ (Edit(scr, scr') \/ Blanks1(scr, scr'))
    BY <1>5, <1>8 DEF Emits, Others
  <2> QED BY <2>1
<1> QED BY <1>6, <1>7, <1>8, ZenonT(60) DEF Modes

Prompts(s, t) == Fine(s, t) /\ (OnAlt(t) => OnAlt(s)) /\ t.hist = s.hist
                 /\ \E id \in Anchors \ (TagsOf(s) \cup MarkIds(s)) : Prompted(s, t, id)
Clears(s, t) == Fine(s, t) /\ (OnAlt(t) => OnAlt(s)) /\ Cleared(s, t)

(* Its prompt marks.                                                       *)
LEMMA PromptKind ==
  ASSUME Good(scr), scene \in Scenes, Prompt
  PROVE  Others /\ (Edit(scr, scr') \/ (Prompts(scr, scr') /\ May("mark")))
<1>1. PICK id \in Anchors \ (TagsOf(scr) \cup MarkIds(scr)) : Emits("mark", PromptMark(scr, id))
  BY DEF Prompt
<1>2. CASE PromptMark(scr, id) = scr
  BY <1>1, <1>2, StaysSame DEF Emits, Others, Edit
<1>3. CASE PromptMark(scr, id) # scr
  <2>1. id \in Anchors
    OBVIOUS
  <2>2. Prompts(scr, PromptMark(scr, id))
    BY <1>3, <2>1, PromptSound DEF Prompts, Fine
  <2> QED BY <1>1, <2>2 DEF Emits, Others
<1> QED BY <1>2, <1>3

(* Every step of the program in the pane is of one of these kinds.         *)
Kinds(s, t) == \/ Goes(s, t)
               \/ Edit(s, t)
               \/ Shuffle(s, t) /\ \E op \in Shufflers : May(op)
               \/ Enters(s, t) /\ May("altOn")
               \/ Leaves(s, t)
               \/ Blanks1(s, t)
               \/ Prompts(s, t) /\ May("mark")
               \/ Clears(s, t)

(* A step of the program in the pane is of one of the kinds, and it        *)
(* touches the screen only.                                                *)
LEMMA ProgramKind ==
  ASSUME Good(scr), scene \in Scenes, Program PROVE Others /\ Kinds(scr, scr')
<1>1. Clears(scr, ClearScrollback(scr))
  BY ClearSound DEF Clears, Fine
<1>2. "RI" \in Shufflers
  BY DEF Shufflers
<1> QED BY <1>1, <1>2, TextKind, CursorKind, TabsKind, LinesKind, CellsKind, ModesKind, PromptKind
        DEF Program, Kinds

-----------------------------------------------------------------------------
(* The invariant *)

NoAltResize == \A s \in Scenes : "altOn" \notin s.shell \/ "resize" \notin s.ui

(* The cap stays what it was at spawn: then the scrollback fits it and the *)
(* view fits the scrollback.                                               *)
FixedCap == scene.caps \subseteq {scene.cap0}
CapHolds(s) == s.cap = scene.cap0 /\ Len(s.hist) <= s.cap /\ s.view <= Len(s.hist)

(* The rows that were drawn are those shown, unless there is damage; or a  *)
(* cleared scrollback has moved the view, and the key tells.               *)
Drawn(c, s) ==
  ~IsDamaged(s.grid) =>
    /\ c.key.rows = s.grid.rows /\ c.key.cols = s.grid.cols
    /\ \/ c.key.view = s.view /\ c.shown = Visible(s)
       \/ s.view = 0 /\ c.key.view # 0

IInv ==
  /\ scene \in Scenes
  /\ Good(scr)
  /\ GridFitsWindow
  /\ OnAlt(scr) => "altOn" \in scene.shell
  /\ FixedCap => CapHolds(scr)
  /\ cache # <<>> => Drawn(cache[1], scr)

(* A screen at spawn is well formed.                                       *)
LEMMA InitGood ==
  ASSUME NEW rows \in Nat \ {0}, NEW cols \in Nat \ {0}, NEW cap \in Nat
  PROVE  LET s == NewScreen(rows, cols, cap)
         IN  /\ Good(s) /\ ~OnAlt(s) /\ s.grid.rows = rows /\ s.grid.cols = cols
             /\ s.cap = cap /\ s.hist = <<>> /\ s.view = 0 /\ s.marks = <<>>
             /\ s.top = 0 /\ s.bot = rows - 1
<1> DEFINE g == NewGrid(rows, cols)
           tabs == TabStops(cols)
           s == NewScreen(rows, cols, cap)
<1>1. GridOK(g) /\ g.rows = rows /\ g.cols = cols
  BY NewGridOK
<1>2. DOMAIN tabs = Span(cols)
  BY DEF TabStops
<1>3. /\ DOMAIN s = Fields /\ s.grid = g /\ s.row = 0 /\ s.col = 0 /\ s.top = 0 /\ s.bot = rows - 1
      /\ s.saved = <<>> /\ s.savedCursor = <<>> /\ s.hist = <<>> /\ s.cap = cap /\ s.view = 0
      /\ s.marks = <<>> /\ s.tabs = tabs /\ s.last = <<>>
  <2> HIDE DEF g, tabs
  <2> QED BY DEF NewScreen, Fields, g, tabs
<1> HIDE DEF s, g, tabs
<1>4. OnGrid(s) /\ Margins(s)
  BY <1>1, <1>3 DEF OnGrid, Margins, Cols2, Most, Span
<1>5. SavedOK(s) /\ ListsOK(s) /\ RestOK(s) /\ ~OnAlt(s)
  BY <1>1, <1>2, <1>3, MarksAssumption DEF SavedOK, OnAlt, ListsOK, RestOK
<1>6. Good(s)
  BY <1>1, <1>3, <1>4, <1>5 DEF Good
<1> QED BY <1>1, <1>3, <1>5, <1>6 DEF s

(* The invariant holds at spawn.                                           *)
LEMMA InitInv == Init => IInv
<1> SUFFICES ASSUME Init PROVE IInv
  OBVIOUS
<1>1. /\ scene \in Scenes /\ scene.size0 \in Dims /\ scene.cap0 \in Nat
      /\ scr = NewScreen(scene.size0.rows, scene.size0.cols, scene.cap0)
      /\ cache = <<>> /\ size = scene.size0
  BY ScenesAssumption DEF Init
<1>2. scene.size0.rows \in Nat \ {0} /\ scene.size0.cols \in Nat \ {0}
  BY <1>1 DEF Dims
<1>3. /\ Good(scr) /\ ~OnAlt(scr) /\ scr.grid.rows = size.rows /\ scr.grid.cols = size.cols
      /\ scr.cap = scene.cap0 /\ scr.hist = <<>> /\ scr.view = 0
  BY SMTT(30), <1>1, <1>2, InitGood
<1> QED BY <1>1, <1>3 DEF IInv, GridFitsWindow, CapHolds

(* A step that is sound for the screen keeps the invariant.                *)
LEMMA SoundStep ==
  ASSUME IInv, Sound(scr, scr'), FixedCap => CapStep(scr, scr'),
         OnAlt(scr') => OnAlt(scr) \/ "altOn" \in scene.shell,
         UNCHANGED <<cache, size, scene>>
  PROVE  IInv'
<1>1. scene' = scene /\ size' = size /\ cache' = cache
  OBVIOUS
<1>2. Good(scr') /\ scr'.grid.rows = scr.grid.rows /\ scr'.grid.cols = scr.grid.cols
  BY DEF Sound
<1>3. GridFitsWindow'
  BY <1>1, <1>2 DEF IInv, GridFitsWindow
<1>4. OnAlt(scr') => "altOn" \in scene'.shell
  BY <1>1 DEF IInv
<1>5. FixedCap' => CapHolds(scr)'
  BY <1>1 DEF IInv, CapHolds, CapStep, FixedCap
<1>6. ASSUME cache # <<>> PROVE Drawn(cache[1], scr')
  <2> SUFFICES ASSUME ~IsDamaged(scr'.grid)
               PROVE  /\ cache[1].key.rows = scr'.grid.rows /\ cache[1].key.cols = scr'.grid.cols
                      /\ \/ cache[1].key.view = scr'.view /\ cache[1].shown = Visible(scr')
                         \/ scr'.view = 0 /\ cache[1].key.view # 0
    BY DEF Drawn
  <2>1. /\ ~IsDamaged(scr.grid)
        /\ \/ scr'.view = scr.view /\ Visible(scr') = Visible(scr)
           \/ scr'.view = 0 /\ scr.view # 0
    BY DEF Sound, DrawStep
  <2>2. /\ cache[1].key.rows = scr.grid.rows /\ cache[1].key.cols = scr.grid.cols
        /\ \/ cache[1].key.view = scr.view /\ cache[1].shown = Visible(scr)
           \/ scr.view = 0 /\ cache[1].key.view # 0
    BY <1>6, <2>1 DEF IInv, Drawn
  <2> QED BY <1>2, <2>1, <2>2
<1>7. (cache # <<>> => Drawn(cache[1], scr))'
  BY <1>1, <1>6
<1>8. scene' \in Scenes
  BY <1>1 DEF IInv
<1>9. Good(scr)' /\ (OnAlt(scr) => "altOn" \in scene.shell)'
  BY <1>2, <1>4 DEF OnAlt
<1> QED BY <1>3, <1>5, <1>7, <1>8, <1>9 DEF IInv

(* Each kind is sound, keeps the scrollback within its cap, and shows the  *)
(* alternate screen only where the program may.                            *)
LEMMA KindSound ==
  ASSUME IInv, Kinds(scr, scr')
  PROVE  Sound(scr, scr') /\ CapStep(scr, scr') /\ (OnAlt(scr') => OnAlt(scr) \/ "altOn" \in scene.shell)
<1>1. Good(scr)
  BY DEF IInv
<1>2. CASE Goes(scr, scr') \/ Edit(scr, scr') \/ Shuffle(scr, scr')
  BY <1>1, <1>2, KeepsSound DEF Goes, Edit, Stays, Shuffle
<1>3. CASE Enters(scr, scr') /\ May("altOn")
  BY <1>3 DEF Enters, Fine, May
<1>4. CASE Leaves(scr, scr') \/ Blanks1(scr, scr')
  BY <1>4 DEF Leaves, Blanks1, Fine
<1>5. CASE Prompts(scr, scr') \/ Clears(scr, scr')
  BY <1>5 DEF Prompts, Clears, Fine
<1> QED BY <1>2, <1>3, <1>4, <1>5 DEF Kinds

(* The program keeps the invariant.                                        *)
LEMMA ProgramStep == IInv /\ Program => IInv'
<1> SUFFICES ASSUME IInv, Program PROVE IInv'
  OBVIOUS
<1>1. Good(scr) /\ scene \in Scenes
  BY DEF IInv
<1>2. Others /\ Kinds(scr, scr')
  BY <1>1, ProgramKind
<1> QED BY <1>2, KindSound, SoundStep DEF Others

(* What the user does without resizing: a move of the view, a clear, and   *)
(* another cap.                                                            *)
Views(s, t) == Fine(s, t) /\ (OnAlt(t) => OnAlt(s)) /\ t.hist = s.hist
               /\ t.marks = s.marks /\ t.saved = s.saved /\ t.grid.line = s.grid.line
               /\ t.top = s.top /\ t.bot = s.bot
Capped(s, t) == Sound(s, t) /\ \E n \in scene.caps : t = [s EXCEPT !.cap = n]

(* A new cap changes nothing that is shown.                                *)
LEMMA CapSound ==
  ASSUME NEW s, Good(s), NEW n \in Nat
  PROVE  LET t == [s EXCEPT !.cap = n]
         IN  Sound(s, t) /\ (OnAlt(t) => OnAlt(s)) /\ (n = s.cap => CapStep(s, t))
<1> DEFINE t == [s EXCEPT !.cap = n]
<1>1. /\ DOMAIN t = Fields /\ t.cap = n /\ \A f \in Fields \ {"cap"} : t[f] = s[f]
  BY DEF Good, Fields
<1> HIDE DEF t
<1>2. /\ t.grid = s.grid /\ t.row = s.row /\ t.col = s.col /\ t.top = s.top /\ t.bot = s.bot
      /\ t.saved = s.saved /\ t.hist = s.hist /\ t.view = s.view /\ t.marks = s.marks
      /\ t.tabs = s.tabs /\ t.savedCursor = s.savedCursor /\ t.last = s.last
  BY <1>1 DEF Fields
<1>3. Good(t)
  BY <1>1, <1>2 DEF Good, OnGrid, Cols2, Margins, SavedOK, OnAlt, ListsOK, RestOK
<1>4. DrawStep(s, t)
  <2>1. SameCells(s.hist, t.hist) /\ SameChars(s.grid, t.grid)
    BY <1>2 DEF SameCells, SameChars
  <2>2. Visible(t) = Visible(s)
    BY <1>2, <1>3, <2>1, VisibleSame
  <2> QED BY <1>2, <2>2 DEF DrawStep
<1> QED BY <1>1, <1>2, <1>3, <1>4 DEF Sound, AltStep, CapStep, OnAlt, t

(* A move of the view leaves the text alone.                               *)
LEMMA ViewParts ==
  ASSUME NEW s, Good(s), NEW v
  PROVE  LET t == [s EXCEPT !.view = v, !.grid = Touch(@)]
         IN  /\ t.marks = s.marks /\ t.saved = s.saved /\ t.grid.line = s.grid.line
             /\ t.top = s.top /\ t.bot = s.bot
<1> DEFINE t == [s EXCEPT !.view = v, !.grid = Touch(@)]
<1>1. /\ t.grid = Touch(s.grid) /\ t.marks = s.marks /\ t.saved = s.saved
      /\ t.top = s.top /\ t.bot = s.bot
  BY DEF Good, Fields
<1>2. Touch(s.grid).line = s.grid.line
  BY WholeEdits DEF Good
<1> HIDE DEF t
<1> QED BY <1>1, <1>2 DEF t

(* A step of the user that is not a resize moves the view, clears the      *)
(* scrollback or sets the cap.                                             *)
LEMMA UserKind ==
  ASSUME Good(scr), scene \in Scenes, User, ~ResizePane
  PROVE  Others /\ (Views(scr, scr') \/ Clears(scr, scr') \/ Capped(scr, scr'))
<1>1. ASSUME NEW v PROVE LET t == [scr EXCEPT !.view = v, !.grid = Touch(@)]
                         IN  /\ t.marks = scr.marks /\ t.saved = scr.saved
                             /\ t.grid.line = scr.grid.line /\ t.top = scr.top /\ t.bot = scr.bot
  BY ViewParts
<1> DEFINE Same1(t) == /\ t.marks = scr.marks /\ t.saved = scr.saved
                       /\ t.grid.line = scr.grid.line /\ t.top = scr.top /\ t.bot = scr.bot
<1>2. \A n : Same1(SetView(scr, n)) /\ Same1(ScrollUpView(scr, n)) /\ Same1(ScrollDownView(scr, n))
  BY <1>1 DEF SetView, ScrollUpView, ScrollDownView
<1>3. /\ Same1(ScrollToBottom(scr)) /\ Same1(ScrollToTop(scr))
      /\ \A fwd \in BOOLEAN : Same1(JumpToPrompt(scr, fwd))
  <2>1. \A fwd \in BOOLEAN : JumpToPrompt(scr, fwd) = scr \/ \E n : JumpToPrompt(scr, fwd) = SetView(scr, n)
    BY JumpTarget
  <2> QED BY <1>2, <2>1 DEF ScrollToBottom, ScrollToTop
<1> HIDE DEF Same1
<1>4. \A n \in Counts, fwd \in BOOLEAN :
        \A t \in {ScrollUpView(scr, n), ScrollDownView(scr, n), ScrollToBottom(scr),
                  ScrollToTop(scr), JumpToPrompt(scr, fwd)} :
          Fine(scr, t) /\ (OnAlt(t) => OnAlt(scr)) /\ t.hist = scr.hist
  BY Params, UserSound DEF Fine
<1>5. \A fwd \in BOOLEAN :
        \A t \in {ScrollToBottom(scr), ScrollToTop(scr), JumpToPrompt(scr, fwd)} :
          Fine(scr, t) /\ (OnAlt(t) => OnAlt(scr)) /\ t.hist = scr.hist
  <2>1. 0 \in Nat
    OBVIOUS
  <2> QED BY <2>1, UserSound DEF Fine
<1>6. CASE \E n \in Counts : UserDoes("wheelUp", ScrollUpView(scr, n))
                             \/ UserDoes("wheelDown", ScrollDownView(scr, n))
  <2>1. TRUE \in BOOLEAN
    OBVIOUS
  <2> QED BY <1>2, <1>4, <1>6, <2>1 DEF UserDoes, Others, Views, Same1
<1>7. CASE UserDoes("bottom", ScrollToBottom(scr)) \/ UserDoes("top", ScrollToTop(scr))
  <2>1. TRUE \in BOOLEAN
    OBVIOUS
  <2> QED BY <1>3, <1>5, <1>7, <2>1 DEF UserDoes, Others, Views, Same1
<1>8. CASE \E fwd \in BOOLEAN : UserDoes("jump", JumpToPrompt(scr, fwd))
  BY <1>3, <1>5, <1>8 DEF UserDoes, Others, Views, Same1
<1>9. CASE UserDoes("clear", ClearScrollback(scr))
  BY <1>9, ClearSound DEF UserDoes, Others, Clears, Fine
<1>10. CASE \E n \in scene.caps : UserDoes("cap", [scr EXCEPT !.cap = n])
  <2>1. PICK n \in scene.caps : UserDoes("cap", [scr EXCEPT !.cap = n])
    BY <1>10
  <2>2. n \in Nat
    BY ScenesAssumption
  <2>3. Sound(scr, [scr EXCEPT !.cap = n])
    BY <2>2, CapSound
  <2> QED BY <2>1, <2>3 DEF UserDoes, Others, Capped
<1> QED BY <1>6, <1>7, <1>8, <1>9, <1>10, ZenonT(60) DEF User

(* A step that leaves the grid with damage has nothing to say of the cache.*)
LEMMA ResizeStep == NoAltResize /\ IInv /\ ResizePane => IInv'
<1> SUFFICES ASSUME NoAltResize, IInv, ResizePane PROVE IInv'
  OBVIOUS
<1>1. PICK d \in scene.sizes \ {size} : size' = d /\ scr' = Resize(scr, d.rows, d.cols)
  BY DEF ResizePane
<1>2. scene' = scene /\ cache' = cache /\ "resize" \in scene.ui /\ scene \in Scenes
  BY DEF ResizePane, IInv
<1>3. ~OnAlt(scr) /\ Good(scr)
  BY <1>2 DEF NoAltResize, IInv
<1>4. d.rows \in Nat \ {0} /\ d.cols \in Nat \ {0}
  <2>1. d \in Dims
    BY <1>2, ScenesAssumption
  <2> QED BY <2>1 DEF Dims
<1>5. Sized(scr, scr', d.rows, d.cols)
  BY <1>1, <1>3, <1>4, ResizeSized
<1>6. Good(scr') /\ IsDamaged(scr'.grid) /\ ~OnAlt(scr') /\ GridFitsWindow'
  BY <1>1, <1>3, <1>5 DEF Sized, OnAlt, GridFitsWindow
<1>7. FixedCap' => CapHolds(scr)'
  <2>1. FixedCap => CapHolds(scr')
    BY <1>5 DEF IInv, CapHolds, Sized
  <2> QED BY <1>2, <2>1 DEF FixedCap, CapHolds
<1>8. (cache # <<>> => Drawn(cache[1], scr))'
  BY <1>6 DEF Drawn
<1>9. Good(scr)' /\ (OnAlt(scr) => "altOn" \in scene.shell)' /\ scene' \in Scenes
  BY <1>2, <1>6 DEF OnAlt
<1> QED BY <1>6, <1>7, <1>8, <1>9 DEF IInv

(* The user keeps the invariant.                                           *)
LEMMA UserStep == NoAltResize /\ IInv /\ User => IInv'
<1> SUFFICES ASSUME NoAltResize, IInv, User PROVE IInv'
  OBVIOUS
<1>1. Good(scr) /\ scene \in Scenes
  BY DEF IInv
<1>2. CASE ResizePane
  BY <1>2, ResizeStep
<1>3. CASE ~ResizePane
  <2>1. Others /\ (Views(scr, scr') \/ Clears(scr, scr') \/ Capped(scr, scr'))
    BY <1>1, <1>3, UserKind
  <2>2. CASE Views(scr, scr') \/ Clears(scr, scr')
    <3>1. Sound(scr, scr') /\ CapStep(scr, scr') /\ (OnAlt(scr') => OnAlt(scr))
      BY <2>2 DEF Views, Clears, Fine
    <3> QED BY <2>1, <3>1, SoundStep DEF Others
  <2>3. CASE Capped(scr, scr')
    <3>1. PICK n \in scene.caps : scr' = [scr EXCEPT !.cap = n]
      BY <2>3 DEF Capped
    <3>2. n \in Nat
      BY <1>1, ScenesAssumption
    <3>3. Sound(scr, scr') /\ (OnAlt(scr') => OnAlt(scr)) /\ (n = scr.cap => CapStep(scr, scr'))
      BY <1>1, <3>1, <3>2, CapSound
    <3>4. FixedCap => n = scr.cap
      BY <3>1 DEF IInv, FixedCap, CapHolds
    <3> QED BY <2>1, <3>3, <3>4, SoundStep DEF Others
  <2> QED BY <2>1, <2>2, <2>3
<1> QED BY <1>2, <1>3

(* The selected line is one of the screen's.                               *)
LEMMA SelectKind ==
  ASSUME Good(scr), Select
  PROVE  \E id \in Anchors \ (TagsOf(scr) \cup MarkIds(scr)), r \in Span(scr.grid.rows) :
           LET n == FirstShown(scr) + r
           IN  /\ n \in Span(Total(scr)) /\ n = WindowStart(scr) + r
               /\ sel' = <<[line |-> n, id |-> id]>>
               /\ scr' = ChooseLine(scr, n, id)
<1>1. PICK id \in Anchors \ (TagsOf(scr) \cup MarkIds(scr)), r \in Span(scr.grid.rows) :
        /\ sel' = <<[line |-> WindowStart(scr) + r, id |-> id]>>
        /\ scr' = ChooseLine(scr, FirstShown(scr) + r, id)
  BY ZenonT(60) DEF Select, ChooseLine
<1>2. /\ Total(scr) = Len(scr.hist) + scr.grid.rows /\ Len(LinesOf(scr)) = Total(scr)
      /\ Len(scr.hist) \in Nat /\ scr.grid.rows \in Nat \ {0} /\ scr.view \in Nat
  BY LinesParts, TotalNat, GoodGrid DEF Total, Good, RestOK
<1>3. FirstShown(scr) = WindowStart(scr) /\ WindowStart(scr) \in Nat
      /\ WindowStart(scr) <= Len(scr.hist)
  <2> DEFINE h == Len(scr.hist)
             n == scr.grid.rows
             v == scr.view
  <2>1. /\ FirstShown(scr) = Minus(Minus(h + n, v), n) /\ WindowStart(scr) = Minus(h, v)
        /\ h \in Nat /\ n \in Nat \ {0} /\ v \in Nat
    BY <1>2 DEF FirstShown, EndShown, WindowStart
  <2> HIDE DEF h, n, v
  <2>2. /\ Minus(Minus(h + n, v), n) = Minus(h, v)
        /\ Minus(h, v) \in Nat /\ Minus(h, v) <= h
    BY <2>1 DEF Minus
  <2> QED BY <2>1, <2>2 DEF h
<1>4. FirstShown(scr) + r \in Span(Total(scr))
  BY <1>2, <1>3 DEF Span
<1> QED BY <1>1, <1>3, <1>4

(* A selection keeps the invariant.                                        *)
LEMMA SelectStep == IInv /\ Select => IInv'
<1> SUFFICES ASSUME IInv, Select PROVE IInv'
  OBVIOUS
<1>1. Good(scr)
  BY DEF IInv
<1>2. PICK n \in Span(Total(scr)), id \in Anchors : scr' = ChooseLine(scr, n, id)
  BY <1>1, SelectKind
<1>3. Sound(scr, scr') /\ CapStep(scr, scr') /\ (OnAlt(scr') => OnAlt(scr))
  BY <1>1, <1>2, SelectSound
<1>4. UNCHANGED <<cache, size, scene>>
  BY DEF Select
<1> QED BY <1>3, <1>4, SoundStep

(* Drawing clears the damage and nothing else.                             *)
Redrawn(s, t) == /\ DOMAIN t = Fields /\ \A f \in Fields \ {"grid"} : t[f] = s[f]
                 /\ t.grid.line = s.grid.line /\ Good(t)
                 /\ t.grid.rows = s.grid.rows /\ t.grid.cols = s.grid.cols

(* A frame that rebuilds its rows: the cache holds what is shown.          *)
LEMMA RenderKind ==
  ASSUME Good(scr), Render
  PROVE  /\ Redrawn(scr, scr') /\ Visible(scr') = Visible(scr)
         /\ cache' = <<[key |-> KeyOf(scr), shown |-> Visible(scr)]>>
         /\ UNCHANGED <<sel, size, scene>>
<1> DEFINE g == ClearDamage(scr.grid)
           t == [scr EXCEPT !.grid = g]
<1>1. scr' = t
  BY DEF Render
<1>2. /\ GridOK(scr.grid) /\ DOMAIN scr = Fields
  BY DEF Good
<1>3. /\ g.line = scr.grid.line /\ g.rows = scr.grid.rows /\ g.cols = scr.grid.cols /\ GridOK(g)
  BY <1>2, WholeEdits DEF Same
<1> HIDE DEF g
<1>4. t.grid = g /\ DOMAIN t = Fields /\ \A f \in Fields \ {"grid"} : t[f] = scr[f]
  BY <1>2 DEF Fields
<1> HIDE DEF t
<1>5. /\ t.row = scr.row /\ t.col = scr.col /\ t.top = scr.top /\ t.bot = scr.bot
      /\ t.saved = scr.saved /\ t.hist = scr.hist /\ t.view = scr.view /\ t.marks = scr.marks
      /\ t.cap = scr.cap /\ t.tabs = scr.tabs /\ t.savedCursor = scr.savedCursor /\ t.last = scr.last
  BY <1>4 DEF Fields
<1>6. Good(t)
  BY <1>3, <1>4, <1>5 DEF Good, OnGrid, Cols2, Margins, SavedOK, OnAlt, ListsOK, RestOK, Same
<1>7. Visible(t) = Visible(scr)
  <2>1. SameCells(scr.hist, t.hist) /\ SameChars(scr.grid, t.grid)
    BY <1>3, <1>4, <1>5 DEF SameCells, SameChars
  <2> QED BY <1>3, <1>4, <1>5, <1>6, <2>1, VisibleSame
<1> QED BY <1>1, <1>3, <1>4, <1>6, <1>7 DEF Redrawn, Render

(* The renderer keeps the invariant.                                       *)
LEMMA RenderStep == IInv /\ Render => IInv'
<1> SUFFICES ASSUME IInv, Render PROVE IInv'
  OBVIOUS
<1>1. /\ Redrawn(scr, scr') /\ Visible(scr') = Visible(scr)
      /\ cache' = <<[key |-> KeyOf(scr), shown |-> Visible(scr)]>>
      /\ size' = size /\ scene' = scene
  BY RenderKind DEF IInv
<1>2. /\ scr'.saved = scr.saved /\ scr'.hist = scr.hist /\ scr'.view = scr.view /\ scr'.cap = scr.cap
  BY <1>1 DEF Redrawn, Fields
<1>3. Drawn(cache'[1], scr')
  <2>1. /\ cache'[1].key.rows = scr.grid.rows /\ cache'[1].key.cols = scr.grid.cols
        /\ cache'[1].key.view = scr.view /\ cache'[1].shown = Visible(scr)
    BY <1>1 DEF KeyOf
  <2> QED BY <1>1, <1>2, <2>1 DEF Drawn, Redrawn
<1>4. Good(scr') /\ GridFitsWindow'
  BY <1>1 DEF Redrawn, IInv, GridFitsWindow
<1>5. OnAlt(scr') = OnAlt(scr) /\ CapHolds(scr)' = CapHolds(scr) /\ FixedCap' = FixedCap
  BY <1>1, <1>2 DEF OnAlt, CapHolds, FixedCap
<1>6. (cache # <<>> => Drawn(cache[1], scr))'
  BY <1>3
<1>7. (OnAlt(scr) => "altOn" \in scene.shell)' /\ (FixedCap => CapHolds(scr))' /\ (scene \in Scenes)'
  BY <1>1, <1>5 DEF IInv, OnAlt
<1> QED BY <1>4, <1>6, <1>7 DEF IInv

(* Every step keeps the invariant.                                         *)
LEMMA InvStep == NoAltResize /\ IInv /\ [Next]_vars => IInv'
<1> SUFFICES ASSUME NoAltResize, IInv, [Next]_vars PROVE IInv'
  OBVIOUS
<1>1. CASE Program
  BY <1>1, ProgramStep
<1>2. CASE User
  BY <1>2, UserStep
<1>3. CASE Select
  BY <1>3, SelectStep
<1>4. CASE Render
  BY <1>4, RenderStep
<1>5. CASE UNCHANGED vars
  BY <1>5 DEF vars, IInv, GridFitsWindow, OnAlt, FixedCap, CapHolds
<1> QED BY <1>1, <1>2, <1>3, <1>4, <1>5 DEF Next

(* A line of width n has n cells.                                          *)
LEMMA SpanSize == ASSUME NEW n \in Nat \ {0} PROVE Cardinality(Span(n)) = n
<1>1. 0 \in Int /\ n - 1 \in Int
  OBVIOUS
<1>2. Cardinality(0 .. (n - 1)) = IF 0 > n - 1 THEN 0 ELSE (n - 1) - 0 + 1
  BY <1>1, FS_Interval
<1> QED BY <1>2 DEF Span

(* The invariant and the type invariant of the model.                      *)
LEMMA GoodShape == IInv => TypeOK
<1> SUFFICES ASSUME IInv PROVE TypeOK
  OBVIOUS
<1>1. Good(scr)
  BY DEF IInv
<1>2. ScreenOK(scr)
  <2>1. scr.row \in Nat /\ scr.col \in Nat /\ scr.top \in Nat /\ scr.bot \in Nat
    BY <1>1 DEF Good, OnGrid, Margins, Span
  <2>2. scr.saved # <<>> => GridOK(scr.saved[1].grid)
    BY <1>1 DEF Good, SavedOK, OnAlt, Same
  <2> QED BY <1>1, <2>1, <2>2 DEF ScreenOK, Good, SavedOK, OnAlt, RestOK
<1>3. HistOK(scr.hist)
  <2>1. ASSUME NEW i \in DOMAIN scr.hist
        PROVE  LET width == Cardinality(DOMAIN scr.hist[i].cells)
               IN  width > 0 /\ scr.hist[i] \in Line(width)
    <3>1. scr.hist[i] \in AnyLine
      BY <1>1 DEF Good, ListsOK
    <3>2. PICK w \in Nat \ {0} : scr.hist[i] \in Line(w)
      BY <3>1 DEF AnyLine
    <3>3. DOMAIN scr.hist[i].cells = Span(w)
      BY <3>2 DEF Line
    <3>4. Cardinality(DOMAIN scr.hist[i].cells) = w
      BY <3>3, SpanSize
    <3> QED BY <3>2, <3>4
  <2> QED BY <2>1 DEF HistOK
<1>4. \A i \in DOMAIN scr.marks : scr.marks[i].line \in Nat /\ scr.marks[i].id \in Anchors
  BY <1>1, MarkParts DEF Good, ListsOK
<1> QED BY <1>1, <1>2, <1>3, <1>4 DEF TypeOK, Good, ListsOK

(* The invariant and the indices.                                          *)
LEMMA Fits == IInv => IndicesFit /\ MarginsOnGrid /\ GridFitsWindow
<1> SUFFICES ASSUME IInv PROVE IndicesFit /\ MarginsOnGrid /\ GridFitsWindow
  OBVIOUS
<1>1. Good(scr) /\ GridFitsWindow
  BY DEF IInv
<1>2. scr.row < scr.grid.rows /\ scr.grid.rows \in Nat
  BY <1>1, GoodGrid DEF Good, OnGrid, Span
<1> QED BY <1>1, <1>2 DEF IndicesFit, IInv, FixedCap, CapHolds, MarginsOnGrid, Good, OnGrid,
                          Cols2, Margins, RestOK

(* The invariant and the cache: with no damage, a key that agrees rules    *)
(* out a view moved by a clear.                                            *)
LEMMA Coherent == IInv => CacheCoherent
<1> SUFFICES ASSUME IInv, CacheHit PROVE cache[1].shown = Visible(scr)
  BY DEF CacheCoherent
<1>1. cache # <<>> /\ ~IsDamaged(scr.grid) /\ cache[1].key = KeyOf(scr)
  BY DEF CacheHit
<1>2. cache[1].key.view = scr.view
  BY <1>1 DEF KeyOf
<1> QED BY <1>1, <1>2 DEF IInv, Drawn

(* No step on the alternate screen changes a row of the scrollback, or it  *)
(* clears them all.                                                        *)
LEMMA AltStepKept ==
  NoAltResize /\ IInv /\ [Next]_vars => (OnAlt(scr) /\ OnAlt(scr') =>
       scr'.hist = <<>> \/ RowsOf(scr'.hist) = RowsOf(scr.hist))
<1> SUFFICES ASSUME NoAltResize, IInv, [Next]_vars, OnAlt(scr), OnAlt(scr')
             PROVE  scr'.hist = <<>> \/ RowsOf(scr'.hist) = RowsOf(scr.hist)
  OBVIOUS
<1>1. Good(scr) /\ scene \in Scenes
  BY DEF IInv
<1>2. ASSUME Sound(scr, scr')
      PROVE  scr'.hist = <<>> \/ RowsOf(scr'.hist) = RowsOf(scr.hist)
  BY <1>2 DEF Sound, AltStep
<1>3. CASE Program
  BY <1>1, <1>2, <1>3, ProgramKind, KindSound
<1>4. CASE User
  <2>1. ~ResizePane
    BY <1>1 DEF ResizePane, NoAltResize, IInv
  <2> QED BY <1>1, <1>2, <1>4, <2>1, UserKind DEF Views, Clears, Fine, Capped
<1>5. CASE Select
  <2>1. PICK n \in Span(Total(scr)), id \in Anchors : scr' = ChooseLine(scr, n, id)
    BY <1>1, <1>5, SelectKind
  <2> QED BY <1>1, <1>2, <2>1, SelectSound
<1>6. CASE Render
  <2>1. scr'.hist = scr.hist
    BY <1>1, <1>6, RenderKind DEF Redrawn, Fields
  <2> QED BY <2>1
<1>7. CASE UNCHANGED vars
  BY <1>7 DEF vars
<1> QED BY <1>3, <1>4, <1>5, <1>6, <1>7 DEF Next

(* The inductive invariant holds in every behaviour.                       *)
THEOREM Invariant == NoAltResize => (Spec => []IInv)
<1> SUFFICES ASSUME NoAltResize PROVE Spec => []IInv
  OBVIOUS
<1>1. IInv /\ [Next]_vars => IInv'
  BY InvStep
<1> QED BY InitInv, <1>1, PTL DEF Spec

(* Every line has the width of its grid, every row its damage flag, also   *)
(* in the stashed primary grid; the scrollback and the marks are lists of  *)
(* what they should be.                                                    *)
THEOREM WellFormed == NoAltResize => (Spec => []TypeOK)
  BY Invariant, GoodShape, PTL

(* The cursor stays on the grid, the tab stops fit its columns, the grid   *)
(* fits the window, and with a fixed cap the view stays within the         *)
(* scrollback: through printing, wrapping, REP, resizes with and without   *)
(* reflow, and resets.                                                     *)
THEOREM IndicesStayOnGrid == NoAltResize => (Spec => []IndicesFit)
  BY Invariant, Fits, PTL

(* The margins are ordered rows of the grid, and the grid has the          *)
(* dimensions of the window.                                               *)
THEOREM MarginsAndDimensions == NoAltResize => (Spec => [](MarginsOnGrid /\ GridFitsWindow))
  BY Invariant, Fits, PTL

(* Whatever the program, the user and the resizes do between two frames,   *)
(* cached rows that pass for fresh are those the terminal shows.           *)
THEOREM CacheShowsTheScreen == NoAltResize => (Spec => []CacheCoherent)
  BY Invariant, Coherent, PTL

(* A program on the alternate screen leaves every row of the shell's       *)
(* scrollback as it was, or clears them all.                               *)
THEOREM AlternateKeepsScrollback == NoAltResize => (Spec => AltKeepsScrollback)
<1> SUFFICES ASSUME NoAltResize PROVE Spec => AltKeepsScrollback
  OBVIOUS
<1>1. IInv /\ [Next]_vars => [OnAlt(scr) /\ OnAlt(scr') =>
         scr'.hist = <<>> \/ RowsOf(scr'.hist) = RowsOf(scr.hist)]_vars
  BY AltStepKept
<1>2. Spec => []IInv
  BY Invariant
<1> QED BY <1>1, <1>2, PTL DEF Spec, AltKeepsScrollback

-----------------------------------------------------------------------------
(* The marks and their lines *)

(* What a pane with prompt marks must not meet.                            *)
PlainMarks == \A s \in Scenes :
  /\ "mark" \notin s.tui
  /\ "mark" \in s.shell => /\ "resize" \notin s.ui
                           /\ Shufflers \cap s.shell = {}
                           /\ "DECSTBM" \notin s.tui
                           /\ 0 \notin s.caps \cup {s.cap0}

(* Every mark is on a line, and its anchor on that line and no other.      *)
Marked(s) == LET p == Primary(s)
             IN  \A k \in DOMAIN s.marks :
                   /\ s.marks[k].line \in Span(Total(p))
                   /\ \A j \in Span(Total(p)) :
                        s.marks[k].id \in TagAt(p, j) <=> j = s.marks[k].line

(* The text and the marks move together.                                   *)
Together(s, t) == \E e \in Nat : /\ LinesMove(Primary(s), Primary(t), e)
                                 /\ MarksMove(s.marks, t.marks, e)

Forgets(s, t) == \A k \in DOMAIN s.marks :
                   s.marks[k].id \notin MarkIds(t) =>
                     ~Alive(t, s.marks[k].id) \/ Len(s.marks) = MaxMarks

(* The primary screen, also while the alternate one is shown, is a well    *)
(* formed screen over the same scrollback.                                 *)
LEMMA PrimaryParts ==
  ASSUME NEW s, Good(s)
  PROVE  LET p == Primary(s)
         IN  /\ Good(p) /\ p.hist = s.hist
             /\ p.grid.rows = s.grid.rows /\ p.grid.cols = s.grid.cols
             /\ p.grid = IF OnAlt(s) THEN s.saved[1].grid ELSE s.grid
             /\ Total(p) = Total(s) /\ Total(p) \in Nat
<1> DEFINE t == [s EXCEPT !.grid = s.saved[1].grid]
<1>1. Primary(s) = IF OnAlt(s) THEN t ELSE s
  BY DEF Primary
<1>2. ASSUME OnAlt(s)
      PROVE  Good(t) /\ t.hist = s.hist /\ t.grid = s.saved[1].grid /\ Same(s.grid, t.grid)
  <2>1. /\ DOMAIN t = Fields /\ t.grid = s.saved[1].grid /\ Same(s.grid, t.grid)
        /\ \A f \in Fields \ {"grid"} : t[f] = s[f]
    BY <1>2 DEF Good, Fields, SavedOK
  <2> HIDE DEF t
  <2>2. /\ t.row = s.row /\ t.col = s.col /\ t.top = s.top /\ t.bot = s.bot
        /\ t.saved = s.saved /\ t.hist = s.hist /\ t.view = s.view /\ t.marks = s.marks
        /\ t.cap = s.cap /\ t.tabs = s.tabs /\ t.savedCursor = s.savedCursor /\ t.last = s.last
    BY <2>1 DEF Fields
  <2>3. GridOK(t.grid) /\ t.grid.rows = s.grid.rows /\ t.grid.cols = s.grid.cols
    BY <2>1 DEF Same
  <2>4. SavedOK(t)
    BY <2>1, <2>2, <2>3 DEF Good, SavedOK, OnAlt, Same
  <2>5. Good(t)
    BY <2>1, <2>2, <2>3, <2>4 DEF Good, OnGrid, Cols2, Margins, ListsOK, RestOK
  <2> QED BY <2>1, <2>2, <2>5
<1> HIDE DEF t
<1> QED BY <1>1, <1>2, TotalNat DEF Same, Total

(* The properties in terms of the lines' anchors.                          *)
LEMMA NamesIs ==
  ASSUME NEW s, Good(s), NEW id
  PROVE  /\ \A j \in Nat : Names(s, j, id) <=> j \in Span(Total(Primary(s))) /\ id \in TagAt(Primary(s), j)
         /\ Alive(s, id) <=> \E j \in Span(Total(Primary(s))) : id \in TagAt(Primary(s), j)
<1> DEFINE p == Primary(s)
           n == Total(p)
           q == LinesOf(p)
<1>1. Good(p) /\ n \in Nat
  BY PrimaryParts
<1> HIDE DEF p
<1>2. DOMAIN q = 1 .. n /\ \A i \in Span(n) : q[i + 1].tag = TagAt(p, i)
  BY <1>1, LinesParts
<1> HIDE DEF q, n
<1>3. \A j \in Nat : j + 1 \in 1 .. n <=> j \in Span(n)
  BY <1>1 DEF Span
<1>4. \A j \in Nat : Names(s, j, id) <=> j \in Span(n) /\ id \in TagAt(p, j)
  BY <1>2, <1>3 DEF Names, PrimaryLines, p, q
<1>5. Alive(s, id) <=> \E j \in Span(n) : id \in TagAt(p, j)
  <2>1. Alive(s, id) <=> \E i \in 1 .. n : id \in q[i].tag
    BY <1>2 DEF Alive, PrimaryLines, p, q
  <2>2. \A i \in 1 .. n : i - 1 \in Span(n) /\ (i - 1) + 1 = i
    BY <1>1 DEF Span
  <2>3. \A j \in Span(n) : j + 1 \in 1 .. n
    BY <1>1 DEF Span
  <2>4. \A i \in 1 .. n : q[i].tag = TagAt(p, i - 1)
    BY <1>2, <2>2
  <2> QED BY <1>2, <2>1, <2>2, <2>3, <2>4
<1> QED BY <1>4, <1>5 DEF n, p

(* The step itself: what moves together stays together, and a mark that is *)
(* gone was on a line that is gone.                                        *)
LEMMA TogetherHolds ==
  ASSUME NEW s, Good(s), NEW t, Good(t), Marked(s), Together(s, t)
  PROVE  Marked(t) /\ Forgets(s, t)
<1> DEFINE p == Primary(s)
           q == Primary(t)
           m == s.marks
           w == t.marks
<1>1. PICK e \in Nat : LinesMove(p, q, e) /\ MarksMove(m, w, e)
  BY DEF Together
<1>2. /\ m \in Seq(Mark) /\ w \in Seq(Mark)
      /\ \A k \in DOMAIN m : m[k].line \in Span(Total(p))
                             /\ \A j \in Span(Total(p)) : m[k].id \in TagAt(p, j) <=> j = m[k].line
      /\ Total(p) \in Nat /\ Total(q) \in Nat
  BY PrimaryParts DEF Marked, Good, ListsOK
<1>3. /\ \A k \in DOMAIN m : m[k].line \in Nat
      /\ \A i \in DOMAIN w : w[i].line \in Nat
  BY <1>2, MarkParts
<1> HIDE DEF p, q, m, w
<1>4. ASSUME NEW i \in DOMAIN w
      PROVE  /\ w[i].line \in Span(Total(q))
             /\ \A j \in Span(Total(q)) : w[i].id \in TagAt(q, j) <=> j = w[i].line
  <2>1. PICK k \in DOMAIN m : m[k].line = w[i].line + e /\ m[k].id = w[i].id
    BY <1>1 DEF MarksMove
  <2>2. m[k].line >= e /\ m[k].line - e = w[i].line
    BY <1>3, <2>1
  <2>3. w[i].line \in Span(Total(q))
    BY <1>1, <1>2, <2>2 DEF LinesMove
  <2>4. ASSUME NEW j \in Span(Total(q)) PROVE w[i].id \in TagAt(q, j) <=> j = w[i].line
    <3>0. j \in Nat /\ j + e \in Nat /\ j + e >= e /\ (j + e) - e = j
          /\ (j + e = m[k].line <=> j = w[i].line)
      BY <1>3, <2>1 DEF Span
    <3>1. CASE j + e \in Span(Total(p))
      <4>1. TagAt(q, j) = TagAt(p, j + e)
        BY <1>1, <3>0, <3>1 DEF LinesMove
      <4>2. m[k].id \in TagAt(p, j + e) <=> j + e = m[k].line
        BY <1>2, <3>1
      <4> QED BY <2>1, <3>0, <4>1, <4>2
    <3>2. CASE j + e \notin Span(Total(p))
      <4>1. TagAt(q, j) = {}
        BY <1>1, <3>2 DEF LinesMove
      <4>2. j # w[i].line
        BY <1>2, <3>0, <3>2
      <4> QED BY <4>1, <4>2
    <3> QED BY <3>1, <3>2
  <2> QED BY <2>3, <2>4
<1>5. ASSUME NEW k \in DOMAIN m, m[k].id \notin MarkIds(t) PROVE ~Alive(t, m[k].id)
  <2>1. ~(m[k].line >= e)
    <3> SUFFICES ASSUME m[k].line >= e PROVE FALSE
      OBVIOUS
    <3>1. PICK i \in DOMAIN w : m[k].id = w[i].id
      BY <1>1 DEF MarksMove
    <3> QED BY <1>5, <3>1 DEF MarkIds, w
  <2>2. ASSUME NEW j \in Span(Total(q)), m[k].id \in TagAt(q, j) PROVE FALSE
    <3>1. j \in Nat /\ j + e >= e /\ (j + e) - e = j
      BY DEF Span
    <3>2. j + e \in Span(Total(p))
      BY <1>1, <2>2 DEF LinesMove
    <3>3. TagAt(q, j) = TagAt(p, j + e)
      BY <1>1, <3>1, <3>2 DEF LinesMove
    <3>4. j + e = m[k].line
      BY <1>2, <2>2, <3>2, <3>3
    <3> QED BY <2>1, <3>1, <3>4
  <2> QED BY <2>2, NamesIs DEF q
<1> QED BY <1>4, <1>5 DEF Marked, Forgets, p, q, m, w

(* Steps under which no line of the primary screen moves.                  *)
Rests(s, t) == /\ t.hist = s.hist /\ t.marks = s.marks
               /\ Primary(t).grid.line = Primary(s).grid.line
               /\ t.grid.rows = s.grid.rows

(* Such a step moves nothing.                                              *)
LEMMA RestsTogether ==
  ASSUME NEW s, Good(s), NEW t, Good(t), Rests(s, t) PROVE Together(s, t)
<1> DEFINE p == Primary(s)
           q == Primary(t)
<1>1. /\ q.hist = p.hist /\ q.grid.line = p.grid.line /\ Total(q) = Total(p) /\ Total(p) \in Nat
  BY PrimaryParts DEF Rests, Total
<1> HIDE DEF p, q
<1>2. \A i : TagAt(q, i) = TagAt(p, i)
  BY <1>1 DEF TagAt
<1>3. LinesMove(p, q, 0)
  <2>1. \A i \in Span(Total(p)) : i - 0 = i /\ i + 0 = i
    BY DEF Span
  <2> QED BY <1>1, <1>2, <2>1 DEF LinesMove
<1>4. MarksMove(s.marks, t.marks, 0)
  <2>1. \A k \in DOMAIN s.marks : s.marks[k].line + 0 = s.marks[k].line
    BY MarkParts DEF Good, ListsOK
  <2> QED BY <2>1 DEF MarksMove, Rests
<1> QED BY <1>3, <1>4 DEF Together, p, q

(* Each kind of step.                                                      *)
LEMMA StaysTogether ==
  ASSUME NEW s, Good(s), NEW t, Stays(s, t), RegionIsFull(s), s.cap # 0
  PROVE  Together(s, t) /\ RegionIsFull(t) /\ t.cap # 0
<1>1. Good(t) /\ t.saved = s.saved /\ t.cap = s.cap /\ RegionIsFull(t) /\ t.grid.rows = s.grid.rows
  BY DEF Stays, Keeps, Frame, Carries
<1>2. CASE OnAlt(s)
  <2>1. OnAlt(t) /\ t.hist = s.hist /\ t.marks = s.marks
    BY <1>1, <1>2 DEF OnAlt, Stays, Carries
  <2>2. Primary(t).grid = s.saved[1].grid /\ Primary(s).grid = s.saved[1].grid
    BY <1>1, <1>2, <2>1, PrimaryParts
  <2> QED BY <1>1, <2>1, <2>2, RestsTogether DEF Rests
<1>3. CASE ~OnAlt(s)
  <2>1. PICK e \in Nat : LinesMove(s, t, e) /\ MarksMove(s.marks, t.marks, e)
    BY <1>3 DEF Stays, Carries, Shift
  <2>2. Primary(s) = s /\ Primary(t) = t
    BY <1>1, <1>3 DEF Primary, OnAlt
  <2> QED BY <1>1, <2>1, <2>2 DEF Together
<1> QED BY <1>2, <1>3

(* The alternate screen stashes the primary grid as it is.                 *)
LEMMA EntersTogether ==
  ASSUME NEW s, Good(s), NEW t, Good(t), Entered(s, t), ~OnAlt(s), t.grid.rows = s.grid.rows
  PROVE  Together(s, t) /\ t.top = s.top /\ t.bot = s.bot
<1>1. /\ t.hist = s.hist /\ t.marks = s.marks /\ t.top = s.top /\ t.bot = s.bot
      /\ OnAlt(t) /\ t.saved[1].grid = s.grid
  BY DEF Entered, Differ, Fields, OnAlt
<1>2. Primary(t).grid = s.grid /\ Primary(s).grid = s.grid
  BY <1>1, PrimaryParts
<1> QED BY <1>1, <1>2, RestsTogether DEF Rests

(* And gives it back as it was.                                            *)
LEMMA LeavesTogether ==
  ASSUME NEW s, Good(s), NEW t, Good(t), Left(s, t), OnAlt(s)
  PROVE  Together(s, t) /\ t.top = s.top /\ t.bot = s.bot
<1>1. /\ t.hist = s.hist /\ t.marks = s.marks /\ t.top = s.top /\ t.bot = s.bot
      /\ ~OnAlt(t) /\ t.grid.line = s.saved[1].grid.line /\ t.grid.rows = s.grid.rows
  BY DEF Left, Differ, Fields, OnAlt
<1>2. Primary(t).grid = t.grid /\ Primary(s).grid = s.saved[1].grid
  BY <1>1, PrimaryParts
<1> QED BY <1>1, <1>2, RestsTogether DEF Rests

(* RIS loses all lines, and all marks.                                     *)
LEMMA BlanksTogether ==
  ASSUME NEW s, Good(s), NEW t, Good(t), Blanked(s, t), Marked(s),
         t.grid.rows = s.grid.rows
  PROVE  Together(s, t) /\ RegionIsFull(t)
<1> DEFINE p == Primary(s)
           e == Total(p)
<1>1. e \in Nat /\ Primary(t) = t /\ s.grid.rows \in Nat \ {0}
  BY PrimaryParts, GoodGrid DEF Blanked, Primary, OnAlt
<1> HIDE DEF p
<1>2. \A j \in Span(Total(t)) : TagAt(t, j) = {}
  <2>1. Total(t) = s.grid.rows /\ Len(t.hist) = 0
    BY <1>1 DEF Total, Blanked
  <2>2. \A j \in Span(Total(t)) : ~(j < 0) /\ j - 0 = j /\ j \in Span(s.grid.rows)
    BY <1>1, <2>1 DEF Span
  <2> QED BY <2>1, <2>2 DEF TagAt, Blanked
<1>3. LinesMove(p, t, e)
  <2>1. \A i \in Span(e) : ~(i >= e)
    BY <1>1 DEF Span
  <2> QED BY <1>2, <2>1 DEF LinesMove
<1>4. MarksMove(s.marks, t.marks, e)
  <2>1. \A k \in DOMAIN s.marks : ~(s.marks[k].line >= e)
    <3>1. \A k \in DOMAIN s.marks : s.marks[k].line \in Span(e)
      BY DEF Marked, p
    <3> QED BY <1>1, <3>1 DEF Span
  <2>2. DOMAIN t.marks = {}
    BY DEF Blanked
  <2> QED BY <2>1, <2>2 DEF MarksMove
<1>5. RegionIsFull(t)
  BY <1>1 DEF Blanked, RegionIsFull, LastRow
<1> HIDE DEF e
<1> QED BY <1>1, <1>3, <1>4, <1>5 DEF Together, p

(* A cleared scrollback loses its lines and their marks.                   *)
LEMMA ClearsTogether ==
  ASSUME NEW s, Good(s), NEW t, Good(t), Cleared(s, t)
  PROVE  Together(s, t) /\ t.top = s.top /\ t.bot = s.bot /\ t.grid.rows = s.grid.rows
<1> DEFINE p == Primary(s)
           q == Primary(t)
           e == Len(s.hist)
<1>1. t.grid = s.grid /\ t.saved = s.saved /\ t.hist = <<>> /\ t.top = s.top /\ t.bot = s.bot
      /\ MarksMove(s.marks, t.marks, e)
  BY DEF Cleared, Differ, Fields
<1>2. /\ q.grid = p.grid /\ p.hist = s.hist /\ q.hist = <<>> /\ e \in Nat
      /\ Total(q) = p.grid.rows /\ Total(p) = e + p.grid.rows /\ p.grid.rows \in Nat \ {0}
  <2>1. q.grid = p.grid /\ p.hist = s.hist /\ q.hist = t.hist /\ e \in Nat
        /\ p.grid.rows = s.grid.rows
    BY <1>1, PrimaryParts, TotalNat DEF OnAlt
  <2> HIDE DEF p, q
  <2>2. s.grid.rows \in Nat \ {0}
    BY GoodGrid
  <2> QED BY <1>1, <2>1, <2>2 DEF Total
<1> HIDE DEF p, q
<1>3. LinesMove(p, q, e)
  <2>1. ASSUME NEW j \in Span(Total(q))
        PROVE  /\ TagAt(q, j) = p.grid.line[j].tag /\ j + e \in Span(Total(p))
               /\ TagAt(p, j + e) = p.grid.line[j].tag
    <3>1. Len(q.hist) = 0 /\ Len(p.hist) = e
      BY <1>2
    <3>2. j \in Nat /\ ~(j < 0) /\ j - 0 = j /\ ~(j + e < e) /\ (j + e) - e = j
          /\ j + e \in Span(Total(p))
      BY <1>2 DEF Span
    <3> HIDE DEF e
    <3> QED BY <1>2, <3>1, <3>2 DEF TagAt
  <2>2. ASSUME NEW i \in Span(Total(p)), i >= e
        PROVE  i - e \in Span(Total(q)) /\ (i - e) + e = i
    BY <1>2, <2>2 DEF Span
  <2>3. ASSUME NEW i \in Span(Total(p)), i >= e
        PROVE  i - e \in Span(Total(q)) /\ TagAt(q, i - e) = TagAt(p, i)
    BY <2>1, <2>2, <2>3
  <2> QED BY <2>1, <2>3 DEF LinesMove
<1> HIDE DEF e
<1> QED BY <1>1, <1>2, <1>3 DEF Together, p, q

(* Lines that move on the alternate screen move no line of the primary     *)
(* one.                                                                    *)
LEMMA ShufflesTogether ==
  ASSUME NEW s, Good(s), NEW t, Keeps(s, t), t.hist = s.hist, t.marks = s.marks, OnAlt(s)
  PROVE  Together(s, t)
<1>1. Good(t) /\ t.saved = s.saved /\ t.grid.rows = s.grid.rows
  BY DEF Keeps, Frame
<1>2. Primary(t).grid = Primary(s).grid
  BY <1>1, PrimaryParts DEF OnAlt
<1> QED BY <1>1, <1>2, RestsTogether DEF Rests

(* A moved view, another cap and a drawn frame move nothing.               *)
LEMMA ViewsTogether ==
  ASSUME NEW s, Good(s), NEW t, Good(t), t.hist = s.hist, t.marks = s.marks,
         t.saved = s.saved, t.grid.line = s.grid.line, t.grid.rows = s.grid.rows
  PROVE  Together(s, t)
<1>1. Primary(t).grid.line = Primary(s).grid.line
  BY PrimaryParts DEF OnAlt
<1> QED BY <1>1, RestsTogether DEF Rests

(* A new anchor on a line of the screen disturbs no mark.                  *)
LEMMA ChosenMarks ==
  ASSUME NEW s, Good(s), NEW t, Good(t), NEW n \in Span(Total(s)), NEW id,
         Chosen(s, t, n, id), id \notin MarkIds(s), Marked(s), t.grid.rows = s.grid.rows
  PROVE  Marked(t) /\ Forgets(s, t) /\ t.top = s.top /\ t.bot = s.bot
<1> DEFINE p == Primary(s)
           q == Primary(t)
           m == s.marks
<1>1. /\ t.marks = m /\ t.saved = s.saved /\ t.top = s.top /\ t.bot = s.bot
      /\ Len(t.hist) = Len(s.hist)
      /\ \A i \in Span(Total(s)) : TagAt(t, i) = TagAt(s, i) \cup (IF i = n THEN {id} ELSE {})
  BY DEF Chosen, Differ, Fields
<1>2. /\ p.hist = s.hist /\ q.hist = t.hist /\ Total(p) = Total(s) /\ Total(q) = Total(s)
      /\ OnAlt(s) => p.grid = q.grid
      /\ ~OnAlt(s) => p = s /\ q = t
  <2>1. Total(t) = Total(s)
    BY <1>1 DEF Total
  <2> QED BY <1>1, <2>1, PrimaryParts DEF OnAlt, Primary
<1> HIDE DEF p, q
<1>3. \A k \in DOMAIN m : m[k].id # id
  BY DEF MarkIds
<1> HIDE DEF m
<1>4. ASSUME NEW k \in DOMAIN m, NEW j \in Span(Total(s))
      PROVE  m[k].id \in TagAt(q, j) <=> m[k].id \in TagAt(p, j)
  <2>1. m[k].id \in TagAt(t, j) <=> m[k].id \in TagAt(s, j)
    BY <1>1, <1>3
  <2>2. CASE OnAlt(s) /\ ~(j < Len(s.hist))
    BY <1>1, <1>2, <2>2 DEF TagAt
  <2>3. CASE OnAlt(s) /\ j < Len(s.hist)
    <3>1. TagAt(q, j) = TagAt(t, j) /\ TagAt(p, j) = TagAt(s, j)
      BY <1>1, <1>2, <2>3 DEF TagAt
    <3> QED BY <2>1, <3>1
  <2>4. CASE ~OnAlt(s)
    BY <1>2, <2>1, <2>4
  <2> QED BY <2>2, <2>3, <2>4
<1>5. Marked(t)
  BY <1>1, <1>2, <1>4 DEF Marked, p, q, m
<1>6. Forgets(s, t)
  BY <1>1 DEF Forgets, MarkIds, m
<1> QED BY <1>1, <1>5, <1>6

(* A fresh anchor is on no line.                                           *)
LEMMA FreshTag ==
  ASSUME NEW s, Good(s), NEW id, id \notin TagsOf(s)
  PROVE  \A j \in Span(Total(s)) : id \notin TagAt(s, j)
<1> SUFFICES ASSUME NEW j \in Span(Total(s)), id \in TagAt(s, j) PROVE FALSE
  OBVIOUS
<1>1. LinesOf(s)[j + 1].tag = TagAt(s, j) /\ DOMAIN LinesOf(s) = 1 .. Total(s) /\ Total(s) \in Nat
  BY LinesParts, TotalNat
<1>2. j + 1 \in DOMAIN LinesOf(s)
  BY <1>1 DEF Span
<1>3. LinesOf(s)[j + 1].tag \in {LinesOf(s)[i].tag : i \in DOMAIN LinesOf(s)}
  BY <1>2
<1> QED BY <1>1, <1>3 DEF TagsOf

(* A new mark is on its line alone, the others stay on theirs, and the     *)
(* oldest is forgotten only when the list is full.                         *)
LEMMA PromptMarks ==
  ASSUME NEW s, Good(s), NEW t, Good(t), NEW id \in Anchors, Prompted(s, t, id), ~OnAlt(s),
         id \notin TagsOf(s), id \notin MarkIds(s), Marked(s)
  PROVE  Marked(t) /\ Forgets(s, t) /\ t.top = s.top /\ t.bot = s.bot
<1> DEFINE n == Len(s.hist) + s.row
           m == s.marks
           w == t.marks
<1>1. /\ t.saved = s.saved /\ t.top = s.top /\ t.bot = s.bot /\ t.hist = s.hist
      /\ Tagged(s.grid, t.grid, s.row, id)
      /\ \A i \in DOMAIN w :
           \/ w[i].line = n /\ w[i].id = id
           \/ \E k \in DOMAIN m : w[i].line = m[k].line /\ w[i].id = m[k].id
      /\ \A k \in DOMAIN m : Len(m) = MaxMarks \/ \E i \in DOMAIN w : w[i].id = m[k].id
  BY DEF Prompted, Differ, Fields
<1>2. Primary(s) = s /\ Primary(t) = t
  BY <1>1 DEF Primary, OnAlt
<1>3. /\ Total(s) = Len(s.hist) + s.grid.rows /\ Total(t) = Total(s) /\ Len(s.hist) \in Nat
      /\ s.row \in Nat /\ s.row < s.grid.rows /\ s.grid.rows \in Nat
      /\ n \in Span(Total(s))
  <2>1. Total(t) = Total(s) /\ Len(s.hist) \in Nat /\ s.row \in Span(s.grid.rows) /\ s.grid.rows \in Nat
    BY <1>1, TotalNat, GoodGrid DEF Total, Tagged, Same, Good, OnGrid
  <2> QED BY <2>1 DEF Total, Span
<1>4. ASSUME NEW j \in Span(Total(s))
      PROVE  TagAt(t, j) = TagAt(s, j) \cup (IF j = n THEN {id} ELSE {})
  <2>1. CASE j < Len(s.hist)
    <3>1. j # n
      BY <1>3, <2>1
    <3> QED BY <1>1, <2>1, <3>1 DEF TagAt
  <2>2. CASE ~(j < Len(s.hist))
    <3> DEFINE r == j - Len(s.hist)
    <3>1. r \in Span(s.grid.rows) /\ (r = s.row <=> j = n)
      BY SMTT(30), <1>3, <2>2 DEF Span
    <3> HIDE DEF n
    <3>2. TagAt(t, j) = t.grid.line[r].tag /\ TagAt(s, j) = s.grid.line[r].tag
      BY <1>1, <2>2 DEF TagAt
    <3> HIDE DEF r
    <3> QED BY <1>1, <3>1, <3>2 DEF Tagged
  <2> QED BY <2>1, <2>2
<1>5. \A j \in Span(Total(s)) : id \notin TagAt(s, j)
  BY FreshTag
<1>6. /\ \A k \in DOMAIN m : /\ m[k].id # id /\ m[k].line \in Span(Total(s))
                             /\ \A j \in Span(Total(s)) : m[k].id \in TagAt(s, j) <=> j = m[k].line
  BY <1>2 DEF MarkIds, Marked
<1> HIDE DEF n, m, w
<1>7. ASSUME NEW i \in DOMAIN w
      PROVE  /\ w[i].line \in Span(Total(s))
             /\ \A j \in Span(Total(s)) : w[i].id \in TagAt(t, j) <=> j = w[i].line
  <2>1. CASE w[i].line = n /\ w[i].id = id
    BY <1>3, <1>4, <1>5, <2>1
  <2>2. CASE \E k \in DOMAIN m : w[i].line = m[k].line /\ w[i].id = m[k].id
    BY <1>4, <1>6, <2>2
  <2> QED BY <1>1, <2>1, <2>2
<1>8. Marked(t)
  BY <1>2, <1>3, <1>7 DEF Marked, w
<1>9. Forgets(s, t)
  <2>1. \A k \in DOMAIN m : m[k].id \notin MarkIds(t) => Len(m) = MaxMarks
    BY <1>1 DEF MarkIds, w
  <2> QED BY <2>1 DEF Forgets, m
<1> QED BY <1>1, <1>8, <1>9

(* The invariant of the marks: without the mark operation there are none.  *)
MInv == /\ IInv
        /\ IF "mark" \in scene.shell
           THEN RegionIsFull(scr) /\ scr.cap # 0 /\ Marked(scr)
           ELSE scr.marks = <<>>

(* It holds at spawn.                                                      *)
LEMMA MarkSpawn == PlainMarks /\ Init => MInv
<1> SUFFICES ASSUME PlainMarks, Init PROVE MInv
  OBVIOUS
<1>1. IInv
  BY InitInv
<1>2. /\ scene \in Scenes /\ scene.size0 \in Dims /\ scene.cap0 \in Nat
      /\ scr = NewScreen(scene.size0.rows, scene.size0.cols, scene.cap0)
  BY ScenesAssumption DEF Init
<1>3. /\ scr.cap = scene.cap0 /\ scr.marks = <<>> /\ scr.top = 0
      /\ scr.bot = scene.size0.rows - 1 /\ scr.grid.rows = scene.size0.rows
      /\ scene.size0.rows \in Nat \ {0}
  <2>1. scene.size0.rows \in Nat \ {0} /\ scene.size0.cols \in Nat \ {0}
    BY <1>2 DEF Dims
  <2> QED BY <1>2, <2>1, InitGood
<1>4. RegionIsFull(scr)
  BY <1>3 DEF RegionIsFull
<1>5. Marked(scr)
  <2>1. DOMAIN scr.marks = {}
    BY <1>3
  <2> QED BY <2>1 DEF Marked
<1>6. "mark" \in scene.shell => scr.cap # 0
  BY <1>2, <1>3 DEF PlainMarks
<1> QED BY <1>1, <1>3, <1>4, <1>5, <1>6 DEF MInv

(* What a step does to the marks of such a pane.                           *)
MarksKept(s, t) == RegionIsFull(t) /\ t.cap # 0 /\ Marked(t) /\ Forgets(s, t)

(* Margins that are the whole screen stay so.                              *)
LEMMA FullStays ==
  ASSUME NEW s, NEW t, RegionIsFull(s), t.top = s.top, t.bot = s.bot, t.grid.rows = s.grid.rows
  PROVE  RegionIsFull(t)
  BY DEF RegionIsFull

(* The program, by the kinds of its steps.                                 *)
LEMMA ProgramMarks ==
  ASSUME PlainMarks, MInv, Kinds(scr, scr'), "mark" \in scene.shell
  PROVE  MarksKept(scr, scr')
<1>1. /\ Good(scr) /\ scene \in Scenes /\ RegionIsFull(scr) /\ scr.cap # 0 /\ Marked(scr)
      /\ Good(scr') /\ scr'.grid.rows = scr.grid.rows /\ scr'.cap = scr.cap
  BY KindSound DEF MInv, IInv, Sound, CapStep
<1>2. ASSUME Together(scr, scr'), RegionIsFull(scr') PROVE MarksKept(scr, scr')
  BY <1>1, <1>2, TogetherHolds DEF MarksKept
<1>3. CASE Goes(scr, scr') \/ Edit(scr, scr')
  <2>1. Stays(scr, scr')
    BY <1>1, <1>3 DEF Goes, Edit
  <2> QED BY <1>1, <1>2, <2>1, StaysTogether
<1>4. CASE Shuffle(scr, scr') /\ \E op \in Shufflers : May(op)
  <2>1. OnAlt(scr)
    BY <1>1, <1>4 DEF PlainMarks, May
  <2>2. ~May("DECSTBM")
    BY <1>1, <2>1 DEF PlainMarks, May
  <2>3. RegionIsFull(scr')
    BY <1>1, <1>4, <2>2, FullStays DEF Shuffle
  <2>4. Together(scr, scr')
    BY <1>1, <1>4, <2>1, ShufflesTogether DEF Shuffle
  <2> QED BY <1>2, <2>3, <2>4
<1>5. CASE Enters(scr, scr')
  <2>1. Together(scr, scr') /\ scr'.top = scr.top /\ scr'.bot = scr.bot
    BY <1>1, <1>5, EntersTogether DEF Enters
  <2> QED BY <1>1, <1>2, <2>1, FullStays
<1>6. CASE Leaves(scr, scr')
  <2>1. Together(scr, scr') /\ scr'.top = scr.top /\ scr'.bot = scr.bot
    BY <1>1, <1>6, LeavesTogether DEF Leaves
  <2> QED BY <1>1, <1>2, <2>1, FullStays
<1>7. CASE Blanks1(scr, scr')
  BY <1>1, <1>2, <1>7, BlanksTogether DEF Blanks1
<1>8. CASE Clears(scr, scr')
  <2>1. Together(scr, scr') /\ scr'.top = scr.top /\ scr'.bot = scr.bot
    BY <1>1, <1>8, ClearsTogether DEF Clears
  <2> QED BY <1>1, <1>2, <2>1, FullStays
<1>9. CASE Prompts(scr, scr') /\ May("mark")
  <2>1. ~OnAlt(scr)
    BY <1>1, <1>9 DEF PlainMarks, May
  <2>2. PICK id \in Anchors \ (TagsOf(scr) \cup MarkIds(scr)) : Prompted(scr, scr', id)
    BY <1>9 DEF Prompts
  <2>3. Marked(scr') /\ Forgets(scr, scr') /\ scr'.top = scr.top /\ scr'.bot = scr.bot
    BY <1>1, <2>1, <2>2, PromptMarks
  <2>4. RegionIsFull(scr')
    BY <1>1, <2>3, FullStays
  <2> QED BY <1>1, <2>3, <2>4 DEF MarksKept
<1> QED BY <1>3, <1>4, <1>5, <1>6, <1>7, <1>8, <1>9 DEF Kinds

(* The user, who does not resize such a pane.                              *)
LEMMA UserMarks ==
  ASSUME PlainMarks, MInv, User, "mark" \in scene.shell
  PROVE  MarksKept(scr, scr')
<1>1. /\ Good(scr) /\ scene \in Scenes /\ RegionIsFull(scr) /\ scr.cap # 0 /\ Marked(scr)
  BY DEF MInv, IInv
<1>2. ~ResizePane
  BY <1>1 DEF ResizePane, PlainMarks
<1>3. Views(scr, scr') \/ Clears(scr, scr') \/ Capped(scr, scr')
  BY <1>1, <1>2, UserKind
<1>4. Good(scr') /\ scr'.grid.rows = scr.grid.rows
  BY <1>3 DEF Views, Clears, Capped, Fine, Sound
<1>5. scr'.cap # 0
  <2>1. CASE Views(scr, scr') \/ Clears(scr, scr')
    BY <1>1, <2>1 DEF Views, Clears, Fine, CapStep
  <2>2. CASE Capped(scr, scr')
    <3>1. PICK n \in scene.caps : scr' = [scr EXCEPT !.cap = n]
      BY <2>2 DEF Capped
    <3>2. scr'.cap = n
      BY <1>1, <3>1 DEF Good, Fields
    <3> QED BY <1>1, <3>2 DEF PlainMarks
  <2> QED BY <1>3, <2>1, <2>2
<1>6. Together(scr, scr') /\ scr'.top = scr.top /\ scr'.bot = scr.bot
  <2>1. CASE Views(scr, scr')
    <3>1. /\ scr'.hist = scr.hist /\ scr'.marks = scr.marks /\ scr'.saved = scr.saved
          /\ scr'.grid.line = scr.grid.line /\ scr'.top = scr.top /\ scr'.bot = scr.bot
      BY <2>1 DEF Views
    <3> QED BY <1>1, <1>4, <3>1, ViewsTogether
  <2>2. CASE Clears(scr, scr')
    BY <1>1, <1>4, <2>2, ClearsTogether DEF Clears
  <2>3. CASE Capped(scr, scr')
    <3>1. PICK n \in scene.caps : scr' = [scr EXCEPT !.cap = n]
      BY <2>3 DEF Capped
    <3>2. /\ scr'.hist = scr.hist /\ scr'.marks = scr.marks /\ scr'.saved = scr.saved
          /\ scr'.grid = scr.grid /\ scr'.top = scr.top /\ scr'.bot = scr.bot
      BY <1>1, <3>1 DEF Good, Fields
    <3> QED BY <1>1, <1>4, <3>2, ViewsTogether
  <2> QED BY <1>3, <2>1, <2>2, <2>3
<1> QED BY <1>1, <1>4, <1>5, <1>6, FullStays, TogetherHolds DEF MarksKept

(* A selection.                                                            *)
LEMMA SelectMarks ==
  ASSUME MInv, Select, "mark" \in scene.shell
  PROVE  MarksKept(scr, scr')
<1>1. /\ Good(scr) /\ RegionIsFull(scr) /\ scr.cap # 0 /\ Marked(scr)
  BY DEF MInv, IInv
<1>2. PICK n \in Span(Total(scr)), id \in Anchors \ (TagsOf(scr) \cup MarkIds(scr)) :
        scr' = ChooseLine(scr, n, id)
  BY <1>1, SelectKind
<1>3. Sound(scr, scr') /\ CapStep(scr, scr') /\ Chosen(scr, scr', n, id)
  BY <1>1, <1>2, SelectSound
<1>4. Good(scr') /\ scr'.grid.rows = scr.grid.rows /\ scr'.cap = scr.cap
  BY <1>3 DEF Sound, CapStep
<1>5. Marked(scr') /\ Forgets(scr, scr') /\ scr'.top = scr.top /\ scr'.bot = scr.bot
  BY <1>1, <1>2, <1>3, <1>4, ChosenMarks
<1> QED BY <1>1, <1>4, <1>5, FullStays DEF MarksKept

(* A frame.                                                                *)
LEMMA RenderMarks ==
  ASSUME MInv, Render, "mark" \in scene.shell
  PROVE  MarksKept(scr, scr')
<1>1. /\ Good(scr) /\ RegionIsFull(scr) /\ scr.cap # 0 /\ Marked(scr)
  BY DEF MInv, IInv
<1>2. Redrawn(scr, scr')
  BY <1>1, RenderKind
<1>3. /\ scr'.hist = scr.hist /\ scr'.marks = scr.marks /\ scr'.saved = scr.saved
      /\ scr'.grid.line = scr.grid.line /\ scr'.grid.rows = scr.grid.rows
      /\ scr'.top = scr.top /\ scr'.bot = scr.bot /\ scr'.cap = scr.cap /\ Good(scr')
  BY <1>2 DEF Redrawn, Fields
<1>4. Together(scr, scr')
  BY <1>1, <1>3, ViewsTogether
<1> QED BY <1>1, <1>3, <1>4, FullStays, TogetherHolds DEF MarksKept

(* A pane that prints no marks never has one.                              *)
NoMarks(s, t) == s.marks = <<>> => t.marks = <<>>

(* A list all of whose marks come from an empty list is empty.             *)
LEMMA NoMarksFrom ==
  ASSUME NEW s, NEW t, Good(t), s.marks = <<>>,
         \A i \in DOMAIN t.marks : \E k \in DOMAIN s.marks : TRUE
  PROVE  t.marks = <<>>
<1>1. DOMAIN s.marks = {}
  OBVIOUS
<1> DEFINE m == t.marks
<1>2. m \in Seq(Mark) /\ DOMAIN m = {}
  <2>1. \A i \in DOMAIN m : FALSE
    BY <1>1
  <2> QED BY <2>1 DEF Good, ListsOK
<1> HIDE DEF m
<1>3. Len(m) = 0
  BY <1>2
<1>4. m = <<>>
  BY <1>2, <1>3
<1> QED BY <1>4 DEF m

(* A clear makes no mark.                                                  *)
LEMMA ClearNoMarks ==
  ASSUME NEW s, NEW t, Good(t), Cleared(s, t) PROVE NoMarks(s, t)
<1>1. \A i \in DOMAIN t.marks : \E k \in DOMAIN s.marks : TRUE
  BY DEF Cleared, MarksMove
<1> QED BY <1>1, NoMarksFrom DEF NoMarks

(* No step makes a mark but the program's.                                 *)
LEMMA NeverMarked ==
  ASSUME NoAltResize, PlainMarks, IInv, [Next]_vars, "mark" \notin scene.shell
  PROVE  NoMarks(scr, scr')
<1>1. Good(scr) /\ scene \in Scenes /\ IInv'
  BY InvStep DEF IInv
<1>2. Good(scr')
  BY <1>1 DEF IInv
<1>3. CASE Program
  <2>1. Kinds(scr, scr') /\ ~May("mark")
    BY <1>1, <1>3, ProgramKind DEF PlainMarks, May
  <2>2. CASE Goes(scr, scr') \/ Edit(scr, scr') \/ Shuffle(scr, scr')
    BY <2>2 DEF Goes, Edit, Stays, Shuffle, Keeps, Frame, NoMarks
  <2>3. CASE Enters(scr, scr') \/ Leaves(scr, scr') \/ Blanks1(scr, scr')
    BY <2>3 DEF Enters, Leaves, Blanks1, Entered, Left, Blanked, Differ, Fields, NoMarks
  <2>4. CASE Clears(scr, scr')
    BY <1>2, <2>4, ClearNoMarks DEF Clears
  <2> QED BY <2>1, <2>2, <2>3, <2>4 DEF Kinds
<1>4. CASE User
  <2>1. CASE ResizePane
    <3>1. PICK d \in scene.sizes : scr' = Resize(scr, d.rows, d.cols)
      BY <2>1 DEF ResizePane
    <3>2. ~OnAlt(scr)
      BY <1>1, <2>1 DEF ResizePane, NoAltResize, IInv
    <3>3. d.rows \in Nat \ {0} /\ d.cols \in Nat \ {0}
      <4>1. d \in Dims
        BY <1>1, ScenesAssumption
      <4> QED BY <4>1 DEF Dims
    <3>4. Sized(scr, scr', d.rows, d.cols)
      BY <1>1, <3>1, <3>2, <3>3, ResizeSized
    <3> QED BY <3>4 DEF Sized, NoMarks
  <2>2. CASE ~ResizePane
    <3>1. Views(scr, scr') \/ Clears(scr, scr') \/ Capped(scr, scr')
      BY <1>1, <1>4, <2>2, UserKind
    <3>2. CASE Views(scr, scr')
      BY <3>2 DEF Views, NoMarks
    <3>3. CASE Clears(scr, scr')
      BY <1>2, <3>3, ClearNoMarks DEF Clears
    <3>4. CASE Capped(scr, scr')
      BY <1>1, <3>4 DEF Capped, Good, Fields, NoMarks
    <3> QED BY <3>1, <3>2, <3>3, <3>4
  <2> QED BY <2>1, <2>2
<1>5. CASE Select
  <2>1. PICK n \in Span(Total(scr)), id \in Anchors : scr' = ChooseLine(scr, n, id)
    BY <1>1, <1>5, SelectKind
  <2>2. Chosen(scr, scr', n, id)
    BY <1>1, <2>1, SelectSound
  <2> QED BY <2>2 DEF Chosen, Differ, Fields, NoMarks
<1>6. CASE Render
  <2>1. Redrawn(scr, scr')
    BY <1>1, <1>6, RenderKind
  <2> QED BY <2>1 DEF Redrawn, Fields, NoMarks
<1>7. CASE UNCHANGED vars
  BY <1>7 DEF vars, NoMarks
<1> QED BY <1>3, <1>4, <1>5, <1>6, <1>7 DEF Next

(* What any step does to the marks.                                        *)
LEMMA MarkMoves ==
  ASSUME PlainMarks, MInv, Next, "mark" \in scene.shell
  PROVE  MarksKept(scr, scr')
<1>1. Good(scr) /\ scene \in Scenes
  BY DEF MInv, IInv
<1>2. CASE Program
  BY <1>1, <1>2, ProgramKind, ProgramMarks
<1> QED BY <1>2, UserMarks, SelectMarks, RenderMarks DEF Next

(* What a pane's program and user do is fixed.                             *)
LEMMA SceneStays == [Next]_vars => scene' = scene
<1>1. ASSUME Program PROVE scene' = scene
  BY <1>1, ZenonT(60) DEF Program, Text, Cursor, Tabs, Lines, Cells, Modes, Prompt, Emits
<1>2. ASSUME User PROVE scene' = scene
  BY <1>2, ZenonT(60) DEF User, ResizePane, UserDoes
<1> QED BY <1>1, <1>2 DEF Next, Select, Render, vars

(* Every step keeps the invariant of the marks.                            *)
LEMMA MarkInvStep == NoAltResize /\ PlainMarks /\ MInv /\ [Next]_vars => MInv'
<1> SUFFICES ASSUME NoAltResize, PlainMarks, MInv, [Next]_vars PROVE MInv'
  OBVIOUS
<1>1. IInv' /\ scene' = scene
  BY InvStep, SceneStays DEF MInv
<1>2. CASE "mark" \notin scene.shell
  BY <1>1, <1>2, NeverMarked DEF MInv, NoMarks
<1>3. CASE "mark" \in scene.shell /\ Next
  BY <1>1, <1>3, MarkMoves DEF MInv, MarksKept
<1>4. CASE UNCHANGED vars
  <2>1. scr' = scr
    BY <1>4 DEF vars
  <2> QED BY <1>1, <2>1 DEF MInv
<1> QED BY <1>2, <1>3, <1>4

(* No step forgets a mark of a line that is still there, unless the list   *)
(* is full.                                                                *)
LEMMA NothingForgotten ==
  NoAltResize /\ PlainMarks /\ MInv /\ [Next]_vars =>
    [\A i \in DOMAIN scr.marks :
       scr.marks[i].id \notin MarkIds(scr') =>
         ~Alive(scr', scr.marks[i].id) \/ Len(scr.marks) = MaxMarks]_vars
<1> SUFFICES ASSUME NoAltResize, PlainMarks, MInv, Next PROVE Forgets(scr, scr')
  BY DEF Forgets
<1>1. CASE "mark" \notin scene.shell
  <2>1. DOMAIN scr.marks = {}
    BY <1>1 DEF MInv
  <2> QED BY <2>1 DEF Forgets
<1>2. CASE "mark" \in scene.shell
  BY <1>2, MarkMoves DEF MarksKept
<1> QED BY <1>1, <1>2

(* The invariant and the anchors.                                          *)
LEMMA MarkedNames == MInv => AnchorsHold
<1> SUFFICES ASSUME MInv, NEW i \in DOMAIN scr.marks
             PROVE  Names(scr, scr.marks[i].line, scr.marks[i].id)
  BY DEF AnchorsHold
<1>1. Good(scr) /\ Marked(scr)
  <2>1. scr.marks = <<>> => DOMAIN scr.marks = {}
    OBVIOUS
  <2> QED BY <2>1 DEF MInv, IInv
<1>2. scr.marks[i].line \in Nat
  BY <1>1, MarkParts DEF Good, ListsOK
<1> QED BY <1>1, <1>2, NamesIs DEF Marked

(* A jump to the prompt k lines up shows its line first.                   *)
LEMMA JumpShows ==
  MInv => \A fwd \in BOOLEAN :
    scr' = JumpToPrompt(scr, fwd) /\ scr.view # scr'.view /\ scr'.view > 0
      => \E i \in DOMAIN scr.marks : Names(scr', FirstShown(scr'), scr.marks[i].id)
<1> SUFFICES ASSUME MInv, NEW fwd \in BOOLEAN, scr' = JumpToPrompt(scr, fwd),
                    scr.view # scr'.view, scr'.view > 0
             PROVE  \E i \in DOMAIN scr.marks : Names(scr', FirstShown(scr'), scr.marks[i].id)
  OBVIOUS
<1>1. Good(scr) /\ JumpToPrompt(scr, fwd) # scr
  BY DEF MInv, IInv
<1>2. PICK k \in DOMAIN scr.marks :
        scr' = SetView(scr, Minus(Len(scr.hist), scr.marks[k].line))
  BY <1>1, JumpTarget
<1> DEFINE h == Len(scr.hist)
           l == scr.marks[k].line
           v == Least(Minus(h, l), h)
<1>3. h \in Nat /\ l \in Nat
  BY <1>1, TotalNat, MarkParts DEF Good, ListsOK
<1>4. scr' = [scr EXCEPT !.view = v, !.grid = Touch(@)]
  BY <1>2 DEF SetView
<1>5. v \in Nat /\ v <= h
  <2> HIDE DEF h, l
  <2> QED BY <1>3 DEF Least, Minus
<1>6. Good(scr') /\ scr'.hist = scr.hist /\ scr'.grid.rows = scr.grid.rows /\ scr'.view = v
  <2> HIDE DEF v
  <2>1. Sound(scr, scr') /\ scr'.hist = scr.hist
    <3>1. scr.view <= Len(scr.hist) => v <= Len(scr.hist)
      BY <1>5 DEF h
    <3> DEFINE t == [scr EXCEPT !.view = v, !.grid = Touch(@)]
    <3>2. Sound(scr, t) /\ t.hist = scr.hist
      BY <1>1, <1>5, <3>1, ViewSound
    <3> HIDE DEF t
    <3>3. scr' = t
      BY <1>4 DEF t
    <3> QED BY <3>2, <3>3
  <2>2. scr'.view = v
    BY <1>1, <1>4 DEF Good, Fields
  <2> QED BY <2>1, <2>2 DEF Sound
<1>7. scr'.marks = scr.marks /\ scr'.saved = scr.saved /\ scr'.grid.line = scr.grid.line
  <2> HIDE DEF v
  <2> QED BY <1>1, <1>4, ViewParts
<1>8. FirstShown(scr') = l /\ l < h
  <2>1. /\ FirstShown(scr') = Minus(Minus(h + scr.grid.rows, v), scr.grid.rows)
        /\ scr.grid.rows \in Nat \ {0}
    <3>1. Len(LinesOf(scr')) = h + scr.grid.rows
      BY <1>6, LinesParts DEF Total
    <3> QED BY <1>1, <1>6, <3>1, GoodGrid DEF FirstShown, EndShown
  <2>2. v > 0
    BY <1>6
  <2> HIDE DEF h, l
  <2>3. v = h - l /\ l < h
    BY <1>3, <1>5, <2>2 DEF Least, Minus
  <2> HIDE DEF v
  <2> QED BY <1>3, <1>5, <2>1, <2>3 DEF Minus
<1> HIDE DEF h, v
<1>9. Marked(scr)
  <2>1. scr.marks # <<>>
    OBVIOUS
  <2> QED BY <2>1 DEF MInv
<1>10. Together(scr, scr')
  BY <1>1, <1>6, <1>7, ViewsTogether
<1>11. Marked(scr')
  BY <1>1, <1>6, <1>9, <1>10, TogetherHolds
<1>12. Names(scr', l, scr.marks[k].id)
  BY <1>3, <1>6, <1>7, <1>11, NamesIs DEF Marked
<1> QED BY <1>8, <1>12

-----------------------------------------------------------------------------
(* The selection.                                                          *)
StillSelect == \A s \in Scenes : "select" \in s.ui => "resize" \notin s.ui
SInv == /\ IInv
        /\ sel # <<>> => "select" \in scene.ui /\ sel[1].line \in Nat

(* Only the mouse sets the selection.                                      *)
LEMMA SelChanges == IInv /\ [Next]_vars => sel' = sel \/ Select
<1> SUFFICES ASSUME IInv, [Next]_vars PROVE sel' = sel \/ Select
  OBVIOUS
<1>1. ASSUME Program PROVE sel' = sel
  BY <1>1, ZenonT(60) DEF Program, Text, Cursor, Tabs, Lines, Cells, Modes, Prompt, Emits
<1>2. ASSUME User PROVE sel' = sel
  BY <1>2, ZenonT(60) DEF User, ResizePane, UserDoes
<1> QED BY <1>1, <1>2 DEF Next, Render, vars

(* The line that is selected is the one that was shown under the mouse.    *)
LEMMA SelectHolds ==
  ASSUME IInv, Select
  PROVE  SelHolds' /\ sel'[1].line \in Nat
<1>1. Good(scr)
  BY DEF IInv
<1>2. PICK n \in Span(Total(scr)), id \in Anchors :
        sel' = <<[line |-> n, id |-> id]>> /\ scr' = ChooseLine(scr, n, id)
  BY <1>1, SelectKind
<1>3. Good(scr') /\ scr'.grid.rows = scr.grid.rows /\ Chosen(scr, scr', n, id)
  BY <1>1, <1>2, SelectSound DEF Sound
<1>4. Total(scr') = Total(scr) /\ Total(scr) \in Nat
  BY <1>1, <1>3, TotalNat DEF Total, Chosen
<1>5. n + 1 \in DOMAIN LinesOf(scr') /\ id \in LinesOf(scr')[n + 1].tag
  <2>1. /\ DOMAIN LinesOf(scr') = 1 .. Total(scr)
        /\ LinesOf(scr')[n + 1].tag = TagAt(scr', n)
    BY <1>3, <1>4, LinesParts
  <2>2. id \in TagAt(scr', n)
    BY <1>3 DEF Chosen
  <2>3. n + 1 \in 1 .. Total(scr)
    BY <1>4 DEF Span
  <2> QED BY <2>1, <2>2, <2>3
<1>6. sel'[1].line = n /\ sel'[1].id = id /\ n \in Nat
  BY <1>2 DEF Span
<1> QED BY <1>5, <1>6 DEF SelHolds

(* Every step keeps what is needed of the selection.                       *)
LEMMA SelInvStep == NoAltResize /\ SInv /\ [Next]_vars => SInv'
<1> SUFFICES ASSUME NoAltResize, SInv, [Next]_vars PROVE SInv'
  OBVIOUS
<1>1. IInv' /\ scene' = scene
  BY InvStep, SceneStays DEF SInv
<1>2. CASE sel' = sel
  BY <1>1, <1>2 DEF SInv
<1>3. CASE Select
  <2>1. sel'[1].line \in Nat /\ "select" \in scene.ui
    BY <1>3, SelectHolds DEF SInv, Select
  <2> QED BY <1>1, <2>1 DEF SInv
<1> QED BY <1>2, <1>3, SelChanges DEF SInv

(* The scrollback grows by text that scrolls the whole primary screen.     *)
LEMMA Grows ==
  ASSUME StillSelect, IInv, [Next]_vars, "select" \in scene.ui, Len(scr'.hist) > Len(scr.hist)
  PROVE  Goes(scr, scr')
<1>1. Good(scr) /\ scene \in Scenes
  BY DEF IInv
<1>2. Len(scr.hist) \in Nat /\ scr'.hist # scr.hist
  BY <1>1, TotalNat
<1>3. scr'.hist # <<>>
  BY <1>2
<1>4. CASE Program
  <2>1. Kinds(scr, scr')
    BY <1>1, <1>4, ProgramKind
  <2>2. ~Edit(scr, scr') /\ ~Shuffle(scr, scr') /\ ~Prompts(scr, scr')
    BY <1>2 DEF Edit, Shuffle, Prompts
  <2>3. ~Enters(scr, scr') /\ ~Leaves(scr, scr')
    BY <1>2 DEF Enters, Leaves, Entered, Left, Differ, Fields
  <2>4. ~Blanks1(scr, scr') /\ ~Clears(scr, scr')
    BY <1>3 DEF Blanks1, Clears, Blanked, Cleared
  <2> QED BY <2>1, <2>2, <2>3, <2>4 DEF Kinds
<1>5. CASE User
  <2>1. ~ResizePane
    BY <1>1 DEF ResizePane, StillSelect
  <2>2. Views(scr, scr') \/ Clears(scr, scr') \/ Capped(scr, scr')
    BY <1>1, <1>5, <2>1, UserKind
  <2>3. ~Views(scr, scr') /\ ~Clears(scr, scr')
    BY <1>2, <1>3 DEF Views, Clears, Cleared
  <2>4. ~Capped(scr, scr')
    BY <1>1, <1>2 DEF Capped, Good, Fields
  <2> QED BY <2>2, <2>3, <2>4
<1>6. CASE Select
  <2>1. PICK n \in Span(Total(scr)), id \in Anchors : scr' = ChooseLine(scr, n, id)
    BY <1>1, <1>6, SelectKind
  <2>2. Len(scr'.hist) = Len(scr.hist)
    BY <1>1, <2>1, SelectSound DEF Chosen
  <2> QED BY <1>2, <2>2
<1>7. CASE Render
  <2>1. scr'.hist = scr.hist
    BY <1>1, <1>7, RenderKind DEF Redrawn, Fields
  <2> QED BY <1>2, <2>1
<1>8. CASE UNCHANGED vars
  BY <1>2, <1>8 DEF vars
<1> QED BY <1>4, <1>5, <1>6, <1>7, <1>8 DEF Next

(* While the scrollback grows below its cap no line is evicted, so the     *)
(* selection stays on its text.                                            *)
LEMMA GrowthKeepsSelection ==
  ASSUME StillSelect, SInv, [Next]_vars, sel' = sel, SelHolds,
         Len(scr'.hist) > Len(scr.hist), Len(scr'.hist) < scr'.cap
  PROVE  SelHolds'
<1> SUFFICES ASSUME sel # <<>> PROVE SelHolds'
  BY DEF SelHolds
<1> DEFINE l == sel[1].line
<1>1. Good(scr) /\ Goes(scr, scr') /\ l \in Nat
  BY Grows DEF SInv, IInv
<1>2. Good(scr') /\ scr'.cap = scr.cap /\ Len(scr'.hist) \in Nat /\ Len(scr.hist) \in Nat /\ scr.cap \in Nat
  BY <1>1, TotalNat DEF Goes, Keeps, Frame, Good, RestOK
<1>3. RegionIsFull(scr) /\ scr.cap # 0
  <2>1. scr'.hist # scr.hist
    BY <1>2
  <2> QED BY <1>1, <1>2, <2>1 DEF Goes, Calm
<1>4. ~OnAlt(scr)
  BY <1>1, <1>2 DEF Goes, Keeps, Hist
<1>5. PICK e \in Nat : Shift(scr, scr', e)
  BY <1>1, <1>3, <1>4 DEF Goes, Stays, Carries
<1>6. e = 0
  BY <1>2, <1>5 DEF Shift
<1>7. LinesMove(scr, scr', 0)
  BY <1>5, <1>6 DEF Shift
<1> HIDE DEF l
<1>8. /\ DOMAIN LinesOf(scr) = 1 .. Total(scr) /\ DOMAIN LinesOf(scr') = 1 .. Total(scr')
      /\ \A i \in Span(Total(scr)) : LinesOf(scr)[i + 1].tag = TagAt(scr, i)
      /\ \A i \in Span(Total(scr')) : LinesOf(scr')[i + 1].tag = TagAt(scr', i)
      /\ Total(scr) \in Nat /\ Total(scr') \in Nat
  BY <1>1, <1>2, LinesParts, TotalNat
<1>9. l + 1 \in 1 .. Total(scr) /\ sel[1].id \in LinesOf(scr)[l + 1].tag
  BY <1>8 DEF SelHolds, l
<1>10. l \in Span(Total(scr)) /\ l >= 0 /\ l - 0 = l
  BY <1>1, <1>8, <1>9 DEF Span
<1>11. l \in Span(Total(scr')) /\ TagAt(scr', l) = TagAt(scr, l)
  BY <1>7, <1>10 DEF LinesMove
<1>12. l + 1 \in 1 .. Total(scr')
  BY <1>1, <1>8, <1>11 DEF Span
<1>13. sel[1].id \in LinesOf(scr')[l + 1].tag
  BY <1>8, <1>9, <1>10, <1>11
<1> QED BY <1>8, <1>12, <1>13 DEF SelHolds, l

(* What any step does to the selection.                                    *)
LEMMA SelectionStep ==
  StillSelect /\ SInv /\ [Next]_vars =>
    [\/ sel' # sel
     \/ /\ SelHolds /\ Len(scr'.hist) > Len(scr.hist)
        /\ Len(scr'.hist) < scr'.cap
     => SelHolds']_vars
<1> SUFFICES ASSUME StillSelect, SInv, Next,
                    \/ sel' # sel
                    \/ /\ SelHolds /\ Len(scr'.hist) > Len(scr.hist)
                       /\ Len(scr'.hist) < scr'.cap
             PROVE  SelHolds'
  OBVIOUS
<1>1. CASE sel' # sel
  BY <1>1, SelChanges, SelectHolds DEF SInv
<1>2. CASE sel' = sel
  BY <1>2, GrowthKeepsSelection
<1> QED BY <1>1, <1>2

(* The invariant of the marks holds in every behaviour.                    *)
THEOREM MarkInvariant == NoAltResize /\ PlainMarks => (Spec => []MInv)
<1> SUFFICES ASSUME NoAltResize, PlainMarks PROVE Spec => []MInv
  OBVIOUS
<1>1. Init => MInv
  BY MarkSpawn
<1>2. MInv /\ [Next]_vars => MInv'
  BY MarkInvStep
<1> QED BY <1>1, <1>2, PTL DEF Spec

(* Every prompt mark is the absolute index of the line its prompt was      *)
(* printed on, whatever was printed, evicted, cleared, reset or shown on   *)
(* the alternate screen since, and whatever the settings did to the cap.   *)
THEOREM MarksStayOnTheirLines == NoAltResize /\ PlainMarks => (Spec => []AnchorsHold)
  BY MarkInvariant, MarkedNames, PTL

(* A mark is forgotten only with its line, or when the list is full.       *)
THEOREM MarksAreKept == NoAltResize /\ PlainMarks => (Spec => NoMarkForgotten)
<1> SUFFICES ASSUME NoAltResize, PlainMarks PROVE Spec => NoMarkForgotten
  OBVIOUS
<1>1. MInv /\ [Next]_vars =>
        [\A i \in DOMAIN scr.marks :
           scr.marks[i].id \notin MarkIds(scr') =>
             ~Alive(scr', scr.marks[i].id) \/ Len(scr.marks) = MaxMarks]_vars
  BY NothingForgotten
<1>2. Spec => []MInv
  BY MarkInvariant
<1> QED BY <1>1, <1>2, PTL DEF Spec, NoMarkForgotten

(* jump_to_prompt shows a marked line at the top of the window whenever it *)
(* scrolls back to one.                                                    *)
THEOREM JumpsLand == NoAltResize /\ PlainMarks => (Spec => JumpLandsOnPrompt)
<1> SUFFICES ASSUME NoAltResize, PlainMarks PROVE Spec => JumpLandsOnPrompt
  OBVIOUS
<1>1. MInv /\ [Next]_vars =>
        [\A fwd \in BOOLEAN :
           scr' = JumpToPrompt(scr, fwd) /\ scr.view # scr'.view /\ scr'.view > 0
             => \E i \in DOMAIN scr.marks :
                  Names(scr', FirstShown(scr'), scr.marks[i].id)]_vars
  BY JumpShows
<1>2. Spec => []MInv
  BY MarkInvariant
<1> QED BY <1>1, <1>2, PTL DEF Spec, JumpLandsOnPrompt

(* The selection is the line under the mouse, and it stays on that text    *)
(* while lines enter the scrollback and fit into it.                       *)
THEOREM SelectionStaysOnText == NoAltResize /\ StillSelect => (Spec => SelectionFollows)
<1> SUFFICES ASSUME NoAltResize, StillSelect PROVE Spec => SelectionFollows
  OBVIOUS
<1>1. Init => SInv
  BY InitInv DEF SInv, Init
<1>2. SInv /\ [Next]_vars => SInv'
  BY SelInvStep
<1>3. SInv /\ [Next]_vars =>
        [\/ sel' # sel
         \/ /\ SelHolds /\ Len(scr'.hist) > Len(scr.hist)
            /\ Len(scr'.hist) < scr'.cap
         => SelHolds']_vars
  BY SelectionStep
<1> QED BY <1>1, <1>2, <1>3, PTL DEF Spec, SelectionFollows
=============================================================================
