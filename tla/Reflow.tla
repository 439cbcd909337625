------------------------------- MODULE Reflow -------------------------------
(***************************************************************************)
(* The layout computed by Screen::reflow_resize (crates/core/src/term.rs): *)
(* the physical rows of the scrollback and the grid are joined into        *)
(* logical lines along the soft-wrap flags, trimmed, cut again at the new  *)
(* width, and divided between the new scrollback and the new grid.         *)
(*                                                                         *)
(* The code builds the rows with loops over growing vectors.  Here the row *)
(* number k of the result is given directly: Start finds where a logical   *)
(* line begins, Height how many rows it needs, Base the number of rows     *)
(* above it.  No operator is RECURSIVE, so the module can be proved about. *)
(***************************************************************************)
EXTENDS Grid, Integers, Sequences

(* p[0 .. n-1] are the physical rows, oc the old width, (cr, cc) the       *)
(* cursor as a physical row and a column of at most oc.                    *)
Input(hist, grid, row, col) ==
  [n  |-> Len(hist) + grid.rows,
   oc |-> grid.cols,
   cr |-> Len(hist) + Least(row, grid.rows - 1),
   cc |-> Least(col, grid.cols),
   p  |-> [i \in Span(Len(hist) + grid.rows) |->
            IF i < Len(hist)
            THEN [hist[i + 1] EXCEPT !.cells =
                    [c \in Span(grid.cols) |->
                       IF c \in DOMAIN hist[i + 1].cells
                       THEN hist[i + 1].cells[c] ELSE BlankCell]]
            ELSE grid.line[i - Len(hist)]]]

IsBlankRow(line) == \A c \in DOMAIN line.cells : line.cells[c].ch = Blank

(* Rows kept: trailing blank rows that do not wrap are dropped, but never  *)
(* the row of the cursor or one above it.                                  *)
Kept(x) ==
  CHOOSE k \in (x.cr + 1) .. x.n :
    LET droppable(i) == IsBlankRow(x.p[i]) /\ ~x.p[i].wrapped
    IN  /\ \A i \in k .. (x.n - 1) : droppable(i)
        /\ k = x.cr + 1 \/ ~droppable(k - 1)

StartsUnjoined(x) == Span(Kept(x))          \* Mutant: no row is joined
Starts(x) == {i \in Span(Kept(x)) : i = 0 \/ ~x.p[i - 1].wrapped}

(* The last physical row of the logical line that starts at i.             *)
End(x, i) ==
  CHOOSE e \in i .. (Kept(x) - 1) :
    /\ \A j \in i .. (e - 1) : x.p[j].wrapped
    /\ ~x.p[e].wrapped \/ e = Kept(x) - 1

HasCursor(x, i) == i <= x.cr /\ x.cr <= End(x, i)
CursorOffsetNoCol(x, i) == (x.cr - i) * x.oc  \* Mutant: the column is lost
CursorOffset(x, i) == (x.cr - i) * x.oc + x.cc

CellAt(x, i, o) == x.p[i + (o \div x.oc)].cells[o % x.oc]

(* Length of the logical line: without its trailing blanks, but reaching   *)
(* the cursor; a last line still open (wrapped) is not trimmed.            *)
Length(x, i) ==
  LET full == (End(x, i) - i + 1) * x.oc
      text == {o \in Span(full) : CellAt(x, i, o).ch # Blank}
      trim == IF text = {} THEN 0
              ELSE 1 + CHOOSE o \in text : \A q \in text : q <= o
  IN  IF x.p[End(x, i)].wrapped THEN full
      ELSE IF HasCursor(x, i) THEN Most(trim, CursorOffset(x, i))
      ELSE trim

Height(x, i, nc) ==
  IF Length(x, i) = 0 THEN 1 ELSE (Length(x, i) + nc - 1) \div nc

(* Rows of the result above physical row i.                                *)
Base(x, nc) ==
  LET B[i \in 0 .. Kept(x)] ==
        IF i = 0 THEN 0
        ELSE B[i - 1] + (IF i - 1 \in Starts(x) THEN Height(x, i - 1, nc)
                         ELSE 0)
  IN  B

(* The chunk of width nc that holds offset o of the logical line at i.     *)
Chunk(x, nc, i, o) == Least(o \div nc, Height(x, i, nc) - 1)

(* Chunk q of the logical line at i, as a physical row.                    *)
CutRow(x, nc, i, q) ==
  [cells |-> [c \in Span(nc) |->
     IF q * nc + c < Length(x, i)
     THEN Plain(CellAt(x, i, q * nc + c).ch) ELSE BlankCell],
   wrapped |-> (q + 1) * nc < Length(x, i),
   tag |-> UNION {x.p[j].tag : j \in
     {m \in i .. End(x, i) : Chunk(x, nc, i, (m - i) * x.oc) = q}}]

(* The rows, the first row of the new grid, and the cursor on it; ci is    *)
(* the logical line of the cursor.                                         *)
Window(x, nr, nc, base, ci) ==
  LET total == base[Kept(x)]
      lineOf(k) == CHOOSE i \in Starts(x) :
                     base[i] <= k /\ k < base[i] + Height(x, i, nc)
      rowOf(i, k) == CutRow(x, nc, i, k - base[i])
      q0 == Chunk(x, nc, ci, CursorOffset(x, ci))
      cr == base[ci] + q0
      gs == Least(Minus(total, nr), cr)
  IN  [rows  |-> [k \in Span(total) |-> rowOf(lineOf(k), k)],
       total |-> total,
       start |-> gs,
       row   |-> Least(cr - gs, nr - 1),
       col   |-> Least(CursorOffset(x, ci) - q0 * nc, nc - 1)]

Layout(x, nr, nc) ==
  Window(x, nr, nc, Base(x, nc), CHOOSE i \in Starts(x) : HasCursor(x, i))
=============================================================================
