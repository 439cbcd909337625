----------------------------- MODULE ReflowProps -----------------------------
(***************************************************************************)
(* What Screen::reflow_resize promises when the width of a pane changes:   *)
(* no character is lost, no hard newline appears or disappears, and the    *)
(* cursor stays at its place in the text.  The text of a screen is read    *)
(* off its rows without any of the operators of module Reflow.             *)
(***************************************************************************)
EXTENDS ScreenProps
LOCAL INSTANCE SequencesExt

EOL == "EOL"

Letters(cells, n) ==
  LET printed(x) == x.ch # Blank
      first[i \in 0 .. n] ==
        IF i = 0 THEN <<>>
        ELSE first[i - 1] \o SelectSeq(<<cells[i - 1]>>, printed)
  IN  [i \in DOMAIN first[n] |-> first[n][i].ch]

RowText(line) ==
  Letters(line.cells, Cardinality(DOMAIN line.cells)) \o
  (IF line.wrapped THEN <<>> ELSE <<EOL>>)

RowTexts(s) == [i \in DOMAIN LinesOf(s) |-> RowText(LinesOf(s)[i])]

(* The letters and hard newlines of the scrollback and the grid, without   *)
(* the blank lines below the last letter.                                  *)
ScreenText(s) ==
  LET all  == FlattenSeq(RowTexts(s))
      used == {i \in DOMAIN all : all[i] # EOL}
  IN  SubSeq(all, 1, IF used = {} THEN 0 ELSE CHOOSE i \in used :
                                              \A j \in used : j <= i)

(* The letters and hard newlines in front of the cursor.                   *)
BeforeCursor(s) ==
  FlattenSeq(SubSeq(RowTexts(s), 1, Len(s.hist) + s.row)) \o
  Letters(s.grid.line[s.row].cells, Least(s.col, s.grid.cols))

Reflowed == /\ ~OnAlt(scr) /\ scr'.grid.cols # scr.grid.cols
            /\ Len(scr'.hist) < scr'.cap

(* While the scrollback is below its cap, a change of width keeps every    *)
(* letter and every hard newline of the pane, in order.                    *)
ReflowLosesNothing == [][Reflowed => ScreenText(scr') = ScreenText(scr)]_vars

IsPrefixText(t, u) == Len(t) <= Len(u) /\ t = SubSeq(u, 1, Len(t))

(* Wherever the cursor is, what a change of width can lose is a tail of the*)
(* text: nothing above or left of the cursor, and nothing in the middle;   *)
(* and when the cursor is behind all of the text, nothing at all.  The     *)
(* text in front of the cursor is kept but for one letter: the cursor of a *)
(* line that fills the new width exactly is put on its last letter.        *)
ReflowKeepsText ==
  [][Reflowed =>
       LET before == ScreenText(scr)
           after == ScreenText(scr')
           left == BeforeCursor(scr)
           left2 == BeforeCursor(scr')
       IN  /\ after = before \/ (IsPrefixText(after, before) /\ ~IsPrefixText(before, left))
           /\ left2 = left \/ \E x \in Glyphs : left2 \o <<x>> = left]_vars

(* The cursor stays between the same two letters, so that what the shell   *)
(* prints next goes where it would have gone.                              *)
ReflowKeepsCursor ==
  [][Reflowed => BeforeCursor(scr') = BeforeCursor(scr)]_vars
=============================================================================
