------------------------------- MODULE Screen -------------------------------
(***************************************************************************)
(* One terminal screen (struct Screen of crates/core/src/term.rs) between  *)
(* the three actors that touch it under the terminal mutex: the program in *)
(* the pane, whose output the reader thread parses into it; the user, who  *)
(* scrolls, selects and resizes; and the renderer of the egui shell, which *)
(* keeps the rows it drew and redraws only on damage.                      *)
(*                                                                         *)
(* "scr" is the Screen record; every method is an operator from screens to *)
(* screens, so that a handler which calls others is one step, as it is in  *)
(* the code.                                                               *)
(* Option values are sequences of length at most one.                      *)
(***************************************************************************)
EXTENDS Reflow, FiniteSets

CONSTANTS
  Wide,         \* the glyphs that are two columns wide
  TabInterval,  \* DEFAULT_TAB_INTERVAL
  MaxMarks,     \* PROMPT_MARKS_MAX
  Scenes        \* the situations a pane may be in, see below

ASSUME WideAssumption == Wide \subseteq Glyphs
ASSUME MarksAssumption == MaxMarks \in Nat \ {0}

(* A scene says what a pane's program and its user do, and within which    *)
(* bounds: the operations by name, while the primary screen is shown       *)
(* (shell), while the alternate one is (tui) and by the user (ui); the     *)
(* glyphs and numeric parameters the program emits; the [rows, cols] at    *)
(* spawn and later, the scrollback cap at spawn and those of the settings. *)
Dims == [rows : Nat \ {0}, cols : Nat \ {0}]
ASSUME ScenesAssumption == \A s \in Scenes :
  /\ s.glyphs \subseteq Glyphs /\ s.params \subseteq Nat
  /\ s.sizes \cup {s.size0} \subseteq Dims
  /\ s.caps \cup {s.cap0} \subseteq Nat

VARIABLES scr,    \* the Screen
          cache,  \* RowSpanCache of the pane: the rows last drawn and their key
          sel,    \* the mouse selection of the pane: an absolute line, or none
          size,   \* PaneTerm.size: the dimensions the window last asked for
          scene   \* which of the Scenes this is; never changes
vars == <<scr, cache, sel, size, scene>>

OnAlt(s) == s.saved # <<>>
TabStops(cols) == [c \in Span(cols) |-> c % TabInterval = 0]

NewScreen(rows, cols, cap) ==
  [grid |-> NewGrid(rows, cols), row |-> 0, col |-> 0,
   top |-> 0, bot |-> rows - 1, saved |-> <<>>, savedCursor |-> <<>>,
   hist |-> <<>>, cap |-> cap, view |-> 0, marks |-> <<>>,
   tabs |-> TabStops(cols), last |-> <<>>,
   autowrap |-> TRUE, insert |-> FALSE, origin |-> FALSE, reverse |-> FALSE]

-----------------------------------------------------------------------------
(* Anchors: absolute lines, counted from the oldest line of the scrollback *)

Suffix(q, n) == [i \in 1 .. n |-> q[Len(q) - n + i]]

(* Mutant: the line right behind the lost ones is lost too.                *)
ReanchorOffByOne(s, n) ==
  LET kept == SelectSeq(s.marks, LAMBDA m : m.line > n)
  IN  [s EXCEPT !.marks = [i \in DOMAIN kept |->
                             [kept[i] EXCEPT !.line = @ - n]]]

(* reanchor_after_scrollback_clear: n lines are gone from the top; the     *)
(* marks on them go too, and the others move up.                           *)
MarksFrom(marks, n) ==
  LET F[i \in 0 .. Len(marks)] ==
        IF i = 0 THEN <<>>
        ELSE IF marks[i].line >= n
             THEN Append(F[i - 1], [marks[i] EXCEPT !.line = @ - n])
             ELSE F[i - 1]
  IN  F[Len(marks)]
Reanchor(s, n) == [s EXCEPT !.marks = MarksFrom(@, n)]

ClearScrollback(s) ==
  Reanchor([s EXCEPT !.hist = <<>>, !.view = 0], Len(s.hist))

(* A line enters the scrollback as cells only: the spacer flags stay behind *)
HistoryLine(line) ==
  [line EXCEPT !.cells = [c \in DOMAIN line.cells |->
                            Plain(line.cells[c].ch)]]

HistoryLines(g, n) == [i \in 1 .. n |->
  HistoryLine(IF i <= g.rows THEN g.line[i - 1] ELSE BlankLine(g.cols))]

(* Mutants: eviction without rebasing the anchors; and scrolling the       *)
(* alternate screen into the scrollback.                                   *)
ScrollNoReanchor(s, n) ==
  LET all == s.hist \o HistoryLines(s.grid, n)
      scrolled == [s EXCEPT !.grid =
                     Touch(ScrollRegionUp(@, 0, s.grid.rows - 1, n))]
  IN  IF s.cap = 0 \/ OnAlt(s) THEN scrolled
      ELSE [scrolled EXCEPT !.hist = Suffix(all, Least(Len(all), s.cap))]
ScrollAltIntoHistory(s, n) ==
  LET all == s.hist \o HistoryLines(s.grid, n)
      scrolled == [s EXCEPT !.grid =
                     Touch(ScrollRegionUp(@, 0, s.grid.rows - 1, n))]
  IN  IF s.cap = 0 THEN scrolled
      ELSE Reanchor([scrolled EXCEPT !.hist =
                       Suffix(all, Least(Len(all), s.cap))],
                    Minus(Len(all), s.cap))

(* scroll_up_into_history: n lines leave the top of the grid; on the       *)
(* primary screen they enter the scrollback, which then evicts its oldest  *)
(* lines down to the cap and rebases the anchors by as many.               *)
ScrollIntoHistory(s, n) ==
  LET scrolled == [s EXCEPT !.grid =
                     Touch(ScrollRegionUp(@, 0, s.grid.rows - 1, n))]
      all     == s.hist \o HistoryLines(s.grid, n)
      evicted == Minus(Len(all), s.cap)
  IN  IF s.cap = 0 \/ OnAlt(s) THEN scrolled
      ELSE Reanchor([scrolled EXCEPT !.hist = Suffix(all, Len(all) - evicted)],
                    evicted)

RegionIsFull(s) == s.top = 0 /\ s.bot + 1 >= s.grid.rows

RegionUp(s, n) ==
  IF RegionIsFull(s) THEN ScrollIntoHistory(s, n)
  ELSE [s EXCEPT !.grid = ScrollRegionUp(@, s.top, s.bot, n)]

Newline(s) ==
  IF s.row = s.bot THEN RegionUp(s, 1)
  ELSE IF s.row + 1 < s.grid.rows THEN [s EXCEPT !.row = @ + 1]
  ELSE s

ReverseIndex(s) ==
  IF s.row = s.top
  THEN [s EXCEPT !.grid = ScrollRegionDown(@, s.top, s.bot, 1)]
  ELSE [s EXCEPT !.row = Minus(@, 1)]

-----------------------------------------------------------------------------
(* Printing *)

Width(x) == IF x \in Wide THEN 2 ELSE 1

SoftWrap(s) ==
  Newline([s EXCEPT !.grid = SetWrapped(@, s.row), !.col = 0])

(* print, for a character that is not zero-width.  An autowrap-off wide    *)
(* glyph that does not fit is dropped after the insert-mode shift.         *)
PrintChar(s, x) ==
  LET cols == s.grid.cols
      w    == Width(x)
      s1   == [s EXCEPT !.last = <<x>>,
                 !.grid = IF s.insert /\ s.col < cols
                          THEN InsertBlanks(@, s.row, s.col, w) ELSE @]
      s2   == IF s1.col < cols THEN s1
              ELSE IF s1.autowrap THEN SoftWrap(s1)
              ELSE [s1 EXCEPT !.col = cols - 1]
      s3   == IF w = 2 /\ s2.col + 1 >= cols THEN SoftWrap(s2) ELSE s2
      put(s4) ==
        LET g == SetCell(s4.grid, s4.row, s4.col, Plain(x))
        IN  [s4 EXCEPT !.col = @ + w,
               !.grid = IF w = 2 THEN SetCell(g, s4.row, s4.col + 1, Spacer)
                        ELSE g]
  IN  IF w = 2 /\ s2.col + 1 >= cols /\ ~s2.autowrap THEN s2 ELSE put(s3)

(* REP: print the last character n times.                                  *)
Repeat(s, n) ==
  LET P[i \in 0 .. n] == IF i = 0 THEN s ELSE PrintChar(P[i - 1], s.last[1])
  IN  IF s.last = <<>> THEN s ELSE P[n]

-----------------------------------------------------------------------------
(* Cursor, margins, tab stops, erasing *)

LastRow(s) == s.grid.rows - 1
LastCol(s) == s.grid.cols - 1

ResolveRow(s, target) ==
  IF s.origin THEN Least(s.top + target, s.bot) ELSE Least(target, LastRow(s))

CursorTo(s, row, col) ==                                          \* CUP
  [s EXCEPT !.row = ResolveRow(s, row), !.col = Least(col, LastCol(s))]
RowTo(s, row) == [s EXCEPT !.row = ResolveRow(s, row)]            \* VPA
ColTo(s, col) == [s EXCEPT !.col = Least(col, LastCol(s))]        \* CHA
CursorUp(s, n) ==
  [s EXCEPT !.row = Most(Minus(@, n), IF s.row >= s.top THEN s.top ELSE 0)]
CursorDown(s, n) ==
  [s EXCEPT !.row = Least(@ + n, IF s.row <= s.bot THEN s.bot ELSE LastRow(s))]
CursorRight(s, n) == [s EXCEPT !.col = Least(@ + n, LastCol(s))]
CursorLeft(s, n) == [s EXCEPT !.col = Minus(@, n)]
NextLine(s, n) == [s EXCEPT !.row = Least(@ + n, LastRow(s)), !.col = 0]
PrevLine(s, n) == [s EXCEPT !.row = Minus(@, n), !.col = 0]

SaveCursor(s) == [s EXCEPT !.savedCursor = <<[row |-> s.row, col |-> s.col]>>]
RestoreCursor(s) ==
  IF s.savedCursor = <<>> THEN [s EXCEPT !.row = 0, !.col = 0]
  ELSE [s EXCEPT !.row = Least(s.savedCursor[1].row, LastRow(s)),
                 !.col = Least(s.savedCursor[1].col, LastCol(s))]

SetMargins(s, top, bot) ==      \* DECSTBM, parameters from 1, 0 for absent
  LET t == Minus(top, 1)
      b == IF bot = 0 THEN LastRow(s) ELSE Least(bot - 1, LastRow(s))
  IN  IF t < b THEN [s EXCEPT !.top = t, !.bot = b, !.row = t, !.col = 0]
      ELSE [s EXCEPT !.top = 0, !.bot = LastRow(s), !.row = 0, !.col = 0]

IsStop(s, c) == c \in DOMAIN s.tabs /\ s.tabs[c]
TabForward(s) ==                \* to the next stop, or the last column
  IF s.col >= LastCol(s) THEN [s EXCEPT !.col = LastCol(s)]
  ELSE [s EXCEPT !.col = CHOOSE c \in (s.col + 1) .. LastCol(s) :
          /\ c = LastCol(s) \/ IsStop(s, c)
          /\ \A d \in (s.col + 1) .. (c - 1) : ~IsStop(s, d)]
TabBack(s) ==
  IF s.col = 0 THEN s
  ELSE [s EXCEPT !.col = CHOOSE c \in 0 .. (s.col - 1) :
          /\ c = 0 \/ IsStop(s, c)
          /\ \A d \in (c + 1) .. (s.col - 1) : ~IsStop(s, d)]
SetTab(s, on) ==
  IF s.col \in DOMAIN s.tabs THEN [s EXCEPT !.tabs[s.col] = on] ELSE s
ClearTabs(s) == [s EXCEPT !.tabs = [c \in DOMAIN s.tabs |-> FALSE]]
ResizeTabs(s, cols) ==
  [s EXCEPT !.tabs = [c \in Span(cols) |->
     IF c \in DOMAIN s.tabs THEN s.tabs[c] ELSE c % TabInterval = 0]]

InMargins(s) == s.top <= s.row /\ s.row <= s.bot
InsertLines(s, n) ==
  IF InMargins(s)
  THEN [s EXCEPT !.grid = ScrollRegionDown(@, s.row, s.bot, n), !.col = 0]
  ELSE s
DeleteLines(s, n) ==
  IF InMargins(s)
  THEN [s EXCEPT !.grid = ScrollRegionUp(@, s.row, s.bot, n), !.col = 0]
  ELSE s
RegionDown(s, n) == [s EXCEPT !.grid = ScrollRegionDown(@, s.top, s.bot, n)]

Erase(s, block) == [s EXCEPT !.grid = BlankCells(@, block)]
Below(s) == {cell \in Span(s.grid.rows) \X Span(s.grid.cols) : cell[1] > s.row}
Above(s) == {cell \in Span(s.grid.rows) \X Span(s.grid.cols) : cell[1] < s.row}
InRow(s, mode) ==               \* from the cursor, up to it, or all of its row
  {s.row} \X {c \in Span(s.grid.cols) : /\ mode = 0 => c >= s.col
                                       /\ mode = 1 => c <= s.col}
EraseInLine(s, mode) == Erase(s, InRow(s, mode))
EraseInDisplay(s, mode) ==
  CASE mode = 0 -> Erase(s, Below(s) \cup InRow(s, 0))
    [] mode = 1 -> Erase(s, Above(s) \cup InRow(s, 1))
    [] mode = 2 -> [s EXCEPT !.grid = Clear(@), !.row = 0, !.col = 0]
    [] mode = 3 -> ClearScrollback(s)
    [] OTHER    -> s

-----------------------------------------------------------------------------
(* Alternate screen, resets, resize *)

AltModes == {47, 1047, 1049}
EnterAlt(s, mode) ==
  IF OnAlt(s) THEN s
  ELSE LET t == [s EXCEPT !.saved =
                   <<[grid |-> s.grid, row |-> s.row, col |-> s.col]>>,
                   !.grid = NewGrid(s.grid.rows, s.grid.cols)]
       IN  IF mode = 47 THEN t ELSE [t EXCEPT !.row = 0, !.col = 0]

LeaveAlt(s, mode) ==
  IF ~OnAlt(s) THEN s
  ELSE LET p   == s.saved[1]
           row == IF mode = 1049 THEN p.row ELSE s.row
           col == IF mode = 1049 THEN p.col ELSE s.col
       IN  [s EXCEPT !.saved = <<>>, !.grid = Touch(p.grid),
                     !.row = Least(row, p.grid.rows - 1),
                     !.col = Least(col, p.grid.cols - 1)]

(* reset_state: DECSTR, and RIS when hard.                                 *)
Reset(s, hard) ==
  LET soft == [s EXCEPT !.grid = Clear(@), !.row = 0, !.col = 0, !.top = 0,
                 !.bot = LastRow(s), !.tabs = TabStops(s.grid.cols),
                 !.savedCursor = <<>>, !.last = <<>>, !.autowrap = TRUE,
                 !.insert = FALSE, !.origin = FALSE, !.reverse = FALSE]
  IN  IF ~hard THEN soft
      ELSE [soft EXCEPT !.hist = <<>>, !.view = 0, !.saved = <<>>,
              !.marks = <<>>, !.grid.line = [r \in Span(s.grid.rows) |->
                                               BlankLine(s.grid.cols)]]

(* The screen with the rows of layout l: the newest of those above the     *)
(* grid that the scrollback may hold, and the grid.                        *)
Rebuilt(s, l, rows, cols) ==
  LET kept == Least(l.start, s.cap)
  IN  [s EXCEPT
         !.hist = [i \in 1 .. kept |-> l.rows[l.start - kept + i - 1]],
         !.grid = [NewGrid(rows, cols) EXCEPT !.line =
            [r \in Span(rows) |-> IF l.start + r < l.total
                                  THEN l.rows[l.start + r]
                                  ELSE BlankLine(cols)]],
         !.row = l.row, !.col = l.col, !.view = 0]

ReflowResize(s, rows, cols) ==
  ResizeTabs(
    Rebuilt(s, Layout(Input(s.hist, s.grid, s.row, s.col), rows, cols),
            rows, cols),
    cols)

\* Mutant: the cursor is not brought back onto a shorter grid.
PlainResizeNoClamp(s, rows, cols) ==
  ResizeTabs([s EXCEPT !.grid = ResizeGrid(@, rows, cols)], cols)

PlainResize(s, rows, cols) ==
  ResizeTabs([s EXCEPT !.grid = ResizeGrid(@, rows, cols),
                       !.row = Least(@, rows - 1),
                       !.col = Least(@, cols - 1)], cols)

(* The margins follow the new height when they were, or now are, the whole *)
(* screen; else they are clamped.  t is s with its grid resized.           *)
FitMargins(s, t, rows) ==
  LET full == \/ RegionIsFull(s)
              \/ t.bot + 1 >= t.grid.rows
              \/ t.bot = 0
  IN  IF full \/ t.top > Least(t.bot, rows - 1)
      THEN [t EXCEPT !.top = 0, !.bot = rows - 1]
      ELSE [t EXCEPT !.bot = Least(@, rows - 1)]

(* Terminal::resize *)
Resize(s, rows, cols) ==
  FitMargins(s, IF cols # s.grid.cols /\ ~OnAlt(s)
                THEN ReflowResize(s, rows, cols)
                ELSE PlainResize(s, rows, cols), rows)

-----------------------------------------------------------------------------
(* Marks and the view *)

LinesOf(s) == s.hist \o [i \in 1 .. s.grid.rows |-> s.grid.line[i - 1]]

TagsOf(s) ==
  UNION ({LinesOf(s)[i].tag : i \in DOMAIN LinesOf(s)} \cup
         {s.saved[1].grid.line[r].tag : r \in
            IF OnAlt(s) THEN Span(s.saved[1].grid.rows) ELSE {}})
MarkIds(s) == {s.marks[i].id : i \in DOMAIN s.marks}

\* Mutant: the list of marks grows for ever.
PromptMarkUnbounded(s, id) ==
  [s EXCEPT !.marks = Append(@, [line |-> Len(s.hist) + s.row, id |-> id]),
            !.grid.line[s.row].tag = @ \cup {id}]

(* OSC 133 A: a mark at the cursor line unless the last mark is there; the *)
(* oldest mark goes when there are too many.                               *)
PromptMark(s, id) ==
  LET abs  == Len(s.hist) + s.row
      more == Append(s.marks, [line |-> abs, id |-> id])
  IN  IF s.marks # <<>> /\ s.marks[Len(s.marks)].line = abs THEN s
      ELSE [s EXCEPT !.marks = Suffix(more, Least(Len(more), MaxMarks)),
                     !.grid.line[s.row].tag = @ \cup {id}]

SetView(s, n) ==
  [s EXCEPT !.view = Least(n, Len(s.hist)), !.grid = Touch(@)]
ScrollUpView(s, n) == SetView(s, s.view + n)
ScrollDownView(s, n) ==
  [s EXCEPT !.view = Minus(@, n), !.grid = Touch(@)]
ScrollToBottom(s) == IF s.view = 0 THEN s ELSE SetView(s, 0)
ScrollToTop(s) == IF s.view = Len(s.hist) THEN s ELSE SetView(s, Len(s.hist))

WindowStartLive(s) == Len(s.hist)     \* Mutant: ignores the scrolled view
WindowStart(s) == Minus(Len(s.hist), s.view)

\* Mutant: the prompt ends up one line below the top of the window.
JumpPastPrompt(s, forward) ==
  LET lines == {s.marks[i].line : i \in DOMAIN s.marks}
      ahead == {l \in lines : IF forward THEN l > WindowStart(s)
                              ELSE l < WindowStart(s)}
      target == CHOOSE l \in ahead : \A k \in ahead :
                  IF forward THEN l <= k ELSE l >= k
  IN  IF ahead = {} THEN s ELSE SetView(s, Minus(Len(s.hist) + 1, target))

(* jump_to_prompt: the nearest mark above or below the top of the window.  *)
JumpToPrompt(s, forward) ==
  LET lines == {s.marks[i].line : i \in DOMAIN s.marks}
      ahead == {l \in lines : IF forward THEN l > WindowStart(s)
                              ELSE l < WindowStart(s)}
      target == CHOOSE l \in ahead : \A k \in ahead :
                  IF forward THEN l <= k ELSE l >= k
  IN  IF ahead = {} THEN s ELSE SetView(s, Minus(Len(s.hist), target))

(* for_visible_rows: the characters in the window, padded when it is short *)
EndShown(s) == Minus(Len(LinesOf(s)), s.view)
FirstShown(s) == Minus(EndShown(s), s.grid.rows)
Visible(s) ==
  LET all   == LinesOf(s)
      end   == EndShown(s)
      start == FirstShown(s)
      text(i, c) == IF i <= end /\ c \in DOMAIN all[i].cells
                    THEN all[i].cells[c].ch ELSE Blank
  IN  [r \in Span(s.grid.rows) |->
        [c \in Span(s.grid.cols) |-> text(start + r + 1, c)]]

KeyOf(s) == [view |-> s.view, cols |-> s.grid.cols, rows |-> s.grid.rows,
             reverse |-> s.reverse]

-----------------------------------------------------------------------------
(* The steps *)

Init ==
  /\ scene \in Scenes
  /\ scr = NewScreen(scene.size0.rows, scene.size0.cols, scene.cap0)
  /\ cache = <<>>                 \* RowSpanCache.valid is false
  /\ sel = <<>>
  /\ size = scene.size0

May(op) == op \in (IF OnAlt(scr) THEN scene.tui ELSE scene.shell)
Emits(op, s) ==
  May(op) /\ scr' = s /\ UNCHANGED <<cache, sel, size, scene>>
UserDoes(op, s) ==
  op \in scene.ui /\ scr' = s /\ UNCHANGED <<cache, sel, size, scene>>
Counts == scene.params \ {0}             \* first_param reads 0 as 1

Text ==
  \/ \E x \in scene.glyphs : Emits("print", PrintChar(scr, x))
  \/ \E n \in Counts : Emits("REP", Repeat(scr, n))
  \/ Emits("LF", Newline(scr))
  \/ Emits("CR", [scr EXCEPT !.col = 0])
  \/ Emits("BS", [scr EXCEPT !.col = Minus(@, 1)])
  \/ Emits("NEL", Newline([scr EXCEPT !.col = 0]))
  \/ Emits("RI", ReverseIndex(scr))
Cursor ==
  \/ \E r, c \in Counts : Emits("CUP", CursorTo(scr, r - 1, c - 1))
  \/ \E r \in Counts : Emits("VPA", RowTo(scr, r - 1))
  \/ \E c \in Counts : Emits("CHA", ColTo(scr, c - 1))
  \/ \E n \in Counts : Emits("CUU", CursorUp(scr, n))
  \/ \E n \in Counts : Emits("CUD", CursorDown(scr, n))
  \/ \E n \in Counts : Emits("CUF", CursorRight(scr, n))
  \/ \E n \in Counts : Emits("CUB", CursorLeft(scr, n))
  \/ \E n \in Counts : Emits("CNL", NextLine(scr, n))
  \/ \E n \in Counts : Emits("CPL", PrevLine(scr, n))
  \/ Emits("DECSC", SaveCursor(scr))
  \/ Emits("DECRC", RestoreCursor(scr))
Tabs ==
  \/ Emits("HT", TabForward(scr))
  \/ Emits("CBT", TabBack(scr))
  \/ \E on \in BOOLEAN : Emits("HTS", SetTab(scr, on))
  \/ Emits("TBC", ClearTabs(scr))
Lines ==
  \/ \E t, b \in scene.params : Emits("DECSTBM", SetMargins(scr, t, b))
  \/ \E n \in Counts : Emits("IL", InsertLines(scr, n))
  \/ \E n \in Counts : Emits("DL", DeleteLines(scr, n))
  \/ \E n \in Counts : Emits("SU", RegionUp(scr, n))
  \/ \E n \in Counts : Emits("SD", RegionDown(scr, n))
Cells ==
  \/ \E n \in Counts : Emits("ICH",
       [scr EXCEPT !.grid = InsertBlanks(@, scr.row, scr.col, n)])
  \/ \E n \in Counts : Emits("DCH",
       [scr EXCEPT !.grid = DeleteChars(@, scr.row, scr.col, n)])
  \/ \E n \in Counts : Emits("ECH",
       [scr EXCEPT !.grid = EraseChars(@, scr.row, scr.col, n)])
  \/ \E mode \in 0 .. 2 : Emits("EL", EraseInLine(scr, mode))
  \/ \E mode \in 0 .. 2 : Emits("ED", EraseInDisplay(scr, mode))
  \/ Emits("ED3", EraseInDisplay(scr, 3))
Modes ==
  \/ \E on \in BOOLEAN : Emits("IRM", [scr EXCEPT !.insert = on])
  \/ \E on \in BOOLEAN : Emits("DECAWM", [scr EXCEPT !.autowrap = on])
  \/ \E on \in BOOLEAN : Emits("DECSCNM", [scr EXCEPT !.reverse = on])
  \/ \E on \in BOOLEAN : Emits("DECOM",
       [scr EXCEPT !.origin = on, !.col = 0, !.row = IF on THEN scr.top ELSE 0])
  \/ \E mode \in AltModes : Emits("altOn", EnterAlt(scr, mode))
  \/ \E mode \in AltModes : Emits("altOff", LeaveAlt(scr, mode))
  \/ Emits("DECSTR", Reset(scr, FALSE))
  \/ Emits("RIS", Reset(scr, TRUE))
Prompt ==
  \E id \in Anchors \ (TagsOf(scr) \cup MarkIds(scr)) :
    scr.row < scr.grid.rows /\ Emits("mark", PromptMark(scr, id))

Program == Text \/ Cursor \/ Tabs \/ Lines \/ Cells \/ Modes \/ Prompt

(* PaneTerm::resize ignores the size it already has.                       *)
ResizePane ==
  /\ "resize" \in scene.ui
  /\ \E d \in scene.sizes \ {size} :
       size' = d /\ scr' = Resize(scr, d.rows, d.cols)
  /\ UNCHANGED <<cache, sel, scene>>

User ==
  \/ ResizePane
  \/ \E n \in Counts : UserDoes("wheelUp", ScrollUpView(scr, n))
  \/ \E n \in Counts : UserDoes("wheelDown", ScrollDownView(scr, n))
  \/ UserDoes("bottom", ScrollToBottom(scr))
  \/ UserDoes("top", ScrollToTop(scr))
  \/ \E fwd \in BOOLEAN : UserDoes("jump", JumpToPrompt(scr, fwd))
  \/ UserDoes("clear", ClearScrollback(scr))
  \/ \E n \in scene.caps : UserDoes("cap", [scr EXCEPT !.cap = n])

(* A row of the window is selected: the selection keeps the absolute line  *)
(* the pane computes for it; the ghost tag goes on the line that is shown. *)
Select ==
  /\ "select" \in scene.ui
  /\ \E id \in Anchors \ (TagsOf(scr) \cup MarkIds(scr)), r \in Span(scr.grid.rows) :
       LET shown == FirstShown(scr) + r
       IN  /\ sel' = <<[line |-> WindowStart(scr) + r, id |-> id]>>
           /\ scr' = IF shown < Len(scr.hist)
                     THEN [scr EXCEPT !.hist[shown + 1].tag = @ \cup {id}]
                     ELSE [scr EXCEPT !.grid.line[shown - Len(scr.hist)].tag =
                                         @ \cup {id}]
  /\ UNCHANGED <<cache, size, scene>>

(* grid_rows: keep the cached rows, or rebuild them and clear the damage.  *)
CacheHit ==
  /\ cache # <<>>
  /\ ~IsDamaged(scr.grid)
  /\ cache[1].key = KeyOf(scr)
Render ==
  /\ "render" \in scene.ui
  /\ ~CacheHit
  /\ cache' = <<[key |-> KeyOf(scr), shown |-> Visible(scr)]>>
  /\ scr' = [scr EXCEPT !.grid = ClearDamage(@)]
  /\ UNCHANGED <<sel, size, scene>>

Next == Program \/ User \/ Select \/ Render
Spec == Init /\ [][Next]_vars
-----------------------------------------------------------------------------
(* Shape *)

OptionOf(S) == {<<>>} \cup {<<x>> : x \in S}
HistOK(h) == \A i \in DOMAIN h :
  LET width == Cardinality(DOMAIN h[i].cells)
  IN  width > 0 /\ h[i] \in Line(width)
ScreenOK(s) ==
  /\ GridOK(s.grid)
  /\ s.row \in Nat /\ s.col \in Nat /\ s.top \in Nat /\ s.bot \in Nat
  /\ s.saved = <<>> \/ (/\ s.saved = <<s.saved[1]>>
                        /\ GridOK(s.saved[1].grid)
                        /\ s.saved[1].row \in Nat /\ s.saved[1].col \in Nat)
  /\ s.cap \in Nat /\ s.view \in Nat

(* The screen is well formed: every line has the width of its grid, every  *)
(* damage flag a row, also for the primary grid stashed by the alternate   *)
(* screen; the scrollback and the anchors are lists of what they should be.*)
TypeOK ==
  /\ ScreenOK(scr)
  /\ HistOK(scr.hist)
  /\ \A i \in DOMAIN scr.marks :
       scr.marks[i].line \in Nat /\ scr.marks[i].id \in Anchors
  /\ Len(scr.marks) <= MaxMarks
=============================================================================
