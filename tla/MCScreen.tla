------------------------------ MODULE MCScreen ------------------------------
(***************************************************************************)
(* Instances of Screen for TLC: panes of one letter or two, and scenes of  *)
(* the operations that one question is about.                              *)
(***************************************************************************)
EXTENDS ReflowProps
CONSTANTS letter, other, wide     \* two narrow glyphs and a wide one
LOCAL INSTANCE TLC

AnchorSymmetry == Permutations(Anchors)

Dim(r, c) == [rows |-> r, cols |-> c]
Pane21 == Dim(2, 1)
Pane22 == Dim(2, 2)
Pane31 == Dim(3, 1)
TwoHeights == {Pane22, Dim(3, 2)}

\* A pane that is not resized and whose cap is not changed
Fixed(glyphs, params, pane, cap, shell, tui, ui) ==
  [glyphs |-> glyphs, params |-> params, size0 |-> pane, sizes |-> {pane},
   cap0 |-> cap, caps |-> {cap}, shell |-> shell, tui |-> tui, ui |-> ui]

-----------------------------------------------------------------------------
\* the scrollback under marks, with a cap that the settings change
MarkScene ==
  [Fixed({letter}, {1, 2}, Pane31, 2,
         {"LF", "VPA", "ED", "mark", "altOn", "ED3", "RIS"},
         {"LF", "altOff", "ED3"},
         {"wheelUp", "jump", "clear", "cap"}) EXCEPT !.caps = {1, 2}]

\* what the mouse selects in a window that is scrolled back
SelectScene ==
  Fixed({letter}, {1, 2}, Pane31, 3,
        {"LF", "VPA", "altOn", "ED3"}, {"LF", "altOff"},
        {"wheelUp", "wheelDown", "top", "select"})

-----------------------------------------------------------------------------
\* what the renderer sees of the view and of the two screens
DrawScene ==
  Fixed({letter}, {1}, Pane21, 1,
        {"print", "LF", "VPA", "altOn", "ED3", "DECSCNM"},
        {"print", "LF", "ED", "altOff", "RIS"},
        {"render", "wheelUp", "wheelDown", "bottom", "clear"})

\* what the renderer sees of the editing of one screen
EditScene ==
  Fixed({wide}, {0, 1, 2}, Pane22, 0,
        {"print", "CUP", "RI", "DECSTBM", "IL", "DL", "SU", "SD", "ICH", "DCH",
         "ECH", "EL", "ED", "IRM"}, {}, {"render"})

\* the cursor and the margins, while the window changes its height
LineScene ==
  [Fixed({letter}, {0, 1, 2}, Pane22, 0,
         {"LF", "NEL", "RI", "CUP", "VPA", "CUU", "CUD", "CNL", "CPL",
          "DECSC", "DECRC", "DECSTBM", "SU", "DECOM", "DECSTR"}, {},
         {"resize"}) EXCEPT !.sizes = {Dim(r, 2) : r \in 1 .. 3}]

\* the columns and the tab stops, while the window changes its width
TabScene ==
  [Fixed({letter}, {1, 2}, Dim(1, 3), 1,
         {"print", "REP", "CR", "BS", "CHA", "CUF", "CUB", "HT", "CBT", "HTS",
          "TBC", "DECAWM", "RIS"}, {},
         {"resize"}) EXCEPT !.sizes = {Dim(1, c) : c \in 1 .. 3}]

-----------------------------------------------------------------------------
\* the width changes under text that a shell or a line editor has written
WidthScene(glyphs, shell) ==
  [Fixed(glyphs, {}, Dim(2, 3), 2, shell, {}, {"resize"}) EXCEPT
     !.sizes = {Pane22, Dim(1, 3)}]

EditorScene == WidthScene({letter}, {"print", "LF", "CR"})
OrderScene == [WidthScene({letter, other}, {"print", "LF"}) EXCEPT
                 !.size0 = Dim(1, 3), !.sizes = {Dim(1, 2), Dim(1, 3)}]

AllScenes == {MarkScene, SelectScene, DrawScene, EditScene, LineScene, TabScene,
              EditorScene, OrderScene}

-----------------------------------------------------------------------------
\* a resize while a full-screen program is shown
AltScene == [Fixed({letter}, {1}, Pane22, 1, {"altOn"}, {"altOff"}, {"resize"})
               EXCEPT !.sizes = TwoHeights]
AltScenes == {AltScene}

\* the window is made narrower, and no lower, while the cursor is in front of
\* the end of the line, where a line editor leaves it
ReturnScene == [Fixed({letter}, {}, Dim(2, 3), 4, {"print", "CR"}, {}, {"resize"})
                  EXCEPT !.sizes = {Dim(2, 3), Dim(2, 1)}]
ReturnScenes == {ReturnScene}

\* the window is made narrower below a prompt
PromptScene == [Fixed({letter}, {1}, Dim(2, 3), 2, {"print", "CR", "LF", "mark"}, {},
                      {"resize"}) EXCEPT !.sizes = {Pane22, Dim(2, 3)}]
PromptScenes == {PromptScene}
=============================================================================
