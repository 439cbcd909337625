------------------------------ MODULE MCImages ------------------------------
(***************************************************************************)
(* Instances of Images for TLC.                                            *)
(***************************************************************************)
EXTENDS ImagesProps, TLC

Scene(rows, cap, sizes, keys, ops) ==
  [rows |-> rows, cap |-> cap, sizes |-> sizes, keys |-> keys, ops |-> ops]

\* pictures of sizes that differ, over lines that scroll, leave and are cleared
LinesScenes == {Scene(2, 2, s, "repeat", {"sixel", "lines", "clear", "wheel", "paint"}) :
                  s \in {<<2, 1>>, <<1, 3>>}}

\* more pictures than the terminal keeps
LimitScenes == {Scene(3, 1, <<2, 1, 3>>, "repeat", {"sixel", "lines", "paint"})}

\* pictures sent in pieces that interleave, in a pane that is not in the window
PiecesScenes == {Scene(3, 2, <<2, 3>>, "repeat", {"kitty", "interrupt", "lines"}),
                 Scene(3, 1, <<2, 2, 1>>, "repeat", {"kitty", "interrupt"})}

\* one picture in a pane that is, shown again from the store
StoreScenes == {Scene(2, 1, <<2>>, "repeat", {"kitty", "lines", "wheel", "paint"})}

AllScenes == LinesScenes \cup LimitScenes \cup PiecesScenes \cup StoreScenes

\* continuation chunks resend just m and the payload
BareScenes == {Scene(2, 1, <<2>>, "first", {"kitty"})}

\* a program redraws a picture where it stands, in the same size
RedrawScenes == {Scene(2, 1, <<1, 1>>, "repeat", {"sixel", "redraw", "paint"})}

\* two pictures of one size, and lines that are evicted under them
EvictScenes == {Scene(2, 1, <<1, 1>>, "repeat", {"sixel", "lines", "paint"})}
=============================================================================
