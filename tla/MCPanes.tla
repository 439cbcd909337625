------------------------------ MODULE MCPanes ------------------------------
(***************************************************************************)
(* Instances of Panes for TLC.                                             *)
(***************************************************************************)
EXTENDS PanesProps

Blob(ps, f, pins, dirs, n) ==
  [panes |-> ps, focus |-> f, pinned |-> pins, cwds |-> dirs, next |-> n]

\* nothing saved; what a run of the program saves; and what it never does: a
\* focus and a counter that do not fit, more panes than the cap
NoBlob == Blob({}, 0, {}, {}, 0)
SomeBlobs ==
  {NoBlob, Blob({0, 2}, 2, {0}, {0, 2}, 3), Blob({0, 1}, 3, {3}, {1, 3}, 1),
   Blob(0 .. MAX_PANES, 0, {}, {}, 0)}

NoBlobs == {NoBlob}

AllScenes ==
  {{"split", "close", "arrow", "type", "view"},
   {"split", "close", "zoom", "type", "palette", "click"},
   {"close", "restart", "click", "view"},
   {"close", "paste", "pin", "select", "zoom"}}
=============================================================================
