---------------------------- MODULE MCWorkspace ----------------------------
(* Instances of the winit window for TLC.                                  *)
EXTENDS WorkspaceProps

CONSTANTS SceneNames

MCWindow == Rect(0, 0, 240, 160)
NoFiles == [default |-> Absent, named |-> Absent]
Columns == [axis |-> "Horizontal", counts |-> <<1, 2>>]
Square == [axis |-> "Vertical", counts |-> <<2, 2>>]

MCScene(ops, presets, files0, faults, shells, ids) ==
  [ops |-> ops, presets |-> presets, window |-> MCWindow, files |-> files0,
   faults |-> faults, cwd |-> FALSE, shells |-> 1 .. shells, ids |-> ids, weight |-> 20]

AllScenes ==
  [resize  |-> MCScene({"split", "focus", "resize"}, {}, NoFiles, FALSE, 3, 3),
   swap    |-> MCScene({"split", "swap"}, {}, NoFiles, FALSE, 5, 5),
   shells  |-> MCScene({"split", "nested", "tabs", "close", "exits"}, {}, NoFiles, TRUE, 3, 3),
   presets |-> MCScene({"presets", "arrows", "zoom", "close"}, {Columns, Square}, NoFiles, TRUE, 4, 4),
   files   |-> MCScene({"split", "tabs", "files"}, {}, NoFiles, FALSE, 3, 3),
   faults  |-> MCScene({"split", "tabs", "files", "close"}, {}, NoFiles, TRUE, 2, 3),
   corrupt |-> [MCScene({"files", "split"}, {}, [NoFiles EXCEPT !["default"] = [kind |-> "corrupt"]], TRUE, 2, 2)
                EXCEPT !.cwd = TRUE],
   drag    |-> MCScene({"split", "drag", "exits", "close"}, {}, NoFiles, FALSE, 3, 3)]

MCScenes == {AllScenes[n] : n \in SceneNames}
=============================================================================
