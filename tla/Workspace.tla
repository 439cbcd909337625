------------------------------ MODULE Workspace ------------------------------
(***************************************************************************)
(* The window of the winit shell (app/src/window.rs): window tabs, each a  *)
(* split tree with a cell per leaf, each cell a stack of shells of which   *)
(* one is seen; the drag of a pane; and the workspace files that bring     *)
(* them back (core/src/layout_persist.rs).  A shell may exit at any time;  *)
(* about_to_wait notices.                                                  *)
(***************************************************************************)
EXTENDS SplitTree

CONSTANTS
  Shells,    \* names of shells; a free one is used again
  MaxTabs, MaxNested,    \* bounds: window tabs, shells of a cell
  Scenes     \* [ops, presets, window, files, faults, cwd], and the bounds of a
             \* scene: its shells, the ids and the weights of a tree

Absent == [kind |-> "absent"]
Files == {"default", "named"}
ASSUME WorkspaceAssumption ==
  /\ Shells \subseteq Nat /\ {MaxTabs, MaxNested} \subseteq Nat
  /\ \A s \in Scenes :
       /\ s.faults \in BOOLEAN /\ s.cwd \in BOOLEAN
       /\ s.shells \subseteq Shells /\ s.shells # {} /\ IsFiniteSet(s.shells)
       /\ s.window \in Rects /\ {s.ids, s.weight} \subseteq Nat
       /\ \A p \in s.presets :
            /\ p.axis \in Axis /\ p.counts \in Seq(Nat \ {0}) /\ p.counts # <<>>
            /\ Total(p.counts) <= MAX_PANES
       /\ s.files \in [Files -> {Absent, [kind |-> "corrupt"]}]

VARIABLES
  tabs,      \* the window tabs: [layout, cells]; a cell is [sessions, active]
  active,    \* the place of the one that is shown
  drag,      \* a pane picked up with the mouse
  dead,      \* shells that have exited and are still in a cell
  files,     \* the workspace files by name
  open,      \* the window exists
  scene

vars == <<tabs, active, drag, dead, files, open, scene>>

Idle == [state |-> "Idle", leaf |-> None]

Single(shell) == [sessions |-> <<shell>>, active |-> 1]
NewTab(shell) == [layout |-> SinglePane, cells |-> [id \in {0} |-> Single(shell)]]
WithCell(cells, id, c) ==
  [x \in DOMAIN cells \cup {id} |-> IF x = id THEN c ELSE cells[x]]
ShellsOf(t) == UNION {ToSet(t.cells[id].sessions) : id \in DOMAIN t.cells}
ShellsIn(all) == UNION {ShellsOf(all[i]) : i \in DOMAIN all}
Free == scene.shells \ ShellsIn(tabs)
Spawned(places, from) == CHOOSE f \in [places -> from] : IsInjective(f)

tab == tabs[active]
focused == tab.layout.focused
cell == tab.cells[focused]

Can(op) == open /\ tabs # <<>> /\ op \in scene.ops
Fails(set) == IF scene.faults THEN SUBSET set ELSE {{}}

\* the window becomes these tabs; shells no longer in it are gone
Window(new, at) ==
  /\ tabs' = new /\ active' = at /\ dead' = dead \cap ShellsIn(tabs')
  /\ UNCHANGED <<files, open, scene>>
ChangeTab(new) == Window([tabs EXCEPT ![active] = new], active) /\ UNCHANGED drag
Arrange(layout) == ChangeTab([tab EXCEPT !.layout = layout])
ChangeCell(new) == ChangeTab([tab EXCEPT !.cells[focused] = new])

-----------------------------------------------------------------------------
(* Panes.                                                                  *)

SplitNoRollback(axis, fails) ==                                   \* mutant
  LET layout == try_split(tab.layout, focused, axis)
  IN /\ Can("split") /\ tab.layout.next_id < scene.ids /\ Free # {}
     /\ ~at_capacity(tab.layout)
     /\ ChangeTab([layout |-> layout,
                   cells |-> IF fails THEN tab.cells
                             ELSE WithCell(tab.cells, layout.focused, Single(Spawned({1}, Free)[1]))])

\* the leaf is made first, and taken back when its shell does not start
split_active(axis, fails) ==
  LET layout == try_split(tab.layout, focused, axis)
      id == layout.focused
  IN /\ Can("split") /\ tab.layout.next_id < scene.ids /\ Free # {}
     /\ ~at_capacity(tab.layout)
     /\ IF fails THEN Arrange(remove(layout, id))
        ELSE ChangeTab([layout |-> layout,
                        cells |-> WithCell(tab.cells, id, Single(Spawned({1}, Free)[1]))])

focus_next_pane ==
  LET ids == leaves(tab.layout)
      at == CHOOSE i \in DOMAIN ids : ids[i] = focused
  IN Can("focus") /\ Arrange([tab.layout EXCEPT !.focused = ids[(at % Len(ids)) + 1]])

FocusDir(dir) == Can("arrows") /\ Arrange(focus_dir(tab.layout, dir, scene.window))
swap_dir(dir) == Can("swap") /\ Arrange(swap_focused(tab.layout, dir, scene.window))
ToggleZoom == Can("zoom") /\ Arrange(toggle_zoom(tab.layout))

resize_focused(dir) ==
  LET sign == IF dir \in {"Right", "Down"} THEN 1 ELSE -1
      extent == IF dir \in {"Left", "Right"} THEN scene.window.w ELSE scene.window.h
      layout == resize(tab.layout, focused, sign, extent)
  IN Can("resize") /\ Heaviest[layout.root] <= scene.weight /\ Arrange(layout)

Equalize == Can("resize") /\ Arrange(equalize(tab.layout))
auto_balance == Can("presets") /\ Arrange(rebalance_squarest(tab.layout))

\* leaves whose shell did not start
Without(layout, ids) ==
  LET order == leaves(layout)
      left[i \in 0 .. Len(order)] ==
        IF i = 0 THEN layout
        ELSE IF order[i] \in ids THEN remove(left[i - 1], order[i]) ELSE left[i - 1]
  IN left[Len(order)]

\* a preset keeps the shell that is seen in the focused cell; the others go
apply_preset(preset) ==
  LET layout == from_preset(preset.axis, preset.counts)
      n == Len(leaves(layout))
      first == cell.sessions[cell.active]
  IN /\ Can("presets") /\ Cardinality(Free) >= n - 1
     /\ \E failed \in Fails(1 .. n - 1) :
          ChangeTab([layout |-> Without(layout, failed),
                     cells |-> [id \in (0 .. n - 1) \ failed |->
                                  Single(IF id = 0 THEN first ELSE Spawned(1 .. n - 1, Free)[id])]])

-----------------------------------------------------------------------------
(* Nested tabs of a cell, and window tabs.                                 *)

spawn_cell_tab ==
  /\ Can("nested") /\ Free # {} /\ Len(cell.sessions) < MaxNested
  /\ ChangeCell([sessions |-> Append(cell.sessions, Spawned({1}, Free)[1]),
                 active |-> Len(cell.sessions) + 1])

Seeing(at) == [cell EXCEPT !.active = at]
next_cell_tab ==
  Can("nested") /\ ChangeCell(Seeing((cell.active % Len(cell.sessions)) + 1))
prev_cell_tab ==
  /\ Can("nested")
  /\ ChangeCell(Seeing(IF cell.active = 1 THEN Len(cell.sessions) ELSE cell.active - 1))

\* the session at a place goes, and the place stays as near as it can
CloseAt(c, i) ==
  LET rest == RemoveAt(c.sessions, i)
  IN [sessions |-> rest, active |-> Min({i, Max({1, Len(rest)})})]

spawn_tab ==
  /\ open /\ "tabs" \in scene.ops /\ Len(tabs) < MaxTabs /\ Free # {}
  /\ Window(Append(tabs, NewTab(Spawned({1}, Free)[1])), Len(tabs) + 1) /\ UNCHANGED drag

\* next_tab, prev_tab, select_tab_by_number and activate_tab between them
SwitchTab(i) == Can("tabs") /\ i \in DOMAIN tabs /\ Window(tabs, i) /\ UNCHANGED drag

Exit == open' = FALSE /\ tabs' = <<>> /\ dead' = {} /\ active' = 1 /\ drag' = Idle

\* the narrowest thing first: a nested tab, a pane, a window tab, the window
close_active_tab ==
  /\ Can("close")
  /\ CASE Len(cell.sessions) > 1 -> ChangeCell(CloseAt(cell, cell.active))
       [] Len(cell.sessions) = 1 /\ ~IsLeaf(tab.layout.root) ->
            ChangeTab([layout |-> remove(tab.layout, focused),
                       cells |-> Restrict(tab.cells, DOMAIN tab.cells \ {focused})])
       [] Len(cell.sessions) = 1 /\ IsLeaf(tab.layout.root) /\ Len(tabs) > 1 ->
            Window(RemoveAt(tabs, active), Min({active, Len(tabs) - 1})) /\ UNCHANGED drag
       [] OTHER -> Exit /\ UNCHANGED <<files, scene>>

-----------------------------------------------------------------------------
(* A pane is dragged (drag.rs).                                            *)

Seen == {c.id : c \in ToSet(cascade(tab.layout, scene.window))}

Press(leaf) ==
  /\ Can("drag") /\ leaf \in Seen
  /\ drag' = [state |-> "Pressed", leaf |-> leaf]
  /\ UNCHANGED <<tabs, active, dead, files, open, scene>>

cursor_moved ==
  /\ drag.state = "Pressed" /\ drag' = [drag EXCEPT !.state = "Dragging"]
  /\ UNCHANGED <<tabs, active, dead, files, open, scene>>

\* releasing the modifier keys
cancel ==
  /\ drag # Idle /\ drag' = Idle
  /\ UNCHANGED <<tabs, active, dead, files, open, scene>>

\* the pane under the cursor, if a pane is being dragged over another
drag_target(d, under) ==
  IF d.state = "Dragging" /\ under # d.leaf THEN under ELSE None

merge_into(t, source, target) ==
  IF ~{source, target} \subseteq DOMAIN t.cells THEN t
  ELSE LET into == t.cells[target].sessions \o t.cells[source].sessions
       IN [layout |-> [remove(t.layout, source) EXCEPT !.focused = target],
           cells |-> Restrict([t.cells EXCEPT ![target] = [sessions |-> into, active |-> Len(into)]],
                              DOMAIN t.cells \ {source})]

resolve_drop(t, source, d, under, zone) ==
  LET target == drag_target(d, under)
  IN IF target = None THEN t
     ELSE IF zone = "Center" THEN merge_into(t, source, target)
     ELSE [t EXCEPT !.layout =
             move_leaf(@, source, target,
                       IF zone \in {"Left", "Right"} THEN "Horizontal" ELSE "Vertical",
                       zone \in {"Left", "Top"})]

\* a press that is no drag yet stays if the program in the pane reports the
\* mouse and gets the release; else the gesture is reset, and then the drop is
\* resolved with what is left of it
Release(under, zone) ==
  /\ drag # Idle /\ tabs # <<>> /\ under \in Seen
  /\ drag' \in {Idle} \cup {d \in {drag} : d.state = "Pressed"}
  /\ IF drag.state = "Dragging"
     THEN Window([tabs EXCEPT ![active] = resolve_drop(@, drag.leaf, drag', under, zone)], active)
     ELSE UNCHANGED <<tabs, active, dead, files, open, scene>>

-----------------------------------------------------------------------------
(* Shells that exit on their own, and the tick that notices.               *)

ShellExits(shell) ==
  /\ open /\ shell \in ShellsIn(tabs) \ dead /\ "exits" \in scene.ops
  /\ dead' = dead \cup {shell} /\ UNCHANGED <<tabs, active, drag, files, open, scene>>

ReapSeenPlace(c) ==                                               \* mutant
  IF ToSet(c.sessions) \cap dead = {} THEN c ELSE CloseAt(c, c.active)
ReapSeenOnly(c) ==                                                \* mutant
  IF c.sessions[c.active] \in dead THEN CloseAt(c, c.active) ELSE c

\* a sequence without what is gone
Dropping(s, gone) ==
  LET left[i \in 0 .. Len(s)] ==
        IF i = 0 THEN <<>> ELSE IF s[i] \in gone THEN left[i - 1] ELSE Append(left[i - 1], s[i])
  IN left[Len(s)]
WithPanes(all) == Dropping(all, {t \in ToSet(all) : DOMAIN t.cells = {}})

\* each removal makes the dead shell's place the active one
ReapedCell(c) ==
  LET gone == {i \in DOMAIN c.sessions : c.sessions[i] \in dead}
      rest == Dropping(c.sessions, dead)
      last == Cardinality(1 .. Max(gone) \ gone) + 1
  IN IF gone = {} THEN c
     ELSE [sessions |-> rest, active |-> Min({last, Max({1, Len(rest)})})]

ReapedTab(t) ==
  LET reaped == [id \in DOMAIN t.cells |-> ReapedCell(t.cells[id])]
      emptied == {id \in DOMAIN reaped : reaped[id].sessions = <<>>}
  IN [layout |-> Without(t.layout, emptied), cells |-> Restrict(reaped, DOMAIN reaped \ emptied)]

NeedsReaping == open /\ (dead # {} \/ tabs = <<>>)
reap_dead_panes ==
  /\ NeedsReaping
  /\ tabs' = WithPanes([i \in DOMAIN tabs |-> ReapedTab(tabs[i])])
  /\ active' = Max({1, Min({active, Len(tabs')})}) /\ dead' = dead \cap ShellsIn(tabs')
  /\ open' = (tabs' # <<>>) /\ drag' = (IF open' THEN drag ELSE Idle)
  /\ UNCHANGED <<files, scene>>

-----------------------------------------------------------------------------
(* The workspace files.  A file of one tab is what "Save Layout As" writes *)
(* (version 1), a file of all tabs what closing the window does (2).       *)

CaptureId(layout) ==                                              \* mutant
  LET ids == leaves(layout)
  IN [root |-> Renamed(layout.root, [id \in ToSet(ids) |-> (CHOOSE i \in DOMAIN ids : ids[i] = id) - 1]),
      focused |-> Min({layout.focused, Len(ids) - 1})]

\* panes are numbered in the order they are met; zoom is not kept
Capture(layout) ==
  LET ids == leaves(layout)
      place(id) == CHOOSE i \in DOMAIN ids : ids[i] = id
  IN [root |-> Renamed(layout.root, [id \in ToSet(ids) |-> place(id) - 1]),
      focused |-> place(layout.focused) - 1]

RestoredLayout(snapshot) ==
  Layout(snapshot.root, snapshot.focused, Len(collect_leaves[snapshot.root]))

capture_workspace ==
  [kind |-> "all", active |-> active,
   tabs |-> IF tabs = <<>> THEN <<Capture(SinglePane)>>
            ELSE [i \in DOMAIN tabs |-> Capture(tabs[i].layout)]]

\* a tab of a layout, with a fresh shell for each pane; the failed ones go
Panes(layout) == ToSet(leaves(layout))
build_tab(layout, shells, failed) ==
  [layout |-> Without(layout, failed),
   cells |-> [id \in Panes(layout) \ failed |-> Single(shells[id])]]

save_workspace(name) ==
  /\ Can("files") /\ name \in DOMAIN files
  /\ files' = [files EXCEPT ![name] = [kind |-> "one", tabs |-> <<Capture(tab.layout)>>, active |-> 1]]
  /\ UNCHANGED <<tabs, active, drag, dead, open, scene>>

\* a file that is not of one tab gives a single pane
restore_workspace(name) ==
  LET file == files[name]
      layout == IF file.kind = "one" THEN RestoredLayout(file.tabs[1]) ELSE SinglePane
      n == Len(leaves(layout))
  IN /\ Can("files") /\ name \in DOMAIN files /\ file # Absent /\ Cardinality(Free) >= n
     /\ \E failed \in Fails(Panes(layout)) :
          /\ failed # Panes(layout)
          /\ ChangeTab(build_tab(layout, Spawned(Panes(layout), Free), failed))

\* the close button of the window manager; the write may fail
CloseRequested ==
  /\ open /\ "files" \in scene.ops
  /\ \E written \in (IF scene.faults THEN BOOLEAN ELSE {TRUE}) :
       files' = IF written THEN [files EXCEPT !["default"] = capture_workspace] ELSE files
  /\ Exit /\ UNCHANGED scene

\* the close button of the title bar, and Quit
Quit == open /\ "files" \in scene.ops /\ Exit /\ UNCHANGED <<files, scene>>

interesting(file) ==
  /\ file.kind \in {"one", "all"}
  /\ \/ Len(file.tabs) > 1 \/ scene.cwd
     \/ \E i \in DOMAIN file.tabs : Len(collect_leaves[file.tabs[i].root]) > 1

PanesOf(file) ==
  UNION {{i} \X Panes(RestoredLayout(file.tabs[i])) : i \in DOMAIN file.tabs}

materialize_workspace(file, failed) ==
  LET layout(i) == RestoredLayout(file.tabs[i])
      shells == Spawned(PanesOf(file), scene.shells)
      built(i) == build_tab(layout(i), [id \in Panes(layout(i)) |-> shells[<<i, id>>]],
                            {id \in Panes(layout(i)) : <<i, id>> \in failed})
  IN WithPanes([i \in DOMAIN file.tabs |-> built(i)])

\* resumed: a tab of one shell, which the saved workspace then replaces
Launch ==
  /\ ~open /\ open' = TRUE
  /\ \E spawned \in (IF scene.faults THEN BOOLEAN ELSE {TRUE}) :
       LET file == files["default"]
           first == IF spawned THEN <<NewTab(Spawned({1}, scene.shells)[1])>> ELSE <<>>
       IN \/ /\ interesting(file) /\ Cardinality(PanesOf(file)) <= Cardinality(scene.shells)
             /\ \E failed \in Fails(PanesOf(file)) :
                  LET new == materialize_workspace(file, failed)
                  IN /\ tabs' = IF new = <<>> THEN first ELSE new
                     /\ active' = IF new = <<>> THEN 1 ELSE Min({file.active, Len(new)})
             /\ UNCHANGED files
          \/ /\ file.kind # "corrupt" /\ ~interesting(file)
             /\ tabs' = first /\ active' = 1 /\ UNCHANGED files
          \/ /\ file.kind = "corrupt" /\ tabs' = first /\ active' = 1
             /\ \E aside \in (IF scene.faults THEN BOOLEAN ELSE {TRUE}) :
                  files' = IF aside THEN [files EXCEPT !["default"] = Absent] ELSE files
  /\ UNCHANGED <<drag, dead, scene>>

-----------------------------------------------------------------------------
Init ==
  /\ scene \in Scenes /\ files = scene.files
  /\ tabs = <<>> /\ active = 1 /\ drag = Idle /\ dead = {} /\ open = FALSE

Directions == {"Left", "Right", "Up", "Down"}
Zones == {"Center", "Left", "Right", "Top", "Bottom"}

Next ==
  \/ Launch \/ reap_dead_panes \/ CloseRequested \/ Quit
  \/ \E axis \in {"Horizontal", "Vertical"}, fails \in {{}, {"spawn"}} :
       fails \in Fails({"spawn"}) /\ split_active(axis, fails # {})
  \/ \E dir \in Directions : FocusDir(dir) \/ swap_dir(dir) \/ resize_focused(dir)
  \/ focus_next_pane \/ ToggleZoom \/ Equalize \/ auto_balance
  \/ \E preset \in scene.presets : apply_preset(preset)
  \/ spawn_cell_tab \/ next_cell_tab \/ prev_cell_tab \/ spawn_tab \/ close_active_tab
  \/ \E i \in 1 .. MaxTabs : SwitchTab(i)
  \/ \E leaf \in 0 .. scene.ids : Press(leaf)
  \/ cursor_moved \/ cancel
  \/ \E under \in 0 .. scene.ids, zone \in Zones : Release(under, zone)
  \/ \E shell \in scene.shells : ShellExits(shell)
  \/ \E name \in Files : save_workspace(name) \/ restore_workspace(name)

Spec == Init /\ [][Next]_vars
\* the event loop always comes back to about_to_wait: weak fairness of the
\* reaping, with the condition that enables it written out
FairSpec == Spec /\ ([]<>~NeedsReaping \/ []<><<reap_dead_panes>>_vars)
=============================================================================
