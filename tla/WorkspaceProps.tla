--------------------------- MODULE WorkspaceProps ---------------------------
(* What the window of the winit shell and its split tree promise.          *)
EXTENDS Workspace

\* A pane is a leaf with a stack of shells, and the tree, the map of cells,
\* focus, zoom and the counter of ids say the same of it, whatever was split,
\* closed, reaped, restored or failed to start; no shell is in two panes.
PanesAndShellsAgree ==
  /\ \A i \in DOMAIN tabs :
       LET l == tabs[i].layout
           ids == leaves(l)
       IN /\ IsInjective(ids) /\ Len(ids) <= MAX_PANES
          /\ DOMAIN tabs[i].cells = ToSet(ids)
          /\ l.focused \in ToSet(ids) /\ l.zoomed \in ToSet(ids) \cup {None}
          /\ \A id \in ToSet(ids) :
               /\ id < l.next_id
               /\ tabs[i].cells[id].active \in DOMAIN tabs[i].cells[id].sessions
               /\ IsInjective(tabs[i].cells[id].sessions)
          /\ \A a, b \in ToSet(ids) :
               a # b => ToSet(tabs[i].cells[a].sessions) \cap ToSet(tabs[i].cells[b].sessions) = {}
  /\ \A i, j \in DOMAIN tabs : i # j => ShellsOf(tabs[i]) \cap ShellsOf(tabs[j]) = {}
  /\ dead \subseteq ShellsIn(tabs)
  /\ tabs # <<>> => active \in DOMAIN tabs

Unzoomed(l) == [l EXCEPT !.zoomed = None]

Reached(cells, from) ==
  LET reached[n \in 0 .. Len(cells)] ==
        IF n = 0 THEN {from}
        ELSE LET before == reached[n - 1]
             IN before \cup
                ({NearestTo(cells, id, dir) : id \in before, dir \in Directions} \ {None})
  IN reached[Len(cells)]

\* Every pane can be focused with the arrows alone (nav.rs, neighbor).
ArrowsReachEveryPane ==
  \A i \in DOMAIN tabs :
    Reached(cascade(Unzoomed(tabs[i].layout), scene.window), tabs[i].layout.focused)
      = ToSet(leaves(tabs[i].layout))

AreBeside(one, two, axis) ==
  IF axis = "Horizontal"
  THEN two.x = one.x + one.w + GUTTER /\ two.y = one.y /\ two.h = one.h
  ELSE two.y = one.y + one.h + GUTTER /\ two.x = one.x /\ two.w = one.w
IsMoved(l, source, target, axis, before, cells) ==
  /\ {cells[i].id : i \in DOMAIN cells} = ToSet(leaves(l)) /\ Len(cells) = Len(leaves(l))
  /\ IF before THEN AreBeside(RectOf(cells, source), RectOf(cells, target), axis)
     ELSE AreBeside(RectOf(cells, target), RectOf(cells, source), axis)

\* move_leaf (ops.rs) puts a pane beside another, on the side asked for and under
\* its own id, and no other pane is lost or renamed, in every tree of the window.
MovedPaneIsBeside ==
  \A i \in DOMAIN tabs :
    LET l == Unzoomed(tabs[i].layout)
    IN \A source, target \in ToSet(leaves(l)), axis \in {"Horizontal", "Vertical"}, before \in BOOLEAN :
         source # target =>
           IsMoved(l, source, target, axis, before,
                   cascade(move_leaf(l, source, target, axis, before), scene.window))

LooksLike(was, focus, is, newFocus) ==
  /\ Len(was) = Len(is)
  /\ \A k \in DOMAIN was :
       was[k].rect = is[k].rect /\ (was[k].id = focus <=> is[k].id = newFocus)
Shown(t) == cascade(Unzoomed(t.layout), scene.window)
AllLookLike(was, is) ==
  /\ Len(was) = Len(is)
  /\ \A i \in DOMAIN was :
       LooksLike(Shown(was[i]), was[i].layout.focused, Shown(is[i]), is[i].layout.focused)

\* What closing the window would save now is what the next launch shows: as many
\* tabs, the panes at the same places with the same one focused
\* (capture_workspace, restore_all, materialize_workspace).
SavedIsSeen ==
  tabs # <<>> => AllLookLike(tabs, materialize_workspace(capture_workspace, {}))

\* A shell that runs is given up only where the user asks for it: one by a close,
\* those of one tab, but the one that is seen, by a preset, those of one tab by a
\* restore, all by leaving.  Nothing else loses one: not the exit of other shells,
\* not a split whose shell fails to start, not a drop or a swap.
ShellsKept ==
  [][LET lost == (ShellsIn(tabs) \ dead) \ ShellsIn(tabs')
     IN \/ lost = {}
        \/ /\ close_active_tab
           /\ lost = {cell.sessions[cell.active]}
        \/ /\ \E p \in scene.presets : apply_preset(p)
           /\ lost \subseteq ShellsOf(tab) \ {cell.sessions[cell.active]}
        \/ /\ \E name \in DOMAIN files : restore_workspace(name)
           /\ lost \subseteq ShellsOf(tab)
        \/ CloseRequested \/ Quit]_vars

\* A shell that has exited does not stay in the window, and a window without
\* shells, which a failed start leaves too, does not stay open (about_to_wait,
\* reap_dead_panes).
DeadShellsLeave ==
  /\ \A s \in Shells : s \in dead ~> s \notin dead
  /\ (open /\ tabs = <<>>) ~> (~open \/ tabs # <<>>)
=============================================================================
