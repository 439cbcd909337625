-------------------------------- MODULE Panes --------------------------------
(***************************************************************************)
(* The panes of the window: which exist, which have a terminal, which one  *)
(* has the keyboard and which are drawn (egui_app/mod.rs, grid.rs), and    *)
(* the layout that is saved and restored (layout_state.rs).                *)
(*                                                                         *)
(* One frame_tick is a run through places 1 to 11, in the order of the     *)
(* code: what the user may do is an action that can be passed over, what   *)
(* every frame does (Reconcile, Input, Draw, EndFrame) is not.  A frame    *)
(* sees any number of keys and at most one gesture of the pointer.         *)
(*                                                                         *)
(* The shape of the tiling tree and the order of the panes in it are left  *)
(* out: the user drags panes about at will, and no property looks at them. *)
(* "The first pane" is therefore any.  A pane that can be absent (zoomed,  *)
(* selected in) is a set of at most one.                                   *)
(***************************************************************************)
EXTENDS Naturals, FiniteSets

CONSTANTS
  MAX_PANES,  \* the cap on panes
  MaxId,      \* bound: no more than this many pane ids are handed out
  Blobs,      \* what the storage may hold at the first start
  Scenes      \* what the user does

IsLayout(s) ==
  /\ s = [panes |-> s.panes, focus |-> s.focus, pinned |-> s.pinned,
          cwds |-> s.cwds, next |-> s.next]
  /\ s.panes \subseteq Nat /\ IsFiniteSet(s.panes)
  /\ s.next \in Nat

ASSUME CapAssumption == MAX_PANES \in Nat \ {0}
ASSUME BlobsAssumption == \A s \in Blobs : IsLayout(s)

VARIABLES
  scene,     \* the operations the user makes use of
  panes,     \* the panes of the tree
  terms,     \* the panes that have a terminal
  pending,   \* pending_spawn: get one when first drawn
  cwds,      \* restored_cwds: will be spawned in their saved directory
  reported,  \* whose shell has reported its directory (OSC 7)
  pinned, focus, zoom, view, selection,
  input_line,     \* the panes the text of the typed line was meant for
  pending_paste, palette_open, search_open,
  next,      \* the next pane id
  drawn,     \* pane_rects: the panes the last frame drew
  at,        \* the place in the frame, 0 between frames
  disk,      \* the saved layout
  moved, keyed \* history: the focus has moved in this frame; the panes that
               \* this frame has written input to

frame == <<at, drawn, moved, keyed>>
tree  == <<panes, terms, pending, cwds, reported, pinned>>
modal == <<pending_paste, palette_open, search_open>>
vars  == <<scene, tree, focus, zoom, view, selection, input_line, modal, next, frame, disk>>

May(op) == op \in scene

-----------------------------------------------------------------------------
(* Starting, saving, ending.                                               *)

snapshot_is_restorable(ps) == Cardinality(ps) \in 1 .. MAX_PANES

restored_focus(ps, saved) == IF saved \in ps THEN {saved} ELSE ps

\* the greatest of the saved counter and the successors of the panes
restored_next_id(ps, saved) ==
  {n \in {saved} \cup {p + 1 : p \in ps} : saved <= n /\ \A p \in ps : p < n}

bootstrap_with ==
  [panes |-> {0}, focus |-> 0, pinned |-> {}, cwds |-> {}, next |-> 1]

\* what apply_layout_snapshot makes of a saved layout, over the default one
apply_layout_snapshot(s) ==
  IF snapshot_is_restorable(s.panes)
  THEN {[panes |-> s.panes, focus |-> f, pinned |-> s.pinned \cap s.panes,
         cwds |-> s.cwds \cap s.panes, next |-> n] :
          f \in restored_focus(s.panes, s.focus), n \in restored_next_id(s.panes, s.next)}
  ELSE {bootstrap_with}

Init ==
  /\ scene \in Scenes
  /\ disk \in Blobs
  /\ \E s \in apply_layout_snapshot(disk) :
       /\ panes = s.panes /\ pending = s.panes /\ focus = s.focus
       /\ pinned = s.pinned /\ cwds = s.cwds /\ next = s.next
  /\ terms = {} /\ reported = {} /\ zoom = {} /\ selection = {} /\ input_line = {}
  /\ pending_paste = FALSE /\ palette_open = FALSE /\ search_open = FALSE
  /\ at = 0 /\ drawn = {} /\ moved = FALSE /\ keyed = {} /\ view = "Grid"

\* The process ends, by the caption button, by the system or by a crash, and
\* is started again; the view mode is in the configuration, saved when changed.
Restart ==
  /\ May("restart")
  /\ \E s \in apply_layout_snapshot(disk) :
       /\ panes' = s.panes /\ pending' = s.panes /\ focus' = s.focus
       /\ pinned' = s.pinned /\ cwds' = s.cwds /\ next' = s.next
  /\ terms' = {} /\ reported' = {} /\ zoom' = {} /\ selection' = {} /\ input_line' = {}
  /\ pending_paste' = FALSE /\ palette_open' = FALSE /\ search_open' = FALSE
  /\ at' = 0 /\ drawn' = {} /\ moved' = FALSE /\ keyed' = {}
  /\ UNCHANGED <<scene, view, disk>>

capture_layout ==
  [panes |-> panes, focus |-> focus, pinned |-> pinned,
   cwds |-> reported \cap terms, next |-> next]

\* eframe calls save between frames, now and then
save ==
  /\ May("restart") /\ at = 0
  /\ disk' = capture_layout
  /\ UNCHANGED <<scene, tree, focus, zoom, view, selection, input_line, modal, next, frame>>

\* a shell tells its directory: OSC 7 (external)
Reports ==
  /\ May("restart") /\ at = 0
  /\ \E p \in terms : reported' = reported \cup {p}
  /\ UNCHANGED <<scene, panes, terms, pending, cwds, pinned, focus, zoom, view, selection,
                 input_line, modal, next, frame, disk>>

-----------------------------------------------------------------------------
(* The first half of a frame: keys.                                        *)

\* the chord at this place is pressed
Chord(place) ==
  /\ at \in 1 .. place - 1
  /\ at' = place
  /\ UNCHANGED <<scene, drawn, keyed, disk>>

\* ... and has moved the focus
Moves == moved' = (moved \/ focus' # focus)

\* the pointer does something, once every pane is drawn
Gesture ==
  /\ at = 10
  /\ at' = 11
  /\ UNCHANGED <<scene, drawn, keyed, disk>>

ReconcileNothing ==                                               \* mutant
  /\ at = 0
  /\ at' = 1 /\ moved' = FALSE
  /\ UNCHANGED <<scene, tree, focus, zoom, view, selection, input_line, modal, next,
                 drawn, keyed, disk>>

\* a zoom on another pane than the one with the keyboard is dropped
Reconcile ==
  /\ at = 0
  /\ at' = 1 /\ moved' = FALSE
  /\ zoom' = zoom \cap {focus}
  /\ UNCHANGED <<scene, tree, focus, view, selection, input_line, modal, next,
                 drawn, keyed, disk>>

\* opening the palette forgets the line that is being typed
toggle_palette ==
  /\ May("palette") /\ Chord(2)
  /\ palette_open' = ~palette_open
  /\ input_line' = IF palette_open' THEN {} ELSE input_line
  /\ UNCHANGED <<tree, focus, zoom, view, selection, pending_paste, search_open, next>>
  /\ Moves

toggle_search ==
  /\ May("palette") /\ Chord(3)
  /\ search_open' = ~search_open
  /\ UNCHANGED <<tree, focus, zoom, view, selection, input_line, pending_paste,
                 palette_open, next>>
  /\ Moves

\* Split, new terminal and new terminal of a profile: by three chords, from the
\* menu of a pane, from the title bar.  At the cap nothing comes of it, and
\* beside a pane that is gone nothing but a lost id.
split ==
  /\ May("split") /\ next < MaxId
  /\ Chord(4) \/ Chord(5) \/ Chord(6) \/ Gesture
  /\ IF Cardinality(panes) >= MAX_PANES THEN UNCHANGED <<panes, terms, focus, next>>
     ELSE /\ next' = next + 1
          /\ IF focus \notin panes THEN UNCHANGED <<panes, terms, focus>>
             ELSE /\ panes' = panes \cup {next}
                  /\ terms' = terms \cup {next}
                  /\ focus' = next
  /\ UNCHANGED <<pending, cwds, reported, pinned, zoom, view, selection, input_line, modal>>
  /\ Moves

CloseKeepsTerm(p) ==                                              \* mutant
  IF Cardinality(panes) <= 1 \/ p \notin panes
  THEN UNCHANGED <<tree, focus, zoom, selection>>
  ELSE /\ panes' = panes \ {p}
       /\ pinned' = pinned \ {p} /\ zoom' = zoom \ {p} /\ selection' = {}
       /\ focus' \in IF focus \in panes' THEN {focus} ELSE panes'
       /\ UNCHANGED <<terms, pending, cwds, reported>>

CloseKeepsFocus(p) ==                                             \* mutant
  IF Cardinality(panes) <= 1 \/ p \notin panes
  THEN UNCHANGED <<tree, focus, zoom, selection>>
  ELSE /\ panes' = panes \ {p}
       /\ terms' = terms \ {p} /\ reported' = reported \ {p}
       /\ pinned' = pinned \ {p} /\ zoom' = zoom \ {p} /\ selection' = {}
       /\ UNCHANGED <<pending, cwds, focus>>

\* The last pane stays.  The terminal goes with its pane; a pane that was never
\* drawn stays pending, and keeps its directory.
close_pane(p) ==
  IF Cardinality(panes) <= 1 \/ p \notin panes
  THEN UNCHANGED <<tree, focus, zoom, selection>>
  ELSE /\ panes' = panes \ {p}
       /\ terms' = terms \ {p} /\ reported' = reported \ {p}
       /\ pinned' = pinned \ {p} /\ zoom' = zoom \ {p} /\ selection' = {}
       /\ focus' \in IF focus \in panes' THEN {focus} ELSE panes'
       /\ UNCHANGED <<pending, cwds>>

\* the focused pane by a chord, a drawn one by its menu, any by its tab
Close ==
  /\ May("close")
  /\ \/ Chord(7) /\ close_pane(focus)
     \/ Gesture /\ \E p \in panes : close_pane(p)
  /\ UNCHANGED <<view, input_line, modal, next>>
  /\ Moves

toggle_zoom_pane ==
  /\ May("zoom") /\ Chord(8)
  /\ zoom' = IF zoom # {} THEN {} ELSE {focus}
  /\ UNCHANGED <<tree, focus, view, selection, input_line, modal, next>>
  /\ Moves

-----------------------------------------------------------------------------
(* Input: every frame, unless an overlay takes the keys.                   *)

\* what is written to a pane without a terminal is lost
Written(p) == {p} \cap terms

\* the panes an arrow can move to: those beside it when it was last drawn
neighbor_in_rects(p) == IF p \in drawn THEN drawn \ {p} ELSE {}

\* keys first, then the arrow, then the paste, which may have to wait; the
\* typed line is kept, also for a pane that cannot be typed into
forward_input_to_focused ==
  \E typed \in {"nothing", "text", "line"}, paste \in {"none", "now", "ask"} :
  \E f \in {focus} \cup {p \in neighbor_in_rects(focus) : May("arrow")} :
    LET kept == IF f = focus THEN input_line ELSE {} IN
    /\ typed # "nothing" => May("type")
    /\ paste # "none" => May("paste")
    /\ focus' = f
    /\ pending_paste' = (paste = "ask")
    /\ keyed' = (IF typed # "nothing" THEN Written(focus) ELSE {})
                \cup (IF paste = "now" THEN Written(f) ELSE {})
    /\ input_line' = CASE typed = "text" -> kept \cup {focus}
                       [] typed = "line" -> {}
                       [] OTHER -> kept
    /\ UNCHANGED <<palette_open, search_open>>

\* nothing, Esc, or Enter on a command that is run in the focused pane
PaletteKeys ==
  /\ \/ UNCHANGED palette_open /\ keyed' = {}
     \/ palette_open' = FALSE /\ keyed' \in {{}, Written(focus)}
  /\ UNCHANGED <<focus, input_line, pending_paste, search_open>>

SearchKeys ==
  /\ search_open' \in BOOLEAN
  /\ keyed' = {}
  /\ UNCHANGED <<focus, input_line, pending_paste, palette_open>>

Input ==
  /\ at \in 1 .. 8
  /\ at' = 9
  /\ IF pending_paste THEN keyed' = {} /\ UNCHANGED <<focus, input_line, modal>>
     ELSE IF palette_open THEN PaletteKeys
     ELSE IF search_open THEN SearchKeys
     ELSE forward_input_to_focused
  /\ UNCHANGED <<scene, tree, zoom, view, selection, next, drawn, disk>>
  /\ Moves

-----------------------------------------------------------------------------
(* The second half: drawing, and the pointer.                              *)

\* what is drawn: the zoomed pane; the focused one; or all
Shown ==
  IF zoom \cap panes # {} THEN {zoom}
  ELSE IF view = "Grid" THEN {panes}
  ELSE IF focus \in panes THEN {{focus}} ELSE {{p} : p \in panes}

\* grid_ui up to the end of the drawing: a pending pane that is drawn gets its
\* terminal; a press of the button begins a selection; before, the sidebar with
\* the history of commands may run one in the focused pane
Draw ==
  /\ at = 9
  /\ at' = 10
  /\ \E shown \in Shown :
       /\ drawn' = shown
       /\ terms' = terms \cup (pending \cap shown)
       /\ pending' = pending \ shown
       /\ cwds' = cwds \ (pending \cap shown)
       /\ selection' \in {selection} \cup {sel \in {{}} \cup {{p} : p \in shown} : May("select")}
  /\ \/ UNCHANGED keyed
     \/ May("palette") /\ keyed' = keyed \cup Written(focus)
  /\ UNCHANGED <<scene, panes, reported, pinned, focus, zoom, view, input_line, modal, next,
                 moved, disk>>

\* a click on a pane, or on its tab
Focus ==
  /\ May("click") /\ Gesture
  /\ focus' \in panes
  /\ input_line' = IF focus' # focus THEN {} ELSE input_line
  /\ UNCHANGED <<tree, zoom, view, selection, modal, next>>
  /\ Moves

pin_tab ==
  /\ May("pin") /\ Gesture
  /\ \E p \in panes : pinned' = (pinned \ {p}) \cup ({p} \ pinned)
  /\ UNCHANGED <<panes, terms, pending, cwds, reported, focus, zoom, view, selection,
                 input_line, modal, next>>
  /\ Moves

toggle_view_mode ==
  /\ May("view") /\ Gesture
  /\ view' = IF view = "Grid" THEN "Tabs" ELSE "Grid"
  /\ UNCHANGED <<tree, focus, zoom, selection, input_line, modal, next>>
  /\ Moves

\* the overlay of a paste that waits is drawn last: Enter sends it to the
\* focused pane, Esc forgets it
EndFrame ==
  /\ at \in {10, 11}
  /\ at' = 0 /\ keyed' = {}
  /\ pending_paste' \in {FALSE, pending_paste}
  /\ UNCHANGED <<scene, tree, focus, zoom, view, selection, input_line, palette_open,
                 search_open, next, drawn, disk>>
  /\ Moves

Next ==
  \/ Restart \/ save \/ Reports
  \/ Reconcile \/ toggle_palette \/ toggle_search \/ split \/ Close \/ toggle_zoom_pane
  \/ Input \/ Draw
  \/ Focus \/ pin_tab \/ toggle_view_mode \/ EndFrame

Spec == Init /\ [][Next]_vars
=============================================================================
