----------------------------- MODULE EguiProofs -----------------------------
(***************************************************************************)
(* Proofs about the egui application: its panes (Panes), for any cap,      *)
(* bound, saved layout and operations, and the user's directory (Profile), *)
(* for any instances, settings, faults and reports.  The inductive         *)
(* invariant of the panes, IInv, says of the places of a frame what the    *)
(* properties say of a frame as a whole.                                   *)
(***************************************************************************)
EXTENDS PanesProps, ProfileProps, FiniteSetTheorems, TLAPS

-----------------------------------------------------------------------------
(* The panes.                                                              *)

\* What this frame has written went to the focus, as long as that has not
\* moved; and no pane but the focused one is zoomed then.
KeysFollowFocus ==
  /\ at \in 0 .. 8 => keyed = {}
  /\ at = 9 => keyed \subseteq terms
  /\ at \in 1 .. 9 /\ ~moved => zoom \subseteq {focus} /\ keyed \subseteq {focus}

IInv == TypeOK /\ SessionsMatchPanes /\ IdsAreFresh /\ KeysFollowFocus

\* What a start makes of a saved layout.
LEMMA StartsWell ==
  ASSUME NEW s, IsLayout(s), NEW b \in apply_layout_snapshot(s)
  PROVE  /\ b.panes \subseteq Nat /\ IsFiniteSet(b.panes)
         /\ Cardinality(b.panes) \in 1 .. MAX_PANES
         /\ b.focus \in b.panes /\ b.pinned \subseteq b.panes /\ b.cwds \subseteq b.panes
         /\ b.next \in Nat /\ \A p \in b.panes : p < b.next
         /\ DeskImpl!Started(s, b.panes, b.focus, b.next)
<1>1. CASE snapshot_is_restorable(s.panes)
  <2>1. PICK f \in restored_focus(s.panes, s.focus),
             n \in restored_next_id(s.panes, s.next) :
          b = [panes |-> s.panes, focus |-> f, pinned |-> s.pinned \cap s.panes,
               cwds |-> s.cwds \cap s.panes, next |-> n]
    BY <1>1 DEF apply_layout_snapshot
  <2>2. s.panes \subseteq Nat /\ IsFiniteSet(s.panes) /\ s.next \in Nat
    BY DEF IsLayout
  <2>3. f \in s.panes /\ (s.focus \in s.panes => f = s.focus)
    BY DEF restored_focus
  <2>4. n \in Nat /\ \A p \in s.panes : p < n
    BY <2>2 DEF restored_next_id
  <2>5. Cardinality(s.panes) \in 1 .. MAX_PANES
    BY <1>1 DEF snapshot_is_restorable
  <2> QED
    BY <1>1, <2>1, <2>2, <2>3, <2>4, <2>5 DEF DeskImpl!Started
<1>2. CASE ~snapshot_is_restorable(s.panes)
  <2>1. b = [panes |-> {0}, focus |-> 0, pinned |-> {}, cwds |-> {}, next |-> 1]
    BY <1>2 DEF apply_layout_snapshot, bootstrap_with
  <2>2. IsFiniteSet({0}) /\ Cardinality({0}) = 1
    BY FS_Singleton
  <2>3. Cardinality({0}) \in 1 .. MAX_PANES
    BY <2>2, CapAssumption
  <2>5. DeskImpl!Started(s, b.panes, b.focus, b.next)
    BY <1>2, <2>1 DEF DeskImpl!Started
  <2> QED
    BY <2>1, <2>2, <2>3, <2>5
<1> QED
  BY <1>1, <1>2

\* Any state that a start leaves behind is a good one.
LEMMA InitIInv == Init => IInv
<1> SUFFICES ASSUME Init PROVE IInv
  OBVIOUS
<1>1. IsLayout(disk)
  BY BlobsAssumption DEF Init
<1>2. PICK s \in apply_layout_snapshot(disk) :
        /\ panes = s.panes /\ pending = s.panes /\ focus = s.focus
        /\ pinned = s.pinned /\ cwds = s.cwds /\ next = s.next
  BY DEF Init
<1>3. /\ panes \subseteq Nat /\ IsFiniteSet(panes) /\ Cardinality(panes) \in 1 .. MAX_PANES
      /\ focus \in panes /\ pinned \subseteq panes /\ cwds \subseteq panes
      /\ next \in Nat /\ \A p \in panes : p < next
  BY <1>1, <1>2, StartsWell
<1>m. ModesOK
  BY Zenon DEF Init, ModesOK
<1>4. TypeOK
  BY <1>1, <1>2, <1>3, <1>m DEF Init, TypeOK, Ids
<1>5. SessionsMatchPanes
  BY <1>2, <1>3 DEF Init, SessionsMatchPanes
<1>6. IdsAreFresh
  BY <1>2, <1>3 DEF Init, IdsAreFresh
<1>7. KeysFollowFocus
  BY DEF Init, KeysFollowFocus
<1> QED
  BY <1>4, <1>5, <1>6, <1>7 DEF IInv

LEMMA RestartIInv == IInv /\ Restart => IInv'
<1> SUFFICES ASSUME IInv, Restart PROVE IInv'
  OBVIOUS
<1>1. IsLayout(disk) /\ disk' = disk
  BY DEF IInv, TypeOK, Restart
<1>2. PICK s \in apply_layout_snapshot(disk) :
        /\ panes' = s.panes /\ pending' = s.panes /\ focus' = s.focus
        /\ pinned' = s.pinned /\ cwds' = s.cwds /\ next' = s.next
  BY DEF Restart
<1>3. /\ panes' \subseteq Nat /\ IsFiniteSet(panes') /\ Cardinality(panes') \in 1 .. MAX_PANES
      /\ focus' \in panes' /\ pinned' \subseteq panes' /\ cwds' \subseteq panes'
      /\ next' \in Nat /\ \A p \in panes' : p < next'
  BY <1>1, <1>2, StartsWell
<1>m. ModesOK'
  BY Zenon DEF Restart, IInv, TypeOK, ModesOK
<1>4. TypeOK'
  BY <1>1, <1>2, <1>3, <1>m DEF Restart, IInv, TypeOK, Ids
<1>5. SessionsMatchPanes'
  BY <1>2, <1>3 DEF Restart, SessionsMatchPanes
<1>6. IdsAreFresh'
  BY <1>2, <1>3 DEF Restart, IdsAreFresh
<1>7. KeysFollowFocus'
  BY DEF Restart, KeysFollowFocus
<1> QED
  BY <1>4, <1>5, <1>6, <1>7 DEF IInv

LEMMA ModesStep == IInv /\ Next => ModesOK'
<1> SUFFICES ASSUME ModesOK, Next PROVE ModesOK'
  BY DEF IInv, TypeOK
<1> USE DEF ModesOK, modal, Moves, Chord, Gesture
<1>1. CASE Restart
  <2>1. /\ pending_paste' = FALSE /\ palette_open' = FALSE /\ search_open' = FALSE
        /\ moved' = FALSE /\ view' = view
    BY <1>1, Zenon DEF Restart
  <2> QED
    BY <2>1, Zenon
<1>2. CASE save
  BY <1>2, Zenon DEF save, frame
<1>3. CASE Reports
  BY <1>3, Zenon DEF Reports, frame
<1>4. CASE Reconcile
  BY <1>4, Zenon DEF Reconcile
<1>5. CASE toggle_palette
  BY <1>5, Zenon DEF toggle_palette
<1>6. CASE toggle_search
  BY <1>6, Zenon DEF toggle_search
<1>7. CASE split
  BY <1>7, Zenon DEF split
<1>8. CASE Close
  BY <1>8, Zenon DEF Close, close_pane
<1>9. CASE toggle_zoom_pane
  BY <1>9, Zenon DEF toggle_zoom_pane
<1>10. CASE Input
  BY <1>10, Zenon DEF Input, PaletteKeys, SearchKeys, forward_input_to_focused
<1>11. CASE Draw
  BY <1>11, Zenon DEF Draw
<1>12. CASE Focus
  BY <1>12, Zenon DEF Focus
<1>13. CASE pin_tab
  BY <1>13, Zenon DEF pin_tab
<1>14. CASE toggle_view_mode
  BY <1>14, Zenon DEF toggle_view_mode
<1>15. CASE EndFrame
  BY <1>15, Zenon DEF EndFrame
<1> QED
  BY <1>1, <1>2, <1>3, <1>4, <1>5, <1>6, <1>7, <1>8, <1>9, <1>10, <1>11, <1>12, <1>13, <1>14, <1>15 DEF Next

\* An action that ends with Moves has noticed a change of the focus.
LEMMA StillThere == ASSUME Moves, ~moved' PROVE ~moved /\ focus' = focus
  BY Zenon DEF Moves

\* A step that leaves the panes and their terminals alone.
LEMMA LightIInv ==
  ASSUME IInv, ModesOK',
         panes' = panes, terms' = terms, pending' = pending, cwds' = cwds,
         next' \in Nat, next' >= next, drawn' = drawn, selection' = selection,
         reported' \subseteq terms, pinned' \subseteq panes, IsLayout(disk'),
         focus' \in Nat, focus' < next,
         zoom' \subseteq zoom \/ zoom' = {focus}, input_line' \subseteq input_line \cup {focus},
         keyed' \subseteq Nat, at' \in 0 .. 11, at' \in {10, 11} => at \in {10, 11},
         KeysFollowFocus'
  PROVE  IInv'
<1> USE DEF IInv
<1>1. TypeOK'
  BY DEF TypeOK, Ids
<1>2. SessionsMatchPanes'
  BY DEF SessionsMatchPanes
<1>3. IdsAreFresh'
  <2> SUFFICES ASSUME NEW p \in panes' \cup terms' \cup pending' \cup cwds' \cup drawn'
                          \cup zoom' \cup input_line' \cup {focus'}
               PROVE  p < next'
    BY DEF IdsAreFresh
  <2>1. p < next
    BY DEF IdsAreFresh
  <2>2. p \in Nat /\ next \in Nat
    BY DEF TypeOK, Ids
  <2> QED
    BY <2>1, <2>2
<1> QED
  BY <1>1, <1>2, <1>3

\* The start of a frame makes the zoom and the focus agree.
LEMMA ReconcileIInv == IInv /\ Reconcile => IInv'
<1> SUFFICES ASSUME IInv, Reconcile PROVE IInv'
  OBVIOUS
<1>1. /\ panes' = panes /\ terms' = terms /\ pending' = pending /\ cwds' = cwds
      /\ next' = next /\ drawn' = drawn /\ selection' = selection
      /\ reported' = reported /\ pinned' = pinned /\ disk' = disk
      /\ focus' = focus /\ zoom' = zoom \cap {focus} /\ input_line' = input_line
      /\ keyed' = keyed /\ at = 0 /\ at' = 1
  BY Zenon DEF Reconcile, tree, frame, modal
<1>2. /\ reported' \subseteq terms /\ pinned' \subseteq panes /\ IsLayout(disk')
      /\ focus' \in Nat /\ focus' < next
      /\ (zoom' \subseteq zoom \/ zoom' = {focus}) /\ input_line' \subseteq input_line \cup {focus}
      /\ keyed' \subseteq Nat
  BY <1>1 DEF IInv, TypeOK, Ids, IdsAreFresh
<1>3. at' \in 0 .. 11 /\ (at' \in {10, 11} => at \in {10, 11})
      /\ next' \in Nat /\ next' >= next
  BY <1>1 DEF IInv, TypeOK
<1>4. KeysFollowFocus'
  BY <1>1, <1>2 DEF IInv, TypeOK, KeysFollowFocus
<1> QED
  BY ModesStep, <1>1, <1>2, <1>3, <1>4, LightIInv DEF Next

\* Overlays come and go.
LEMMA PaletteIInv == IInv /\ toggle_palette => IInv'
<1> SUFFICES ASSUME IInv, toggle_palette PROVE IInv'
  OBVIOUS
<1>1. /\ panes' = panes /\ terms' = terms /\ pending' = pending /\ cwds' = cwds
      /\ next' = next /\ drawn' = drawn /\ selection' = selection
      /\ reported' = reported /\ pinned' = pinned /\ disk' = disk
      /\ focus' = focus /\ zoom' = zoom
      /\ (input_line' = {} \/ input_line' = input_line)
      /\ keyed' = keyed /\ Moves /\ at \in 1 .. 2-1 /\ at' = 2
  BY Zenon DEF toggle_palette, Chord, tree, frame, modal
<1>2. /\ reported' \subseteq terms /\ pinned' \subseteq panes /\ IsLayout(disk')
      /\ focus' \in Nat /\ focus' < next
      /\ (zoom' \subseteq zoom \/ zoom' = {focus}) /\ input_line' \subseteq input_line \cup {focus}
      /\ keyed' \subseteq Nat
  BY <1>1 DEF IInv, TypeOK, Ids, IdsAreFresh
<1>3. at' \in 0 .. 11 /\ (at' \in {10, 11} => at \in {10, 11})
      /\ next' \in Nat /\ next' >= next
  BY <1>1 DEF IInv, TypeOK
<1>4. KeysFollowFocus'
  BY <1>1, StillThere DEF IInv, TypeOK, KeysFollowFocus
<1> QED
  BY ModesStep, <1>1, <1>2, <1>3, <1>4, LightIInv DEF Next

LEMMA SearchIInv == IInv /\ toggle_search => IInv'
<1> SUFFICES ASSUME IInv, toggle_search PROVE IInv'
  OBVIOUS
<1>1. /\ panes' = panes /\ terms' = terms /\ pending' = pending /\ cwds' = cwds
      /\ next' = next /\ drawn' = drawn /\ selection' = selection
      /\ reported' = reported /\ pinned' = pinned /\ disk' = disk
      /\ focus' = focus /\ zoom' = zoom
      /\ input_line' = input_line
      /\ keyed' = keyed /\ Moves /\ at \in 1 .. 3-1 /\ at' = 3
  BY Zenon DEF toggle_search, Chord, tree, frame, modal
<1>2. /\ reported' \subseteq terms /\ pinned' \subseteq panes /\ IsLayout(disk')
      /\ focus' \in Nat /\ focus' < next
      /\ (zoom' \subseteq zoom \/ zoom' = {focus}) /\ input_line' \subseteq input_line \cup {focus}
      /\ keyed' \subseteq Nat
  BY <1>1 DEF IInv, TypeOK, Ids, IdsAreFresh
<1>3. at' \in 0 .. 11 /\ (at' \in {10, 11} => at \in {10, 11})
      /\ next' \in Nat /\ next' >= next
  BY <1>1 DEF IInv, TypeOK
<1>4. KeysFollowFocus'
  BY <1>1, StillThere DEF IInv, TypeOK, KeysFollowFocus
<1> QED
  BY ModesStep, <1>1, <1>2, <1>3, <1>4, LightIInv DEF Next

\* A chord zooms the focus.
LEMMA ZoomIInv == IInv /\ toggle_zoom_pane => IInv'
<1> SUFFICES ASSUME IInv, toggle_zoom_pane PROVE IInv'
  OBVIOUS
<1>1. /\ panes' = panes /\ terms' = terms /\ pending' = pending /\ cwds' = cwds
      /\ next' = next /\ drawn' = drawn /\ selection' = selection
      /\ reported' = reported /\ pinned' = pinned /\ disk' = disk
      /\ focus' = focus /\ (zoom' = {} \/ zoom' = {focus})
      /\ input_line' = input_line
      /\ keyed' = keyed /\ Moves /\ at \in 1 .. 8-1 /\ at' = 8
  BY Zenon DEF toggle_zoom_pane, Chord, tree, frame, modal
<1>2. /\ reported' \subseteq terms /\ pinned' \subseteq panes /\ IsLayout(disk')
      /\ focus' \in Nat /\ focus' < next
      /\ (zoom' \subseteq zoom \/ zoom' = {focus}) /\ input_line' \subseteq input_line \cup {focus}
      /\ keyed' \subseteq Nat
  BY <1>1 DEF IInv, TypeOK, Ids, IdsAreFresh
<1>3. at' \in 0 .. 11 /\ (at' \in {10, 11} => at \in {10, 11})
      /\ next' \in Nat /\ next' >= next
  BY <1>1 DEF IInv, TypeOK
<1>4. KeysFollowFocus'
  BY <1>1, StillThere DEF IInv, TypeOK, KeysFollowFocus
<1> QED
  BY ModesStep, <1>1, <1>2, <1>3, <1>4, LightIInv DEF Next

\* Pins, views and a change of focus by the pointer.
LEMMA PinIInv == IInv /\ pin_tab => IInv'
<1> SUFFICES ASSUME IInv, pin_tab PROVE IInv'
  OBVIOUS
<1>1. /\ panes' = panes /\ terms' = terms /\ pending' = pending /\ cwds' = cwds
      /\ next' = next /\ drawn' = drawn /\ selection' = selection
      /\ reported' = reported /\ disk' = disk
      /\ \E p \in panes : pinned' = (pinned \ {p}) \cup ({p} \ pinned)
      /\ focus' = focus /\ zoom' = zoom
      /\ input_line' = input_line
      /\ keyed' = keyed /\ Moves /\ at = 10 /\ at' = 11
  BY Zenon DEF pin_tab, Gesture, tree, frame, modal
<1>2. /\ reported' \subseteq terms /\ pinned' \subseteq panes /\ IsLayout(disk')
      /\ focus' \in Nat /\ focus' < next
      /\ (zoom' \subseteq zoom \/ zoom' = {focus}) /\ input_line' \subseteq input_line \cup {focus}
      /\ keyed' \subseteq Nat
  BY <1>1 DEF IInv, TypeOK, Ids, IdsAreFresh
<1>3. at' \in 0 .. 11 /\ (at' \in {10, 11} => at \in {10, 11})
      /\ next' \in Nat /\ next' >= next
  BY <1>1 DEF IInv, TypeOK
<1>4. KeysFollowFocus'
  BY <1>1, StillThere DEF IInv, TypeOK, KeysFollowFocus
<1> QED
  BY ModesStep, <1>1, <1>2, <1>3, <1>4, LightIInv DEF Next

LEMMA ViewIInv == IInv /\ toggle_view_mode => IInv'
<1> SUFFICES ASSUME IInv, toggle_view_mode PROVE IInv'
  OBVIOUS
<1>1. /\ panes' = panes /\ terms' = terms /\ pending' = pending /\ cwds' = cwds
      /\ next' = next /\ drawn' = drawn /\ selection' = selection
      /\ reported' = reported /\ pinned' = pinned /\ disk' = disk
      /\ focus' = focus /\ zoom' = zoom
      /\ input_line' = input_line
      /\ keyed' = keyed /\ Moves /\ at = 10 /\ at' = 11
  BY Zenon DEF toggle_view_mode, Gesture, tree, frame, modal
<1>2. /\ reported' \subseteq terms /\ pinned' \subseteq panes /\ IsLayout(disk')
      /\ focus' \in Nat /\ focus' < next
      /\ (zoom' \subseteq zoom \/ zoom' = {focus}) /\ input_line' \subseteq input_line \cup {focus}
      /\ keyed' \subseteq Nat
  BY <1>1 DEF IInv, TypeOK, Ids, IdsAreFresh
<1>3. at' \in 0 .. 11 /\ (at' \in {10, 11} => at \in {10, 11})
      /\ next' \in Nat /\ next' >= next
  BY <1>1 DEF IInv, TypeOK
<1>4. KeysFollowFocus'
  BY <1>1, StillThere DEF IInv, TypeOK, KeysFollowFocus
<1> QED
  BY ModesStep, <1>1, <1>2, <1>3, <1>4, LightIInv DEF Next

LEMMA FocusIInv == IInv /\ Focus => IInv'
<1> SUFFICES ASSUME IInv, Focus PROVE IInv'
  OBVIOUS
<1>1. /\ panes' = panes /\ terms' = terms /\ pending' = pending /\ cwds' = cwds
      /\ next' = next /\ drawn' = drawn /\ selection' = selection
      /\ reported' = reported /\ pinned' = pinned /\ disk' = disk
      /\ focus' \in panes /\ zoom' = zoom
      /\ (input_line' = {} \/ input_line' = input_line)
      /\ keyed' = keyed /\ Moves /\ at = 10 /\ at' = 11
  BY Zenon DEF Focus, Gesture, tree, frame, modal
<1>2. /\ reported' \subseteq terms /\ pinned' \subseteq panes /\ IsLayout(disk')
      /\ focus' \in Nat /\ focus' < next
      /\ (zoom' \subseteq zoom \/ zoom' = {focus}) /\ input_line' \subseteq input_line \cup {focus}
      /\ keyed' \subseteq Nat
  BY <1>1 DEF IInv, TypeOK, Ids, IdsAreFresh
<1>3. at' \in 0 .. 11 /\ (at' \in {10, 11} => at \in {10, 11})
      /\ next' \in Nat /\ next' >= next
  BY <1>1 DEF IInv, TypeOK
<1>4. KeysFollowFocus'
  BY <1>1, StillThere DEF IInv, TypeOK, KeysFollowFocus
<1> QED
  BY ModesStep, <1>1, <1>2, <1>3, <1>4, LightIInv DEF Next

LEMMA EndFrameIInv == IInv /\ EndFrame => IInv'
<1> SUFFICES ASSUME IInv, EndFrame PROVE IInv'
  OBVIOUS
<1>1. /\ panes' = panes /\ terms' = terms /\ pending' = pending /\ cwds' = cwds
      /\ next' = next /\ drawn' = drawn /\ selection' = selection
      /\ reported' = reported /\ pinned' = pinned /\ disk' = disk
      /\ focus' = focus /\ zoom' = zoom
      /\ input_line' = input_line
      /\ keyed' = {} /\ Moves /\ at' = 0
  BY Zenon DEF EndFrame, tree, frame, modal
<1>2. /\ reported' \subseteq terms /\ pinned' \subseteq panes /\ IsLayout(disk')
      /\ focus' \in Nat /\ focus' < next
      /\ (zoom' \subseteq zoom \/ zoom' = {focus}) /\ input_line' \subseteq input_line \cup {focus}
      /\ keyed' \subseteq Nat
  BY <1>1 DEF IInv, TypeOK, Ids, IdsAreFresh
<1>3. at' \in 0 .. 11 /\ (at' \in {10, 11} => at \in {10, 11})
      /\ next' \in Nat /\ next' >= next
  BY <1>1 DEF IInv, TypeOK
<1>4. KeysFollowFocus'
  BY <1>1, StillThere DEF IInv, TypeOK, KeysFollowFocus
<1> QED
  BY ModesStep, <1>1, <1>2, <1>3, <1>4, LightIInv DEF Next

\* What is saved is a layout.
LEMMA SaveIInv == IInv /\ save => IInv'
<1> SUFFICES ASSUME IInv, save PROVE IInv'
  OBVIOUS
<1>1. /\ panes' = panes /\ terms' = terms /\ pending' = pending /\ cwds' = cwds
      /\ next' = next /\ drawn' = drawn /\ selection' = selection
      /\ reported' = reported /\ pinned' = pinned /\ disk' = capture_layout
      /\ focus' = focus /\ zoom' = zoom
      /\ input_line' = input_line /\ keyed' = keyed /\ at = 0 /\ at' = at
  BY Zenon DEF save, tree, frame, modal
<1>2. /\ reported' \subseteq terms /\ pinned' \subseteq panes /\ IsLayout(disk')
      /\ focus' \in Nat /\ focus' < next
      /\ (zoom' \subseteq zoom \/ zoom' = {focus}) /\ input_line' \subseteq input_line \cup {focus}
      /\ keyed' \subseteq Nat
  BY <1>1 DEF IInv, TypeOK, Ids, IdsAreFresh, capture_layout, IsLayout
<1>3. at' \in 0 .. 11 /\ (at' \in {10, 11} => at \in {10, 11})
      /\ next' \in Nat /\ next' >= next
  BY <1>1 DEF IInv, TypeOK
<1>4. KeysFollowFocus'
  BY <1>1, <1>2 DEF IInv, TypeOK, KeysFollowFocus
<1> QED
  BY ModesStep, <1>1, <1>2, <1>3, <1>4, LightIInv DEF Next

LEMMA ReportsIInv == IInv /\ Reports => IInv'
<1> SUFFICES ASSUME IInv, Reports PROVE IInv'
  OBVIOUS
<1>1. /\ panes' = panes /\ terms' = terms /\ pending' = pending /\ cwds' = cwds
      /\ next' = next /\ drawn' = drawn /\ selection' = selection
      /\ \E p \in terms : reported' = reported \cup {p}
      /\ pinned' = pinned /\ disk' = disk
      /\ focus' = focus /\ zoom' = zoom
      /\ input_line' = input_line /\ keyed' = keyed /\ at = 0 /\ at' = at
  BY Zenon DEF Reports, tree, frame, modal
<1>2. /\ reported' \subseteq terms /\ pinned' \subseteq panes /\ IsLayout(disk')
      /\ focus' \in Nat /\ focus' < next
      /\ (zoom' \subseteq zoom \/ zoom' = {focus}) /\ input_line' \subseteq input_line \cup {focus}
      /\ keyed' \subseteq Nat
  BY <1>1 DEF IInv, TypeOK, Ids, IdsAreFresh
<1>3. at' \in 0 .. 11 /\ (at' \in {10, 11} => at \in {10, 11})
      /\ next' \in Nat /\ next' >= next
  BY <1>1 DEF IInv, TypeOK
<1>4. KeysFollowFocus'
  BY <1>1, <1>2 DEF IInv, TypeOK, KeysFollowFocus
<1> QED
  BY ModesStep, <1>1, <1>2, <1>3, <1>4, LightIInv DEF Next

\* A split adds a pane, with its terminal and the focus; or it loses an id, or
\* nothing happens.
LEMMA SplitIInv == IInv /\ split => IInv'
<1> SUFFICES ASSUME IInv, split PROVE IInv'
  OBVIOUS
<1>1. /\ pending' = pending /\ cwds' = cwds /\ drawn' = drawn /\ selection' = selection
      /\ reported' = reported /\ pinned' = pinned /\ disk' = disk
      /\ zoom' = zoom /\ input_line' = input_line
      /\ keyed' = keyed /\ Moves
  BY Zenon DEF split, Chord, Gesture, modal
<1>2. \/ at \in 1 .. 3 /\ at' = 4
      \/ at \in 1 .. 4 /\ at' = 5
      \/ at \in 1 .. 5 /\ at' = 6
      \/ at = 10 /\ at' = 11
  BY DEF split, Chord, Gesture
<1>3. \/ panes' = panes /\ terms' = terms /\ focus' = focus
         /\ (next' = next \/ next' = next + 1)
      \/ /\ Cardinality(panes) < MAX_PANES /\ next' = next + 1
         /\ panes' = panes \cup {next} /\ terms' = terms \cup {next} /\ focus' = next
  <2>1. Cardinality(panes) \in Nat /\ MAX_PANES \in Nat
    BY CapAssumption DEF IInv, TypeOK
  <2> QED
    BY <2>1 DEF split
<1>4. ModesOK'
  BY ModesStep DEF Next
<1>5. CASE panes' = panes /\ terms' = terms /\ focus' = focus
           /\ (next' = next \/ next' = next + 1)
  <2>1. /\ reported' \subseteq terms /\ pinned' \subseteq panes /\ IsLayout(disk')
        /\ focus' \in Nat /\ focus' < next /\ next' \in Nat /\ next' >= next
        /\ (zoom' \subseteq zoom \/ zoom' = {focus}) /\ input_line' \subseteq input_line \cup {focus}
        /\ keyed' \subseteq Nat /\ at' \in 0 .. 11 /\ (at' \in {10, 11} => at \in {10, 11})
    BY <1>1, <1>2, <1>5 DEF IInv, TypeOK, Ids, IdsAreFresh
  <2>2. KeysFollowFocus'
    BY <1>1, <1>2, <1>5, StillThere DEF IInv, TypeOK, KeysFollowFocus
  <2> QED
    BY <1>1, <1>4, <1>5, <2>1, <2>2, LightIInv
<1>6. CASE /\ Cardinality(panes) < MAX_PANES /\ next' = next + 1
           /\ panes' = panes \cup {next} /\ terms' = terms \cup {next} /\ focus' = next
  <2>1. next \in Nat /\ next \notin panes /\ next \notin pending /\ next \notin drawn /\ focus < next
    BY DEF IInv, TypeOK, IdsAreFresh
  <2>2. IsFiniteSet(panes') /\ Cardinality(panes') \in 1 .. MAX_PANES
    <3>1. IsFiniteSet(panes) /\ Cardinality(panes) \in 1 .. MAX_PANES
      BY DEF IInv, TypeOK
    <3>2. IsFiniteSet(panes') /\ Cardinality(panes') = Cardinality(panes) + 1
      BY <1>6, <2>1, <3>1, FS_AddElement
    <3> QED
      BY <1>6, <3>1, <3>2, CapAssumption
  <2>3. TypeOK'
    BY <1>1, <1>2, <1>4, <1>6, <2>1, <2>2 DEF IInv, TypeOK, Ids
  <2>4. SessionsMatchPanes'
    BY <1>1, <1>2, <1>6, <2>1 DEF IInv, SessionsMatchPanes
  <2>5. IdsAreFresh'
    <3> SUFFICES ASSUME NEW p \in panes \cup terms \cup pending \cup cwds \cup drawn
                            \cup zoom \cup input_line \cup {next}
                 PROVE  p < next + 1
      BY <1>1, <1>6 DEF IdsAreFresh
    <3>1. p < next \/ p = next
      BY DEF IInv, IdsAreFresh
    <3>2. p \in Nat
      BY <2>1 DEF IInv, TypeOK, Ids
    <3> QED
      BY <2>1, <3>1, <3>2
  <2>6. KeysFollowFocus'
    <3>1. focus' # focus
      BY <1>6, <2>1 DEF IInv, TypeOK, Ids
    <3> QED
      BY <1>1, <1>2, <1>6, <3>1, StillThere DEF IInv, TypeOK, KeysFollowFocus
  <2> QED
    BY <2>3, <2>4, <2>5, <2>6 DEF IInv
<1> QED
  BY <1>3, <1>5, <1>6

\* The two ways of close_pane.
LEMMA CloseCases ==
  ASSUME IInv, Close
  PROVE  \/ panes' = panes /\ terms' = terms /\ reported' = reported /\ pinned' = pinned
            /\ focus' = focus /\ zoom' = zoom /\ selection' = selection
         \/ \E p \in panes :
              /\ Cardinality(panes) > 1
              /\ panes' = panes \ {p}
              /\ terms' = terms \ {p} /\ reported' = reported \ {p}
              /\ pinned' = pinned \ {p} /\ zoom' = zoom \ {p} /\ selection' = {}
              /\ focus' \in (IF focus \in panes' THEN {focus} ELSE panes')
<1>1. PICK p : close_pane(p)
  BY DEF Close
<1>2. Cardinality(panes) \in Nat
  BY DEF IInv, TypeOK
<1> QED
  BY <1>1, <1>2 DEF close_pane, tree

\* A pane goes with all that is known of it; the focus goes to one that stays.
LEMMA CloseIInv == IInv /\ Close => IInv'
<1> SUFFICES ASSUME IInv, Close PROVE IInv'
  OBVIOUS
<1>1. /\ pending' = pending /\ cwds' = cwds /\ drawn' = drawn /\ disk' = disk
      /\ input_line' = input_line /\ next' = next /\ keyed' = keyed /\ Moves
  BY Zenon DEF Close, close_pane, Chord, Gesture, modal, tree
<1>2. \/ at \in 1 .. 6 /\ at' = 7
      \/ at = 10 /\ at' = 11
  BY DEF Close, Chord, Gesture
<1>3. ModesOK'
  BY ModesStep DEF Next
<1>4. CASE panes' = panes /\ terms' = terms /\ reported' = reported /\ pinned' = pinned
           /\ focus' = focus /\ zoom' = zoom /\ selection' = selection
  <2>1. /\ reported' \subseteq terms /\ pinned' \subseteq panes /\ IsLayout(disk')
        /\ focus' \in Nat /\ focus' < next /\ next' \in Nat /\ next' >= next
        /\ (zoom' \subseteq zoom \/ zoom' = {focus}) /\ input_line' \subseteq input_line \cup {focus}
        /\ keyed' \subseteq Nat /\ at' \in 0 .. 11 /\ (at' \in {10, 11} => at \in {10, 11})
    BY <1>1, <1>2, <1>4 DEF IInv, TypeOK, Ids, IdsAreFresh
  <2>2. KeysFollowFocus'
    BY <1>1, <1>2, <1>4, StillThere DEF IInv, TypeOK, KeysFollowFocus
  <2> QED
    BY <1>1, <1>3, <1>4, <2>1, <2>2, LightIInv
<1>5. ASSUME NEW p \in panes, Cardinality(panes) > 1,
             panes' = panes \ {p},
             terms' = terms \ {p}, reported' = reported \ {p},
             pinned' = pinned \ {p}, zoom' = zoom \ {p}, selection' = {},
             focus' \in (IF focus \in panes' THEN {focus} ELSE panes')
      PROVE  IInv'
  <2>1. IsFiniteSet(panes') /\ Cardinality(panes') \in 1 .. MAX_PANES
    <3>1. IsFiniteSet(panes) /\ Cardinality(panes) \in 1 .. MAX_PANES
      BY DEF IInv, TypeOK
    <3>2. IsFiniteSet(panes') /\ Cardinality(panes') = Cardinality(panes) - 1
      BY <1>5, <3>1, FS_RemoveElement
    <3> QED
      BY <1>5, <3>1, <3>2, CapAssumption
  <2>2. focus' \in panes' /\ (focus \in panes' => focus' = focus)
    BY <1>5
  <2>3. TypeOK'
    BY <1>1, <1>2, <1>3, <1>5, <2>1, <2>2 DEF IInv, TypeOK, Ids
  <2>4. SessionsMatchPanes'
    BY <1>1, <1>2, <1>5 DEF IInv, SessionsMatchPanes
  <2>5. IdsAreFresh'
    BY <1>1, <1>5, <2>2 DEF IInv, IdsAreFresh
  <2>6. KeysFollowFocus'
    BY <1>1, <1>2, <1>5, StillThere DEF IInv, TypeOK, KeysFollowFocus
  <2> QED
    BY <2>3, <2>4, <2>5, <2>6 DEF IInv
<1> QED
  BY <1>4, <1>5, CloseCases

\* What Input may do to the focus, the keys and the typed line.
LEMMA InputEffect ==
  ASSUME IInv, Input
  PROVE  /\ focus' = focus \/ focus' \in drawn
         /\ keyed' \subseteq terms /\ keyed' \subseteq {focus, focus'}
         /\ input_line' \subseteq input_line \cup {focus}
<1>1. CASE focus' = focus /\ input_line' = input_line /\ keyed' \subseteq Written(focus)
  BY <1>1 DEF Written
<1>2. CASE pending_paste
  BY <1>1, <1>2 DEF Input, modal
<1>3. CASE ~pending_paste /\ palette_open
  <2>1. PaletteKeys
    BY <1>3, Zenon DEF Input
  <2>2. focus' = focus /\ input_line' = input_line /\ (keyed' = {} \/ keyed' = Written(focus))
    BY <2>1 DEF PaletteKeys
  <2> QED
    BY <2>2, <1>1
<1>4. CASE ~pending_paste /\ ~palette_open /\ search_open
  <2>1. SearchKeys
    BY <1>4, Zenon DEF Input
  <2>2. focus' = focus /\ input_line' = input_line /\ keyed' = {}
    BY <2>1, Zenon DEF SearchKeys
  <2> QED
    BY <2>2, <1>1
<1>5. CASE ~pending_paste /\ ~palette_open /\ ~search_open
  <2>1. forward_input_to_focused
    BY <1>5, Zenon DEF Input
  <2>2. PICK typed \in {"nothing", "text", "line"}, paste \in {"none", "now", "ask"},
             f \in {focus} \cup {p \in neighbor_in_rects(focus) : May("arrow")} :
          /\ focus' = f
          /\ keyed' = (IF typed # "nothing" THEN Written(focus) ELSE {})
                      \cup (IF paste = "now" THEN Written(f) ELSE {})
          /\ input_line' = CASE typed = "text" ->
                                  (IF f = focus THEN input_line ELSE {}) \cup {focus}
                             [] typed = "line" -> {}
                             [] OTHER -> IF f = focus THEN input_line ELSE {}
    BY <2>1, Zenon DEF forward_input_to_focused
  <2>3. focus' = focus \/ focus' \in drawn
    BY <2>2 DEF neighbor_in_rects
  <2>4. keyed' \subseteq Written(focus) \cup Written(focus')
    BY <2>2
  <2>5. input_line' \subseteq input_line \cup {focus}
    BY <2>2
  <2> QED
    BY <2>3, <2>4, <2>5 DEF Written
<1> QED
  BY <1>2, <1>3, <1>4, <1>5, Zenon

\* Keys go to the focus of the moment.
LEMMA InputIInv == IInv /\ Input => IInv'
<1> SUFFICES ASSUME IInv, Input PROVE IInv'
  OBVIOUS
<1>1. /\ panes' = panes /\ terms' = terms /\ pending' = pending /\ cwds' = cwds
      /\ next' = next /\ drawn' = drawn /\ selection' = selection
      /\ reported' = reported /\ pinned' = pinned /\ disk' = disk /\ zoom' = zoom
      /\ at \in 1 .. 8 /\ at' = 9 /\ Moves
  BY Zenon DEF Input, tree
<1>2. /\ reported' \subseteq terms /\ pinned' \subseteq panes /\ IsLayout(disk')
      /\ focus' \in Nat /\ focus' < next /\ next' \in Nat /\ next' >= next
      /\ (zoom' \subseteq zoom \/ zoom' = {focus}) /\ input_line' \subseteq input_line \cup {focus}
      /\ keyed' \subseteq Nat
  <2>1. focus' \in Nat /\ focus' < next
    BY InputEffect DEF IInv, TypeOK, Ids, IdsAreFresh
  <2> QED
    BY <1>1, <2>1, InputEffect DEF IInv, TypeOK, Ids
<1>3. at' \in 0 .. 11 /\ (at' \in {10, 11} => at \in {10, 11})
  BY <1>1 DEF IInv, TypeOK
<1>4. KeysFollowFocus'
  BY <1>1, InputEffect, StillThere DEF IInv, TypeOK, KeysFollowFocus
<1> QED
  BY ModesStep, <1>1, <1>2, <1>3, <1>4, LightIInv DEF Next

\* What is drawn are panes; the focused one is among them when no other is zoomed.
LEMMA ShownFacts ==
  ASSUME IInv, NEW shown \in Shown
  PROVE  /\ shown \subseteq panes
         /\ zoom \subseteq {focus} /\ focus \in panes => focus \in shown
<1> USE DEF IInv, TypeOK
<1>1. CASE zoom \cap panes # {}
  <2>1. shown = zoom
    BY <1>1 DEF Shown
  <2>2. PICK p \in panes : p \in zoom
    BY <1>1
  <2> QED
    BY <2>1, <2>2
<1>2. CASE zoom \cap panes = {} /\ view = "Grid"
  BY <1>2 DEF Shown
<1>3. CASE zoom \cap panes = {} /\ view # "Grid" /\ focus \in panes
  BY <1>3 DEF Shown
<1>4. CASE zoom \cap panes = {} /\ view # "Grid" /\ focus \notin panes
  BY <1>4 DEF Shown
<1> QED
  BY <1>1, <1>2, <1>3, <1>4

\* Drawing gives a terminal to the panes that it shows.
LEMMA DrawIInv == IInv /\ Draw => IInv'
<1> SUFFICES ASSUME IInv, Draw PROVE IInv'
  OBVIOUS
<1>1. /\ panes' = panes /\ reported' = reported /\ pinned' = pinned /\ focus' = focus
      /\ zoom' = zoom /\ input_line' = input_line /\ next' = next /\ disk' = disk
      /\ keyed' = keyed \/ keyed' = keyed \cup Written(focus)
      /\ at = 9 /\ at' = 10
  BY Zenon DEF Draw
<1>2. PICK shown \in Shown :
        /\ drawn' = shown
        /\ terms' = terms \cup (pending \cap shown)
        /\ pending' = pending \ shown
        /\ cwds' = cwds \ (pending \cap shown)
        /\ selection' \in {selection} \cup {sel \in {{}} \cup {{p} : p \in shown} : May("select")}
  BY DEF Draw
<1>3. ModesOK'
  BY ModesStep DEF Next
<1>4. shown \subseteq panes /\ selection' \subseteq panes
  <2>1. shown \subseteq panes
    BY ShownFacts
  <2> QED
    BY <1>2, <2>1 DEF IInv, TypeOK
<1>5. TypeOK'
  <2>1. drawn' \subseteq Nat /\ terms' \subseteq Nat /\ pending' \subseteq Nat /\ cwds' \subseteq Nat
    BY <1>2, <1>4 DEF IInv, TypeOK, Ids
  <2>2. keyed' \subseteq Nat
    BY <1>1 DEF IInv, TypeOK, Ids, Written
  <2>3. reported' \subseteq terms' /\ pinned' \subseteq panes'
    BY <1>1, <1>2 DEF IInv, TypeOK
  <2> QED
    BY <1>1, <1>3, <1>4, <2>1, <2>2, <2>3 DEF IInv, TypeOK, Ids
<1>6. SessionsMatchPanes'
  BY <1>1, <1>2, <1>4 DEF IInv, SessionsMatchPanes
<1>7. IdsAreFresh'
  BY <1>1, <1>2, <1>4 DEF IInv, IdsAreFresh
<1>8. KeysFollowFocus'
  BY <1>1 DEF KeysFollowFocus
<1> QED
  BY <1>5, <1>6, <1>7, <1>8 DEF IInv

LEMMA StepIInv == IInv /\ [Next]_vars => IInv'
<1> SUFFICES ASSUME IInv, [Next]_vars PROVE IInv'
  OBVIOUS
<1>1. CASE Next
  BY <1>1, RestartIInv, SaveIInv, ReportsIInv, ReconcileIInv, PaletteIInv, SearchIInv, SplitIInv,
     CloseIInv, ZoomIInv, InputIInv, DrawIInv, FocusIInv, PinIInv, ViewIInv, EndFrameIInv, Zenon
     DEF Next
<1>2. CASE UNCHANGED vars
  <2> USE <1>2 DEF vars, tree, modal, frame, IInv
  <2>1. TypeOK'
    BY Zenon DEF TypeOK, ModesOK
  <2>2. SessionsMatchPanes' /\ IdsAreFresh'
    BY Zenon DEF SessionsMatchPanes, IdsAreFresh
  <2>3. KeysFollowFocus'
    BY Zenon DEF KeysFollowFocus
  <2> QED
    BY <2>1, <2>2, <2>3
<1> QED
  BY <1>1, <1>2

THEOREM Invariance == Spec => []IInv
<1> QED
  BY InitIInv, StepIInv, PTL DEF Spec

\* There is always a pane, and never more than the cap (close_pane, split,
\* apply_layout_snapshot).
THEOREM TypeCorrect == Spec => []TypeOK
<1>1. IInv => TypeOK
  BY DEF IInv
<1> QED
  BY <1>1, Invariance, PTL

\* Panes, terminals and panes that wait for one agree, whatever the order of
\* splits, closes, zooms, drawings and restarts.
THEOREM SessionsAgree == Spec => []SessionsMatchPanes
<1>1. IInv => SessionsMatchPanes
  BY DEF IInv
<1> QED
  BY <1>1, Invariance, PTL

\* A new pane's id is none that anything still remembers, after any restart
\* from any saved layout (restored_next_id).
THEOREM FreshIds == Spec => []IdsAreFresh
<1>1. IInv => IdsAreFresh
  BY DEF IInv
<1> QED
  BY <1>1, Invariance, PTL

\* Only Draw goes from the first half of a frame to the second.
LEMMA OnlyDrawDraws == ASSUME Next, at = 9, at' = 10 PROVE Draw
<1>1. ~Restart /\ ~save /\ ~Reports /\ ~Reconcile /\ ~EndFrame
  BY DEF Restart, save, Reports, Reconcile, EndFrame
<1>2. ~toggle_palette /\ ~toggle_search /\ ~toggle_zoom_pane
  <2>1. /\ toggle_palette => at' = 2
        /\ toggle_search => at' = 3
        /\ toggle_zoom_pane => at' = 8
    BY Zenon DEF toggle_palette, toggle_search, toggle_zoom_pane, Chord
  <2> QED
    BY <2>1
<1>3. ~split
  BY DEF split, Chord, Gesture
<1>4. ~Close
  BY DEF Close, Chord, Gesture
<1>5. ~Input /\ ~Focus /\ ~pin_tab /\ ~toggle_view_mode
  <2>1. /\ Input => at' = 9
        /\ Focus \/ pin_tab \/ toggle_view_mode => at' = 11
    BY Zenon DEF Input, Focus, pin_tab, toggle_view_mode, Gesture
  <2> QED
    BY <2>1
<1> QED
  BY <1>1, <1>2, <1>3, <1>4, <1>5, Zenon DEF Next

\* What is typed goes to a pane that this frame draws: the zoom is reconciled
\* with the focus at its start, and the keys are forwarded before it draws.
THEOREM TypedGetsShown == Spec => TypedIsShown
<1>1. IInv /\ [Next]_vars => [at = 9 /\ at' = 10 /\ ~moved => keyed' \subseteq drawn']_vars
  <2> SUFFICES ASSUME IInv, Next, at = 9, at' = 10, ~moved PROVE keyed' \subseteq drawn'
    BY Zenon
  <2>1. Draw
    BY OnlyDrawDraws
  <2>2. PICK shown \in Shown : drawn' = shown
    BY <2>1 DEF Draw
  <2>3. keyed' = keyed \/ keyed' = keyed \cup Written(focus)
    BY <2>1, Zenon DEF Draw
  <2>4. zoom \subseteq {focus} /\ keyed \subseteq {focus} /\ keyed \subseteq terms
    BY DEF IInv, KeysFollowFocus
  <2>5. terms \subseteq panes
    BY DEF IInv, SessionsMatchPanes
  <2> QED
    BY <2>2, <2>3, <2>4, <2>5, ShownFacts DEF Written
<1> QED
  BY <1>1, Invariance, PTL DEF Spec, TypedIsShown

-----------------------------------------------------------------------------
(* The panes implement the desk.                                           *)

Stutters == UNCHANGED <<panes, focus, next, disk>>

LEMMA RestartIsRestart == ASSUME IInv, Restart PROVE DeskImpl!Restart
<1>1. IsLayout(disk) /\ disk' = disk
  BY DEF IInv, TypeOK, Restart
<1>2. PICK s \in apply_layout_snapshot(disk) : panes' = s.panes /\ focus' = s.focus /\ next' = s.next
  BY DEF Restart
<1>3. DeskImpl!Started(disk, panes', focus', next')
  BY <1>1, <1>2, StartsWell
<1> QED
  BY <1>1, <1>3 DEF DeskImpl!Restart, DeskImpl!Started

LEMMA SaveIsSave == ASSUME IInv, save PROVE DeskImpl!Save
BY DEF save, tree, frame, capture_layout, DeskImpl!Save

LEMMA SplitIsOpen == ASSUME IInv, split PROVE DeskImpl!Open \/ DeskImpl!Lose \/ Stutters
<1>1. disk' = disk
  BY DEF split, Chord, Gesture
<1>2. Cardinality(panes) \in Nat /\ MAX_PANES \in Nat /\ IsFiniteSet(panes) /\ next \in Nat
  BY CapAssumption DEF IInv, TypeOK
<1>3. CASE Cardinality(panes) >= MAX_PANES
  BY <1>1, <1>3 DEF split, Stutters
<1>4. CASE Cardinality(panes) < MAX_PANES /\ focus \notin panes
  BY <1>1, <1>2, <1>4 DEF split, DeskImpl!Lose
<1>5. CASE Cardinality(panes) < MAX_PANES /\ focus \in panes
  <2>1. panes' = panes \cup {next} /\ focus' = next /\ next' = next + 1
    BY <1>2, <1>5 DEF split
  <2>2. next \notin panes
    BY <1>2 DEF IInv, IdsAreFresh
  <2>3. Cardinality(panes') = Cardinality(panes) + 1
    BY <1>2, <2>1, <2>2, FS_AddElement
  <2> QED
    BY <1>1, <1>2, <1>5, <2>1, <2>2, <2>3 DEF DeskImpl!Open, snapshot_is_restorable
<1> QED
  BY <1>2, <1>3, <1>4, <1>5

LEMMA CloseIsClose == ASSUME IInv, Close PROVE DeskImpl!Close \/ Stutters
<1>1. disk' = disk /\ next' = next
  BY DEF Close, Chord, Gesture
<1> QED
  BY <1>1, CloseCases DEF DeskImpl!Close, Stutters

\* The focus goes where a pane is, or was when the last frame was drawn.
LEMMA FocusMoves ==
  ASSUME IInv, panes' = panes, next' = next, disk' = disk,
         focus' = focus \/ focus' \in drawn \/ focus' \in panes
  PROVE  DeskImpl!Move \/ Stutters
<1>1. focus' \in Nat /\ focus' < next /\ next \in Nat
  BY DEF IInv, TypeOK, Ids, IdsAreFresh
<1> QED
  BY <1>1 DEF DeskImpl!Move

LEMMA NextIsDesk == IInv /\ [Next]_vars => [DeskImpl!DNext]_DeskImpl!dvars
<1> SUFFICES ASSUME IInv, [Next]_vars
             PROVE  DeskImpl!DNext \/ Stutters
  BY DEF Stutters, DeskImpl!dvars
<1> USE DEF DeskImpl!DNext, tree
<1>1. CASE Restart
  BY <1>1, RestartIsRestart
<1>2. CASE save
  BY <1>2, SaveIsSave
<1>3. CASE split
  BY <1>3, SplitIsOpen
<1>4. CASE Close
  BY <1>4, CloseIsClose
<1>5. CASE Input
  BY <1>5, InputEffect, FocusMoves DEF Input
<1>6. CASE Focus
  BY <1>6, FocusMoves DEF Focus, Gesture
<1>7. CASE Reports \/ Reconcile \/ Draw \/ EndFrame
  BY <1>7, Zenon DEF Reports, Reconcile, Draw, EndFrame, Stutters
<1>8. CASE toggle_palette \/ toggle_search \/ toggle_zoom_pane
  BY <1>8, Zenon DEF toggle_palette, toggle_search, toggle_zoom_pane, Chord, Stutters
<1>9. CASE pin_tab \/ toggle_view_mode
  BY <1>9, Zenon DEF pin_tab, toggle_view_mode, Gesture, Stutters
<1>10. CASE UNCHANGED vars
  BY <1>10, Zenon DEF vars, Stutters
<1> QED
  BY <1>1, <1>2, <1>3, <1>4, <1>5, <1>6, <1>7, <1>8, <1>9, <1>10, Zenon DEF Next

\* Every behaviour of the panes is one of the abstract desk.
THEOREM PanesKeepDesk == Spec => KeepsDesk
<1>1. Init => DeskImpl!DInit
  <2> SUFFICES ASSUME Init PROVE DeskImpl!DInit
    OBVIOUS
  <2>1. IsLayout(disk)
    BY BlobsAssumption DEF Init
  <2>2. PICK s \in apply_layout_snapshot(disk) : panes = s.panes /\ focus = s.focus /\ next = s.next
    BY DEF Init
  <2>3. DeskImpl!Started(disk, panes, focus, next)
    BY <2>1, <2>2, StartsWell
  <2> QED
    BY <2>3 DEF DeskImpl!DInit, DeskImpl!Started
<1> QED
  BY <1>1, NextIsDesk, Invariance, PTL DEF Spec, KeepsDesk, DeskImpl!DSpec

-----------------------------------------------------------------------------
(* The user's directory.                                                   *)

\* app' has one new instance in it.
LEMMA BecomesTyped ==
  ASSUME ProfileOK, NEW p \in Procs, NEW b \in Instance, Becomes(p, b)
  PROVE  /\ app' \in [Procs -> Instance] /\ app'[p] = b
         /\ \A q \in Procs : q # p => app'[q] = app[q]
         /\ trial' = trial
BY DEF ProfileOK, Becomes

LEMMA FreshTyped == Fresh \in Instance
<1>1. Default \in Config
  BY FontAssumption DEF Default, Config, Modes
<1> QED
  BY <1>1 DEF Fresh, Instance, Places

SameRest(a, b) ==
  /\ b.config = a.config /\ b.fontSave = a.fontSave /\ b.failed = a.failed
  /\ b.drains = a.drains /\ b.tried = a.tried

\* What advance does to the queue, and that it leaves the rest alone.
LEMMA Advances ==
  ASSUME NEW a \in Instance, NEW rs, NEW b \in advance(a, rs)
  PROVE  /\ b \in Instance
         /\ SameRest(a, b) /\ b.at = a.at
         /\ \/ a.queue = {} /\ b.queue = {} /\ b.current = {}
            \/ \E r \in a.queue : b.queue = a.queue \ {r} /\ b.current = {r} \cap rs
         /\ \A r, s \in b.current : r = s
<1>1. CASE a.queue = {}
  <2>1. b = [a EXCEPT !.current = {}]
    BY <1>1 DEF advance
  <2>2. b \in Instance
    BY <2>1 DEF Instance
  <2> QED
    BY <1>1, <2>1, <2>2 DEF Instance, SameRest
<1>2. CASE a.queue # {}
  <2>1. PICK r \in a.queue : b = [a EXCEPT !.queue = @ \ {r}, !.current = {r} \cap rs]
    BY <1>2 DEF advance, Oldest
  <2>2. r \in Nat /\ a.queue \subseteq Nat
    BY DEF Instance
  <2>3. b \in Instance
    BY <2>1, <2>2 DEF Instance
  <2> QED
    BY <2>1, <2>3 DEF Instance, SameRest
<1> QED
  BY <1>1, <1>2

\* What a launch makes of any file.
LEMMA Loads ==
  ASSUME NEW c \in Contents, NEW a \in load_config_from(c)
  PROVE  /\ a \in Instance
         /\ a.queue = {} /\ a.current = {} /\ ~a.fontSave
         /\ ~a.failed => a.config = c \/ (c \in {Absent, Torn} /\ a.config = Default)
<1>1. Fresh \in Instance
  BY FreshTyped
<1>2. /\ Fresh.queue = {} /\ Fresh.current = {} /\ ~Fresh.fontSave /\ Fresh.config = Default
      /\ ~Fresh.failed
  BY DEF Fresh
<1>3. CASE c \in Config /\ a = [Fresh EXCEPT !.config = c]
  <2>1. a \in Instance
    BY <1>1, <1>3 DEF Instance
  <2>2. a.config = c /\ a.queue = Fresh.queue /\ a.current = Fresh.current
        /\ a.fontSave = Fresh.fontSave
    BY <1>1, <1>3 DEF Instance
  <2> QED
    BY <1>2, <2>1, <2>2
<1>4. ASSUME NEW told \in BOOLEAN, a = Defaults(told), told \/ c \in {Absent, Torn}
      PROVE  /\ a \in Instance
             /\ a.queue = {} /\ a.current = {} /\ ~a.fontSave
             /\ ~a.failed => c \in {Absent, Torn} /\ a.config = Default
  <2>1. a \in Instance
    BY <1>1, <1>4 DEF Instance, Defaults
  <2>2. a.config = Fresh.config /\ a.queue = Fresh.queue /\ a.current = Fresh.current
        /\ a.fontSave = Fresh.fontSave /\ a.failed = told
    BY <1>1, <1>4 DEF Instance, Defaults
  <2> QED
    BY <1>2, <1>4, <2>1, <2>2
<1>5. \/ c \in Config /\ a = [Fresh EXCEPT !.config = c]
      \/ \E told \in BOOLEAN : a = Defaults(told) /\ (told \/ c \in {Absent, Torn})
  <2>1. CASE c \in Config
    BY <2>1 DEF load_config_from
  <2>2. CASE c = Absent
    BY <2>2, ContentsAssumption DEF load_config_from
  <2>3. CASE c = Torn
    BY <2>3, ContentsAssumption DEF load_config_from
  <2> QED
    BY <2>1, <2>2, <2>3 DEF Contents
<1> QED
  BY <1>3, <1>4, <1>5

LEMMA Drains ==
  ASSUME NEW a \in Instance, spool \subseteq Nat, NEW b \in drain_crash_spool(a)
  PROVE  /\ b \in Instance
         /\ SameRest(a, b)
         /\ \/ b.at = "Open" /\ a.config.mode = "Off" /\ b.queue = a.queue /\ b.current = a.current
            \/ b.at = "AutoSend" /\ b.queue = spool /\ b.current = a.current
            \/ b.at = "Open" /\ spool = {} /\ b.queue = {} /\ b.current = {}
            \/ b.at = "Open" /\ \E r \in spool : b.queue = spool \ {r} /\ b.current = {r}
<1>1. a.config.mode \in Modes
  BY DEF Instance, Config
<1>2. CASE a.config.mode = "Off"
  <2>1. b = [a EXCEPT !.at = "Open"]
    BY <1>2 DEF drain_crash_spool
  <2>2. b \in Instance
    BY <2>1 DEF Instance, Places
  <2> QED
    BY <1>2, <2>1, <2>2 DEF Instance, SameRest
<1>3. CASE a.config.mode = "Always"
  <2>1. b = [a EXCEPT !.at = "AutoSend", !.queue = spool]
    BY <1>3 DEF drain_crash_spool
  <2>2. b \in Instance
    BY <2>1 DEF Instance, Places
  <2> QED
    BY <2>1, <2>2 DEF Instance, SameRest
<1>4. CASE a.config.mode = "AskEachTime"
  <2> DEFINE c == [a EXCEPT !.at = "Open", !.queue = spool]
  <2>1. c \in Instance
    BY DEF Instance, Places
  <2>2. c.queue = spool /\ c.at = "Open" /\ SameRest(a, c)
    BY DEF Instance, SameRest
  <2>3. b \in advance(c, spool)
    BY <1>4 DEF drain_crash_spool
  <2> HIDE DEF c
  <2>4. /\ b \in Instance /\ SameRest(c, b) /\ b.at = c.at
        /\ \/ c.queue = {} /\ b.queue = {} /\ b.current = {}
           \/ \E r \in c.queue : b.queue = c.queue \ {r} /\ b.current = {r} \cap spool
    BY <2>1, <2>3, Advances
  <2>5. SameRest(a, b)
    BY <2>2, <2>4 DEF SameRest
  <2>6. \/ spool = {} /\ b.queue = {} /\ b.current = {}
        \/ \E r \in spool : b.queue = spool \ {r} /\ b.current = {r}
    <3>1. ASSUME NEW r \in spool PROVE {r} \cap spool = {r}
      OBVIOUS
    <3> QED
      BY <2>2, <2>4, <3>1
  <2> QED
    BY <2>2, <2>4, <2>5, <2>6
<1> QED
  BY <1>1, <1>2, <1>3, <1>4 DEF Modes

LEMMA SavedTyped ==
  ASSUME NEW a \in Instance, NEW ok \in BOOLEAN
  PROVE  Saved(a, ok) \in Instance
<1>1. CASE a.after = "Gone"
  <2>1. Fresh \in Instance /\ a.config \in Config
    BY FreshTyped DEF Instance
  <2> QED
    BY <1>1, <2>1 DEF Saved, Instance, Places
<1>2. CASE a.after # "Gone"
  <2>1. a.after \in Places
    BY <1>2 DEF Instance, Places
  <2> QED
    BY <1>2, <2>1 DEF Saved, Instance
<1> QED
  BY <1>1, <1>2

LEMMA FollowTyped ==
  ASSUME NEW a \in Instance, NEW was, NEW now \in {"file", "orphan"}
  PROVE  Follow(a, was, now) \in Instance
BY DEF Follow, Instance

-----------------------------------------------------------------------------
(* Types *)

LEMMA InitTyped == ProfileInit => ProfileOK
<1> SUFFICES ASSUME ProfileInit PROVE ProfileOK
  OBVIOUS
<1>1. app \in [Procs -> Instance]
  BY FreshTyped DEF ProfileInit
<1>2. file \in Contents /\ tmp \in Contents
  BY TrialAssumption DEF ProfileInit, Contents
<1> QED
  BY <1>1, <1>2 DEF ProfileInit, ProfileOK

LEMMA NextTyped == ProfileOK /\ [ProfileNext]_profileVars => ProfileOK'
<1> SUFFICES ASSUME ProfileOK, [ProfileNext]_profileVars PROVE ProfileOK'
  OBVIOUS
<1>t. /\ app \in [Procs -> Instance]
      /\ file \in Contents /\ tmp \in Contents
      /\ spool \subseteq Nat /\ captured \in Nat /\ sent \subseteq Nat /\ declined \subseteq Nat
      /\ trial \in Trials
  BY DEF ProfileOK
<1>s. CASE UNCHANGED profileVars
  BY <1>s, <1>t DEF profileVars, ProfileOK
<1>n. CASE ProfileNext
  <2>p. PICK p \in Procs :
          Starting(p) \/ Saving(p) \/ Answering(p) \/ Setting(p) \/ Exit(p) \/ Panic(p) \/ Kill(p)
    BY <1>n DEF ProfileNext
  <2> DEFINE a == app[p]
  <2>a. a \in Instance /\ a.queue \subseteq Nat /\ a.current \subseteq Nat /\ a.config \in Config
    BY <1>t DEF Instance
  <2>b. ASSUME NEW b \in Instance, Becomes(p, b)
        PROVE  app' \in [Procs -> Instance] /\ trial' \in Trials
    BY <2>b, <1>t, BecomesTyped
  <2> HIDE DEF a
  <2> USE DEF onDisk, reports
  <2>1. CASE Launch(p)
    <3>1. PICK c \in load_config_from(file) :
            \E b \in drain_crash_spool([c EXCEPT !.drains = c.config.mode # "Off"]) : Becomes(p, b)
      BY <2>1 DEF Launch
    <3>2. c \in Instance
      BY <3>1, <1>t, Loads
    <3>3. [c EXCEPT !.drains = c.config.mode # "Off"] \in Instance
      BY <3>2 DEF Instance
    <3>4. PICK b \in drain_crash_spool([c EXCEPT !.drains = c.config.mode # "Off"]) : Becomes(p, b)
      BY <3>1
    <3>5. b \in Instance
      BY <3>3, <3>4, <1>t, Drains
    <3> QED
      BY <2>1, <3>4, <3>5, <2>b, <1>t DEF Launch, ProfileOK
  <2>2. CASE AutoSend(p)
    <3>1. PICK r \in Oldest(a.queue) \cap spool, ok \in BOOLEAN :
            /\ Deliver(r, ok)
            /\ Becomes(p, [a EXCEPT !.tried = @ \cup {r}, !.queue = @ \ {r},
                                    !.at = IF ok THEN "AutoRemove" ELSE "AutoSend",
                                    !.current = IF ok THEN {r} ELSE {}])
      BY <2>2 DEF AutoSend, a
    <3>2. [a EXCEPT !.tried = @ \cup {r}, !.queue = @ \ {r},
                    !.at = IF ok THEN "AutoRemove" ELSE "AutoSend",
                    !.current = IF ok THEN {r} ELSE {}] \in Instance
      <4>1. r \in Nat
        BY <3>1, <1>t
      <4>2. CASE ok
        BY <2>a, <4>1, <4>2 DEF Instance, Places
      <4>3. CASE ~ok
        BY <2>a, <4>1, <4>3 DEF Instance, Places
      <4> QED
        BY <4>2, <4>3
    <3>3. sent' \subseteq Nat
      BY <3>1, <1>t DEF Deliver
    <3> QED
      BY <2>2, <3>1, <3>2, <3>3, <2>b, <1>t DEF AutoSend, ProfileOK
  <2>3. CASE AutoSkip(p)
    <3>1. PICK r : Becomes(p, [a EXCEPT !.queue = @ \ {r}])
      BY <2>3 DEF AutoSkip, a
    <3>2. [a EXCEPT !.queue = @ \ {r}] \in Instance
      BY <2>a DEF Instance
    <3> QED
      BY <2>3, <3>1, <3>2, <2>b, <1>t DEF AutoSkip, ProfileOK
  <2>4. CASE AutoRemove(p)
    <3>1. [a EXCEPT !.at = "AutoSend", !.current = {}] \in Instance
      BY <2>a DEF Instance, Places
    <3> QED
      BY <2>4, <3>1, <2>b, <1>t DEF AutoRemove, ProfileOK, a
  <2>5. CASE AutoEnds(p)
    <3>1. [a EXCEPT !.at = "Open"] \in Instance
      BY <2>a DEF Instance, Places
    <3> QED
      BY <2>5, <3>1, <2>b, <1>t DEF AutoEnds, ProfileOK, a
  <2>6. CASE Create(p)
    <3>1. [a EXCEPT !.at = "Write", !.handle = "tmp"] \in Instance
      BY <2>a DEF Instance, Places
    <3> QED
      BY <2>6, <3>1, <2>b, <1>t DEF Create, ProfileOK, a, Contents
  <2>7. CASE Write(p)
    <3>1. [a EXCEPT !.at = "Rename", !.handle = "none"] \in Instance
      BY <2>a DEF Instance, Places
    <3>2. tmp' \in Contents /\ file' \in Contents
      BY <2>7, <2>a, <1>t DEF Write, Mixed, Contents, a
    <3> QED
      BY <2>7, <3>1, <3>2, <2>b, <1>t DEF Write, ProfileOK, a
  <2>8. CASE Rename(p)
    <3>1. app' \in [Procs -> Instance]
      <4>1. ASSUME NEW q \in Procs
            PROVE  Follow(Follow(app[q], "file", "orphan"), "tmp", "file") \in Instance
        BY <1>t, FollowTyped
      <4>2. Saved(app[p], TRUE) \in Instance
        BY <1>t, SavedTyped
      <4> QED
        BY <2>8, <4>1, <4>2 DEF Rename
    <3> QED
      BY <2>8, <3>1, <1>t DEF Rename, ProfileOK, Contents
  <2>9. CASE SaveFails(p)
    <3>1. app' \in [Procs -> Instance]
      <4>1. ASSUME NEW q \in Procs
            PROVE  Follow(app[q], "tmp", "orphan") \in Instance
        BY <1>t, FollowTyped
      <4>2. Saved(app[p], FALSE) \in Instance
        BY <1>t, SavedTyped
      <4> QED
        BY <2>9, <4>1, <4>2, <1>t DEF SaveFails
    <3> QED
      BY <2>9, <3>1, <1>t DEF SaveFails, ProfileOK, Contents
  <2>10. CASE \E mode \in Modes : Change(p, mode)
    <3>1. PICK mode \in Modes : Change(p, mode)
      BY <2>10
    <3>2. Saves([a EXCEPT !.config.mode = mode], "Open") \in Instance
      BY <2>a DEF Instance, Places, Saves, Config
    <3> QED
      BY <3>1, <3>2, <2>b, <1>t DEF Change, ProfileOK, a
  <2>11. CASE \E font \in Fonts : Zoom(p, font)
    <3>1. PICK font \in Fonts : Zoom(p, font)
      BY <2>11
    <3>2. [a EXCEPT !.config.font = font, !.fontSave = TRUE] \in Instance
      BY <2>a DEF Instance, Places, Config
    <3> QED
      BY <3>1, <3>2, <2>b, <1>t DEF Zoom, ProfileOK, a
  <2>12. CASE FlushFont(p)
    <3>1. Saves([a EXCEPT !.fontSave = FALSE], "Open") \in Instance
      BY <2>a DEF Instance, Places, Saves
    <3> QED
      BY <2>12, <3>1, <2>b, <1>t DEF FlushFont, ProfileOK, a
  <2>13. CASE Answering(p)
    <3>1. CASE ConsentAndSend(p)
      <4> DEFINE t == [a EXCEPT !.tried = @ \cup a.current]
      <4>1. t \in Instance /\ [t EXCEPT !.at = "Remove"] \in Instance
        BY <2>a DEF Instance, Places
      <4>2. PICK r \in a.current, ok \in BOOLEAN :
              /\ Deliver(r, ok)
              /\ IF ok THEN Becomes(p, [t EXCEPT !.at = "Remove"])
                 ELSE \E b \in advance(t, spool) : Becomes(p, [b EXCEPT !.at = "Open"])
        <5>1. t.current = a.current
          BY <2>a DEF Instance
        <5> QED
          BY <3>1, <5>1 DEF ConsentAndSend, a
      <4>3. ASSUME NEW b \in advance(t, spool) PROVE [b EXCEPT !.at = "Open"] \in Instance
        <5>1. b \in Instance
          BY <4>1, Advances
        <5> QED
          BY <5>1 DEF Instance, Places
      <4>4. app' \in [Procs -> Instance] /\ trial' \in Trials
        <5>1. CASE ok
          BY <5>1, <4>1, <4>2, <2>b
        <5>2. CASE ~ok
          BY <5>2, <4>2, <4>3, <2>b
        <5> QED
          BY <5>1, <5>2
      <4>5. sent' \subseteq Nat
        BY <4>2, <2>a, <1>t DEF Deliver
      <4> QED
        BY <3>1, <4>4, <4>5, <1>t DEF ConsentAndSend, ProfileOK
    <3>2. ASSUME Remove(p) \/ Decline(p)
          PROVE  ProfileOK'
      <4>1. PICK b \in advance(a, spool') : Becomes(p, [b EXCEPT !.at = "Open"])
        BY <3>2 DEF Remove, Decline, a
      <4>2. b \in Instance
        BY <2>a, <4>1, Advances
      <4>3. [b EXCEPT !.at = "Open"] \in Instance
        BY <4>2 DEF Instance, Places
      <4>4. spool' \subseteq Nat /\ sent' \subseteq Nat /\ declined' \subseteq Nat /\ captured' \in Nat
        BY <3>2, <2>a, <1>t DEF Remove, Decline, a
      <4> QED
        BY <3>2, <4>1, <4>3, <4>4, <2>b, <1>t DEF Remove, Decline, ProfileOK
    <3>3. ASSUME NEW answer \in {"Send", "Decline"},
                 NEW remember \in {"JustThisTime"} \cup (trial.modes \ {"AskEachTime"}),
                 Answer(p, answer, remember)
          PROVE  ProfileOK'
      <4>1. CASE remember = "JustThisTime"
        <5>1. [a EXCEPT !.at = answer] \in Instance
          BY <2>a DEF Instance, Places
        <5> QED
          BY <3>3, <4>1, <5>1, <2>b, <1>t DEF Answer, ProfileOK, a
      <4>2. CASE remember # "JustThisTime"
        <5>1. remember \in Modes
          BY <4>2, <1>t, TrialAssumption
        <5>2. Saves([a EXCEPT !.config.mode = remember], answer) \in Instance
          BY <2>a, <5>1 DEF Instance, Places, Saves, Config
        <5> QED
          BY <3>3, <4>2, <5>2, <2>b, <1>t DEF Answer, ProfileOK, a
      <4> QED
        BY <4>1, <4>2
    <3> QED
      BY <2>13, <3>1, <3>2, <3>3 DEF Answering
  <2>14. CASE Exit(p)
    <3>1. Saves(a, "Gone") \in Instance
      BY <2>a DEF Instance, Places, Saves
    <3> QED
      BY <2>14, <3>1, <2>b, <1>t DEF Exit, ProfileOK, a
  <2>15. CASE Panic(p)
    BY <2>15, FreshTyped, <2>b, <1>t DEF Panic, ProfileOK
  <2>16. CASE Kill(p)
    BY <2>16, FreshTyped, <2>b, <1>t DEF Kill, ProfileOK
  <2> QED
    BY <2>p, <2>1, <2>2, <2>3, <2>4, <2>5, <2>6, <2>7, <2>8, <2>9, <2>10, <2>11, <2>12, <2>13,
       <2>14, <2>15, <2>16 DEF Starting, Saving, Setting
<1> QED
  BY <1>s, <1>n

-----------------------------------------------------------------------------
(* Reports *)

\* What an instance is about to remove after a send, the server has; and it
\* has one report before it at a time.
SentFirst(a, had) ==
  /\ a.at \in {"AutoRemove", "Remove"} => a.current \subseteq had
  /\ \A r, s \in a.current : r = s

KeptInv == ProfileOK /\ ReportsKept /\ \A p \in Procs : SentFirst(app[p], sent)

LEMMA InitKept == ProfileInit => KeptInv
<1> SUFFICES ASSUME ProfileInit PROVE KeptInv
  OBVIOUS
<1>1. \A p \in Procs : SentFirst(app[p], sent)
  BY DEF ProfileInit, Fresh, SentFirst
<1>2. ReportsKept
  BY DEF ProfileInit, ReportsKept
<1> QED
  BY <1>1, <1>2, InitTyped DEF KeptInv

LEMMA NextKept == KeptInv /\ [ProfileNext]_profileVars => KeptInv'
<1> SUFFICES ASSUME KeptInv, [ProfileNext]_profileVars PROVE KeptInv'
  OBVIOUS
<1>o. ProfileOK'
  BY NextTyped DEF KeptInv
<1>t. /\ app \in [Procs -> Instance] /\ captured \in Nat /\ spool \subseteq Nat
      /\ file \in Contents
  BY DEF KeptInv, ProfileOK
<1>k. ReportsKept /\ \A p \in Procs : SentFirst(app[p], sent)
  BY DEF KeptInv
<1>s. CASE UNCHANGED profileVars
  BY <1>s, <1>o, <1>k DEF profileVars, KeptInv, ReportsKept, SentFirst
<1>n. CASE ProfileNext
  <2>p. PICK p \in Procs :
          Starting(p) \/ Saving(p) \/ Answering(p) \/ Setting(p) \/ Exit(p) \/ Panic(p) \/ Kill(p)
    BY <1>n DEF ProfileNext
  <2> DEFINE a == app[p]
  <2>a. a \in Instance /\ SentFirst(a, sent)
    BY <1>t, <1>k
  <2>b. ASSUME NEW b, Becomes(p, b), sent \subseteq sent', SentFirst(b, sent')
        PROVE  \A q \in Procs : SentFirst(app[q], sent)'
    <3>1. app'[p] = b /\ \A q \in Procs : q # p => app'[q] = app[q]
      BY <2>b, <1>t DEF Becomes
    <3> QED
      BY <3>1, <2>b, <1>k DEF SentFirst
  \* a step that neither sends nor removes
  <2>c. ASSUME NEW b, Becomes(p, b), UNCHANGED reports,
               b.at \notin {"AutoRemove", "Remove"}, \A r, s \in b.current : r = s
        PROVE  KeptInv'
    <3>1. SentFirst(b, sent')
      BY <2>c DEF SentFirst
    <3>2. \A q \in Procs : SentFirst(app[q], sent)'
      BY <3>1, <2>b, <2>c DEF reports
    <3> QED
      BY <3>2, <2>c, <1>o, <1>k DEF KeptInv, ReportsKept, reports
  <2> HIDE DEF a
  <2>1. CASE Launch(p)
    <3>1. PICK c \in load_config_from(file) :
            \E b \in drain_crash_spool([c EXCEPT !.drains = c.config.mode # "Off"]) : Becomes(p, b)
      BY <2>1 DEF Launch
    <3>2. c \in Instance /\ c.current = {}
      BY <3>1, <1>t, Loads
    <3> DEFINE d == [c EXCEPT !.drains = c.config.mode # "Off"]
    <3>3. d \in Instance /\ d.current = {}
      BY <3>2 DEF Instance
    <3>4. PICK b \in drain_crash_spool(d) : Becomes(p, b)
      BY <3>1
    <3>5. b.at \in {"Open", "AutoSend"} /\ \A r, s \in b.current : r = s
      <4> HIDE DEF d
      <4> QED
        BY <3>3, <3>4, <1>t, Drains
    <3> QED
      BY <2>1, <3>4, <3>5, <2>c DEF Launch
  <2>2. CASE AutoSend(p)
    <3>1. PICK r \in Oldest(a.queue) \cap spool, ok \in BOOLEAN :
            /\ Deliver(r, ok)
            /\ Becomes(p, [a EXCEPT !.tried = @ \cup {r}, !.queue = @ \ {r},
                                    !.at = IF ok THEN "AutoRemove" ELSE "AutoSend",
                                    !.current = IF ok THEN {r} ELSE {}])
      BY <2>2 DEF AutoSend, a
    <3> DEFINE b == [a EXCEPT !.tried = @ \cup {r}, !.queue = @ \ {r},
                             !.at = IF ok THEN "AutoRemove" ELSE "AutoSend",
                             !.current = IF ok THEN {r} ELSE {}]
    <3>2. SentFirst(b, sent')
      BY <3>1, <2>a DEF SentFirst, Deliver, Instance
    <3>3. sent \subseteq sent'
      BY <3>1 DEF Deliver
    <3>4. \A q \in Procs : SentFirst(app[q], sent)'
      <4> HIDE DEF b
      <4> QED
        BY <3>1, <3>2, <3>3, <2>b DEF b
    <3> QED
      BY <2>2, <3>3, <3>4, <1>o, <1>k DEF AutoSend, KeptInv, ReportsKept
  <2>3. CASE AutoSkip(p)
    <3>1. PICK r : Becomes(p, [a EXCEPT !.queue = @ \ {r}])
      BY <2>3 DEF AutoSkip, a
    <3> DEFINE b == [a EXCEPT !.queue = @ \ {r}]
    <3>2. b.at = "AutoSend" /\ b.current = a.current
      BY <2>a, <2>3 DEF Instance, AutoSkip, a
    <3>3. Becomes(p, b) /\ UNCHANGED reports
      BY <2>3, <3>1 DEF AutoSkip
    <3> HIDE DEF b
    <3> QED
      BY <3>2, <3>3, <2>a, <2>c DEF SentFirst
  <2>4. CASE AutoRemove(p)
    <3> DEFINE b == [a EXCEPT !.at = "AutoSend", !.current = {}]
    <3>1. SentFirst(b, sent')
      BY <2>a DEF SentFirst, Instance
    <3>2. \A q \in Procs : SentFirst(app[q], sent)'
      BY <2>4, <3>1, <2>b DEF AutoRemove, a
    <3>3. a.current \subseteq sent
      BY <2>4, <2>a DEF AutoRemove, SentFirst, a
    <3> QED
      BY <2>4, <3>2, <3>3, <1>o, <1>k DEF AutoRemove, KeptInv, ReportsKept, a
  <2>5. CASE AutoEnds(p)
    <3> DEFINE b == [a EXCEPT !.at = "Open"]
    <3>1. b.at = "Open" /\ b.current = a.current
      BY <2>a DEF Instance
    <3>2. Becomes(p, b) /\ UNCHANGED reports
      BY <2>5 DEF AutoEnds, a
    <3> HIDE DEF b
    <3> QED
      BY <3>1, <3>2, <2>a, <2>c DEF SentFirst
  <2>6. CASE Create(p)
    <3> DEFINE b == [a EXCEPT !.at = "Write", !.handle = "tmp"]
    <3>1. b.at = "Write" /\ b.current = a.current
      BY <2>a DEF Instance
    <3>2. Becomes(p, b) /\ UNCHANGED reports
      BY <2>6 DEF Create, a
    <3> HIDE DEF b
    <3> QED
      BY <3>1, <3>2, <2>a, <2>c DEF SentFirst
  <2>7. CASE Write(p)
    <3> DEFINE b == [a EXCEPT !.at = "Rename", !.handle = "none"]
    <3>1. b.at = "Rename" /\ b.current = a.current
      BY <2>a DEF Instance
    <3>2. Becomes(p, b) /\ UNCHANGED reports
      BY <2>7 DEF Write, a
    <3> HIDE DEF b
    <3> QED
      BY <3>1, <3>2, <2>a, <2>c DEF SentFirst
  \* the end of a save: nobody sends or removes for it
  <2>8. CASE Rename(p) \/ SaveFails(p)
    <3>1. UNCHANGED reports
      BY <2>8 DEF Rename, SaveFails
    <3>2. ASSUME NEW ok \in BOOLEAN
          PROVE  Saved(a, ok).at \in {"Open", "Send", "Decline", "Gone"}
                 /\ Saved(a, ok).current \in {{}, a.current}
      BY <2>a DEF Saved, Instance, Fresh
    <3>3. ASSUME NEW x \in Instance, NEW was, NEW now
          PROVE  Follow(x, was, now).at = x.at /\ Follow(x, was, now).current = x.current
      BY DEF Follow, Instance
    <3>4. ASSUME NEW q \in Procs
          PROVE  \/ /\ app'[q].at \in {"Open", "Send", "Decline", "Gone"}
                    /\ app'[q].current \in {{}, app[q].current}
                 \/ app'[q].at = app[q].at /\ app'[q].current = app[q].current
      <4>1. CASE q = p
        <5>1. app'[p] \in {Saved(a, ok) : ok \in BOOLEAN}
          BY <2>8 DEF Rename, SaveFails, a
        <5> QED
          BY <4>1, <5>1, <3>2 DEF a
      <4>2. CASE q # p
        <5>1. Follow(app[q], "file", "orphan") \in Instance
          BY <1>t, FollowTyped
        <5>2. app'[q] \in {app[q], Follow(app[q], "tmp", "orphan"),
                           Follow(Follow(app[q], "file", "orphan"), "tmp", "file")}
          BY <2>8, <4>2 DEF Rename, SaveFails
        <5> QED
          BY <1>t, <5>1, <5>2, <3>3
      <4> QED
        BY <4>1, <4>2
    <3>5. \A q \in Procs : SentFirst(app[q], sent)'
      BY <3>1, <3>4, <1>k DEF SentFirst, reports
    <3> QED
      BY <3>1, <3>5, <1>o, <1>k DEF KeptInv, ReportsKept, reports
  <2>9. CASE Setting(p) \/ Exit(p)
    <3>1. PICK b : Becomes(p, b) /\ b.at \in {"Open", "Create"} /\ b.current = a.current
      <4>1. CASE \E mode \in Modes : Change(p, mode)
        <5>1. PICK mode \in Modes : Change(p, mode)
          BY <4>1
        <5> DEFINE b == Saves([a EXCEPT !.config.mode = mode], "Open")
        <5>2. b.at = "Create" /\ b.current = a.current
          BY <2>a DEF Instance, Saves, Config
        <5> QED
          BY <5>1, <5>2 DEF Change, a
      <4>2. CASE \E font \in Fonts : Zoom(p, font)
        <5>1. PICK font \in Fonts : Zoom(p, font)
          BY <4>2
        <5> DEFINE b == [a EXCEPT !.config.font = font, !.fontSave = TRUE]
        <5>2. b.at = "Open" /\ b.current = a.current
          BY <5>1, <2>a DEF Instance, Config, Zoom, IsOpen, a
        <5> QED
          BY <5>1, <5>2 DEF Zoom, a
      <4>3. CASE FlushFont(p)
        <5> DEFINE b == Saves([a EXCEPT !.fontSave = FALSE], "Open")
        <5>1. b.at = "Create" /\ b.current = a.current
          BY <2>a DEF Instance, Saves
        <5> QED
          BY <4>3, <5>1 DEF FlushFont, a
      <4>4. CASE Exit(p)
        <5> DEFINE b == Saves(a, "Gone")
        <5>1. b.at = "Create" /\ b.current = a.current
          BY <2>a DEF Instance, Saves
        <5> QED
          BY <4>4, <5>1 DEF Exit, a
      <4> QED
        BY <2>9, <4>1, <4>2, <4>3, <4>4 DEF Setting
    <3>2. UNCHANGED reports
      BY <2>9 DEF Setting, Change, Zoom, FlushFont, Exit
    <3> QED
      BY <3>1, <3>2, <2>a, <2>c DEF SentFirst
  <2>10. ASSUME NEW answer \in {"Send", "Decline"}, NEW remember, Answer(p, answer, remember)
         PROVE  KeptInv'
    <3> DEFINE b == IF remember = "JustThisTime" THEN [a EXCEPT !.at = answer]
                    ELSE Saves([a EXCEPT !.config.mode = remember], answer)
    <3>1. b.at \in {"Send", "Decline", "Create"} /\ b.current = a.current
      BY <2>a, <2>10 DEF Instance, Saves, Config
    <3> QED
      BY <2>10, <3>1, <2>a, <2>c DEF Answer, SentFirst, a
  <2>11. CASE ConsentAndSend(p)
    <3> DEFINE t == [a EXCEPT !.tried = @ \cup a.current]
    <3>1. t \in Instance /\ t.current = a.current
      BY <2>a DEF Instance
    <3>2. PICK r \in a.current, ok \in BOOLEAN :
            /\ Deliver(r, ok)
            /\ IF ok THEN Becomes(p, [t EXCEPT !.at = "Remove"])
               ELSE \E b \in advance(t, spool) : Becomes(p, [b EXCEPT !.at = "Open"])
      BY <2>11, <3>1 DEF ConsentAndSend, a
    <3>3. sent \subseteq sent'
      BY <3>2 DEF Deliver
    <3>4. ASSUME ok PROVE \A q \in Procs : SentFirst(app[q], sent)'
      <4> DEFINE b == [t EXCEPT !.at = "Remove"]
      <4>1. b.current = a.current
        BY <3>1 DEF Instance
      <4>2. a.current \subseteq sent'
        BY <3>2, <3>4, <2>a DEF Deliver, SentFirst
      <4>3. SentFirst(b, sent')
        BY <4>1, <4>2, <2>a DEF SentFirst
      <4> QED
        BY <3>2, <3>3, <3>4, <4>3, <2>b
    <3>5. ASSUME ~ok PROVE \A q \in Procs : SentFirst(app[q], sent)'
      <4>1. PICK c \in advance(t, spool) : Becomes(p, [c EXCEPT !.at = "Open"])
        BY <3>2, <3>5
      <4> HIDE DEF t
      <4>2. c \in Instance /\ \A x, y \in c.current : x = y
        BY <3>1, <4>1, Advances
      <4>3. SentFirst([c EXCEPT !.at = "Open"], sent')
        BY <4>2 DEF SentFirst, Instance
      <4> QED
        BY <3>3, <4>1, <4>3, <2>b
    <3> QED
      BY <2>11, <3>3, <3>4, <3>5, <1>o, <1>k DEF ConsentAndSend, KeptInv, ReportsKept
  <2>12. CASE Remove(p) \/ Decline(p)
    <3>1. PICK c \in advance(a, spool') : Becomes(p, [c EXCEPT !.at = "Open"])
      BY <2>12 DEF Remove, Decline, a
    <3>2. c \in Instance /\ \A x, y \in c.current : x = y
      BY <2>a, <3>1, Advances
    <3>3. SentFirst([c EXCEPT !.at = "Open"], sent')
      BY <3>2 DEF SentFirst, Instance
    <3>4. \A q \in Procs : SentFirst(app[q], sent)'
      BY <2>12, <3>1, <3>3, <2>b DEF Remove, Decline
    <3>5. CASE Remove(p)
      <4>1. a.current \subseteq sent
        BY <3>5, <2>a DEF Remove, SentFirst, a
      <4> QED
        BY <3>4, <3>5, <4>1, <1>o, <1>k DEF Remove, KeptInv, ReportsKept, a
    <3>6. CASE Decline(p)
      BY <3>4, <3>6, <1>o, <1>k DEF Decline, KeptInv, ReportsKept, a
    <3> QED
      BY <2>12, <3>5, <3>6
  <2>13. CASE Panic(p)
    <3>1. SentFirst(Fresh, sent')
      BY DEF SentFirst, Fresh
    <3>2. \A q \in Procs : SentFirst(app[q], sent)'
      BY <2>13, <3>1, <2>b DEF Panic
    <3>3. 1 .. captured' \subseteq spool' \cup sent' \cup declined'
      BY <2>13, <1>k, <1>t DEF Panic, ReportsKept
    <3> QED
      BY <3>2, <3>3, <1>o DEF KeptInv, ReportsKept
  <2>14. CASE Kill(p)
    BY <2>14, <2>c DEF Kill, Fresh
  <2> QED
    BY <2>p, <2>1, <2>2, <2>3, <2>4, <2>5, <2>6, <2>7, <2>8, <2>9, <2>10, <2>11, <2>12, <2>13,
       <2>14 DEF Starting, Saving, Answering
<1> QED
  BY <1>s, <1>n

-----------------------------------------------------------------------------
(* One instance *)

\* Where a save stands, and that at rest it has been done.
DiskOK(a, f, t) ==
  /\ a.at = "Write" => a.handle = "tmp" /\ t = Torn
  /\ a.at = "Rename" => t = a.config
  /\ a.at = "Gone" => ~a.fontSave
  /\ a.at \notin {"Down", "Create", "Write", "Rename"} /\ ~a.fontSave /\ ~a.failed
       => f = a.config \/ (f \in {Absent, Torn} /\ a.config = Default)

\* Nobody else takes reports away: what is queued or shown is there, the dialog
\* closes on an empty queue, and what is not queued any more was tried.
OfferOK(a, rs) ==
  /\ a.queue \subseteq rs /\ a.current \subseteq rs
  /\ \A r \in a.queue : r \notin a.current
  /\ a.current = {} /\ a.at # "AutoSend" => a.queue = {}
  /\ a.at = "AutoSend" => a.current = {}
  /\ a.drains => rs \subseteq a.tried \cup a.queue \cup a.current

Idle == \A q \in Procs : q \notin trial.procs => app[q].at = "Down"

WellAlone ==
  Alone => /\ file \in Config \cup {trial.config}
           /\ \A p \in trial.procs : DiskOK(app[p], file, tmp) /\ OfferOK(app[p], spool)

AloneInv == ProfileOK /\ Idle /\ WellAlone

LEMMA InitAlone == ProfileInit => AloneInv
<1> SUFFICES ASSUME ProfileInit PROVE AloneInv
  OBVIOUS
<1>1. trial.procs \subseteq Procs
  BY TrialAssumption DEF ProfileInit
<1>2. ASSUME NEW p \in trial.procs
      PROVE  DiskOK(app[p], file, tmp) /\ OfferOK(app[p], spool)
  BY <1>1 DEF ProfileInit, Fresh, DiskOK, OfferOK
<1>3. Idle
  BY DEF ProfileInit, Fresh, Idle
<1>4. file \in Config \cup {trial.config}
  BY DEF ProfileInit
<1> QED
  BY <1>2, <1>3, <1>4, InitTyped DEF AloneInv, WellAlone

LEMMA NextAlone == AloneInv /\ [ProfileNext]_profileVars => AloneInv'
<1> SUFFICES ASSUME AloneInv, [ProfileNext]_profileVars PROVE AloneInv'
  OBVIOUS
<1>o. ProfileOK'
  BY NextTyped DEF AloneInv
<1>t. /\ app \in [Procs -> Instance] /\ spool \subseteq Nat
      /\ file \in Contents /\ tmp \in Contents /\ trial.procs \subseteq Procs
  BY TrialAssumption DEF AloneInv, ProfileOK
<1>k. Idle /\ WellAlone
  BY DEF AloneInv
<1>s. CASE UNCHANGED profileVars
  BY <1>s, <1>o, <1>k DEF profileVars, AloneInv, Idle, WellAlone, Alone
<1>n. CASE ProfileNext
  <2>p. PICK p \in Procs :
          Starting(p) \/ Saving(p) \/ Answering(p) \/ Setting(p) \/ Exit(p) \/ Panic(p) \/ Kill(p)
    BY <1>n DEF ProfileNext
  <2> DEFINE a == app[p]
  <2>a. /\ a \in Instance /\ a.config \in Config /\ a.queue \subseteq Nat /\ a.current \subseteq Nat
        /\ a.at # "Down" => p \in trial.procs
    BY <1>t, <1>k DEF Instance, Idle
  \* the instance alone
  <2>c. ASSUME Alone, p \in trial.procs
        PROVE  /\ file \in Config \cup {trial.config}
               /\ DiskOK(a, file, tmp) /\ OfferOK(a, spool)
               /\ trial.procs = {p}
    BY <2>c, <1>k DEF WellAlone, Alone
  <2>b. ASSUME NEW b, Becomes(p, b), p \in trial.procs,
               Alone => /\ file' \in Config \cup {trial.config}
                        /\ DiskOK(b, file', tmp') /\ OfferOK(b, spool')
        PROVE  AloneInv'
    <3>1. app'[p] = b /\ trial' = trial /\ \A q \in Procs : q # p => app'[q] = app[q]
      BY <2>b, <1>t DEF Becomes
    <3>2. Idle'
      BY <3>1, <2>b, <1>k DEF Idle
    <3>3. WellAlone'
      BY <3>1, <2>b, <2>c DEF WellAlone, Alone
    <3> QED
      BY <3>2, <3>3, <1>o DEF AloneInv
  <2> HIDE DEF a
  <2> USE DEF onDisk, reports
  <2>1. CASE Launch(p)
    <3>1. PICK c \in load_config_from(file) :
            \E b \in drain_crash_spool([c EXCEPT !.drains = c.config.mode # "Off"]) : Becomes(p, b)
      BY <2>1 DEF Launch
    <3>2. /\ c \in Instance /\ c.queue = {} /\ c.current = {} /\ ~c.fontSave
          /\ ~c.failed => c.config = file \/ (file \in {Absent, Torn} /\ c.config = Default)
      BY <3>1, <1>t, Loads
    <3> DEFINE d == [c EXCEPT !.drains = c.config.mode # "Off"]
    <3>3. /\ d \in Instance /\ d.queue = {} /\ d.current = {} /\ ~d.fontSave
          /\ d.config = c.config /\ d.failed = c.failed
          /\ d.config.mode = "Off" => ~d.drains
      BY <3>2 DEF Instance
    <3>4. PICK b \in drain_crash_spool(d) : Becomes(p, b)
      BY <3>1
    <3> HIDE DEF d
    <3>5. /\ b \in Instance
          /\ SameRest(d, b)
          /\ \/ b.at = "Open" /\ d.config.mode = "Off" /\ b.queue = d.queue /\ b.current = d.current
             \/ b.at = "AutoSend" /\ b.queue = spool /\ b.current = d.current
             \/ b.at = "Open" /\ spool = {} /\ b.queue = {} /\ b.current = {}
             \/ b.at = "Open" /\ \E r \in spool : b.queue = spool \ {r} /\ b.current = {r}
      BY <3>3, <3>4, <1>t, Drains
    <3>6. b.config = d.config /\ b.failed = d.failed /\ b.fontSave = d.fontSave /\ b.drains = d.drains
      BY <3>5 DEF SameRest
    <3>7. DiskOK(b, file, tmp)
      BY <3>2, <3>3, <3>5, <3>6 DEF DiskOK
    <3>8. OfferOK(b, spool)
      BY <3>3, <3>5, <3>6 DEF OfferOK
    <3>9. p \in trial.procs /\ UNCHANGED <<file, tmp, spool>>
      BY <2>1 DEF Launch
    <3> QED
      BY <3>4, <3>7, <3>8, <3>9, <2>c, <2>b
  <2>2. CASE AutoSend(p)
    <3>1. PICK r \in Oldest(a.queue) \cap spool, ok \in BOOLEAN :
            Becomes(p, [a EXCEPT !.tried = @ \cup {r}, !.queue = @ \ {r},
                                 !.at = IF ok THEN "AutoRemove" ELSE "AutoSend",
                                 !.current = IF ok THEN {r} ELSE {}])
      BY <2>2 DEF AutoSend, a
    <3> DEFINE b == [a EXCEPT !.tried = @ \cup {r}, !.queue = @ \ {r},
                             !.at = IF ok THEN "AutoRemove" ELSE "AutoSend",
                             !.current = IF ok THEN {r} ELSE {}]
    <3>2. a.at = "AutoSend" /\ p \in trial.procs /\ UNCHANGED <<file, tmp, spool>>
      BY <2>2, <2>a DEF AutoSend, a
    <3>3. /\ b.tried = a.tried \cup {r} /\ b.queue = a.queue \ {r} /\ b.config = a.config
          /\ b.at \in {"AutoRemove", "AutoSend"} /\ b.fontSave = a.fontSave /\ b.failed = a.failed
          /\ b.drains = a.drains /\ (b.at = "AutoRemove" => b.current = {r})
          /\ (b.at = "AutoSend" => b.current = {})
      BY <2>a DEF Instance
    <3>4. Becomes(p, b) /\ r \in spool
      BY <3>1
    <3> HIDE DEF b
    <3>5. DiskOK(a, file, tmp) => DiskOK(b, file, tmp)
      BY <3>2, <3>3 DEF DiskOK
    <3>6. OfferOK(a, spool) => OfferOK(b, spool)
      BY <3>2, <3>3, <3>4 DEF OfferOK
    <3> QED
      BY <3>2, <3>4, <3>5, <3>6, <2>c, <2>b
  <2>3. CASE AutoSkip(p)
    <3>1. PICK r \in Oldest(a.queue) \ spool : Becomes(p, [a EXCEPT !.queue = @ \ {r}])
      BY <2>3 DEF AutoSkip, a
    <3> DEFINE b == [a EXCEPT !.queue = @ \ {r}]
    <3>2. p \in trial.procs /\ UNCHANGED <<file, tmp, spool>>
      BY <2>3, <2>a DEF AutoSkip, a
    <3>3. ~OfferOK(a, spool)
      BY <3>1 DEF OfferOK, Oldest
    <3>4. Becomes(p, b)
      BY <3>1
    <3> HIDE DEF b
    <3> QED
      BY <3>2, <3>3, <3>4, <2>c, <2>b
  <2>4. CASE AutoRemove(p)
    <3> DEFINE b == [a EXCEPT !.at = "AutoSend", !.current = {}]
    <3>1. /\ b.at = "AutoSend" /\ b.current = {} /\ b.queue = a.queue /\ b.tried = a.tried
          /\ b.config = a.config /\ b.fontSave = a.fontSave /\ b.failed = a.failed
          /\ b.drains = a.drains
      BY <2>a DEF Instance
    <3>2. /\ p \in trial.procs /\ UNCHANGED <<file, tmp>> /\ spool' = spool \ a.current
          /\ Becomes(p, b) /\ a.at = "AutoRemove"
      BY <2>4, <2>a DEF AutoRemove, a
    <3> HIDE DEF b
    <3>3. DiskOK(a, file, tmp) => DiskOK(b, file, tmp)
      BY <3>1, <3>2 DEF DiskOK
    <3>4. OfferOK(a, spool) => OfferOK(b, spool')
      BY <3>1, <3>2 DEF OfferOK
    <3> QED
      BY <3>2, <3>3, <3>4, <2>c, <2>b
  <2>5. CASE AutoEnds(p)
    <3> DEFINE b == [a EXCEPT !.at = "Open"]
    <3>1. /\ b.at = "Open" /\ b.current = a.current /\ b.queue = a.queue /\ b.tried = a.tried
          /\ b.config = a.config /\ b.fontSave = a.fontSave /\ b.failed = a.failed
          /\ b.drains = a.drains
      BY <2>a DEF Instance
    <3>2. /\ p \in trial.procs /\ UNCHANGED <<file, tmp, spool>>
          /\ Becomes(p, b) /\ a.at = "AutoSend" /\ a.queue = {}
      BY <2>5, <2>a DEF AutoEnds, a
    <3> HIDE DEF b
    <3>3. DiskOK(a, file, tmp) => DiskOK(b, file, tmp)
      BY <3>1, <3>2 DEF DiskOK
    <3>4. OfferOK(a, spool) => OfferOK(b, spool)
      BY <3>1, <3>2 DEF OfferOK
    <3> QED
      BY <3>2, <3>3, <3>4, <2>c, <2>b
  <2>6. CASE Create(p)
    <3> DEFINE b == [a EXCEPT !.at = "Write", !.handle = "tmp"]
    <3>1. /\ b.at = "Write" /\ b.handle = "tmp" /\ b.current = a.current /\ b.queue = a.queue
          /\ b.tried = a.tried /\ b.drains = a.drains
      BY <2>a DEF Instance
    <3>2. /\ p \in trial.procs /\ UNCHANGED <<file, spool>> /\ tmp' = Torn
          /\ Becomes(p, b) /\ a.at = "Create"
      BY <2>6, <2>a DEF Create, a
    <3> HIDE DEF b
    <3>3. DiskOK(b, file, tmp')
      BY <3>1, <3>2 DEF DiskOK
    <3>4. OfferOK(a, spool) => OfferOK(b, spool)
      BY <3>1, <3>2 DEF OfferOK
    <3> QED
      BY <3>2, <3>3, <3>4, <2>c, <2>b
  <2>7. CASE Write(p)
    <3> DEFINE b == [a EXCEPT !.at = "Rename", !.handle = "none"]
    <3>1. /\ b.at = "Rename" /\ b.config = a.config /\ b.current = a.current /\ b.queue = a.queue
          /\ b.tried = a.tried /\ b.drains = a.drains
      BY <2>a DEF Instance
    <3>2. /\ p \in trial.procs /\ UNCHANGED spool /\ Becomes(p, b) /\ a.at = "Write"
      BY <2>7, <2>a DEF Write, a
    <3> HIDE DEF b
    <3>3. DiskOK(a, file, tmp) => file' = file /\ tmp' = a.config
      BY <2>7, <3>2, ContentsAssumption DEF DiskOK, Write, Mixed, a
    <3>4. DiskOK(a, file, tmp) => DiskOK(b, file', tmp')
      BY <3>1, <3>3 DEF DiskOK
    <3>5. OfferOK(a, spool) => OfferOK(b, spool)
      BY <3>1, <3>2 DEF OfferOK
    <3> QED
      BY <3>2, <3>3, <3>4, <3>5, <2>c, <2>b
  <2>8. CASE Rename(p) \/ SaveFails(p)
    <3>1. /\ a.at \in {"Create", "Write", "Rename"} /\ p \in trial.procs
          /\ UNCHANGED <<trial, spool>>
      BY <2>8, <2>a DEF Rename, SaveFails, a
    <3>2. PICK ok \in BOOLEAN :
            /\ app'[p] = Saved(a, ok)
            /\ ok => Rename(p)
            /\ ~ok => SaveFails(p)
      BY <2>8 DEF Rename, SaveFails, a
    <3> DEFINE b == Saved(a, ok)
    <3>3. /\ b.failed = ~ok /\ b.config = a.config
          /\ \/ b.at = "Gone" /\ ~b.fontSave /\ b.queue = {} /\ b.current = {} /\ ~b.drains
             \/ /\ b.at \in {"Open", "Send", "Decline"} /\ b.fontSave = a.fontSave
                /\ b.queue = a.queue /\ b.current = a.current /\ b.drains = a.drains
                /\ b.tried = a.tried
      BY <2>a DEF Saved, Instance, Fresh
    <3> HIDE DEF b
    <3>4. ASSUME NEW x \in Instance, NEW was, NEW now PROVE Follow(x, was, now).at = x.at
      BY DEF Follow, Instance
    <3>5. \A q \in Procs : q # p => app'[q].at = app[q].at
      <4> SUFFICES ASSUME NEW q \in Procs, q # p PROVE app'[q].at = app[q].at
        OBVIOUS
      <4>1. Follow(app[q], "file", "orphan") \in Instance
        BY <1>t, FollowTyped
      <4>2. app'[q] \in {app[q], Follow(app[q], "tmp", "orphan"),
                         Follow(Follow(app[q], "file", "orphan"), "tmp", "file")}
        BY <2>8 DEF Rename, SaveFails
      <4> QED
        BY <1>t, <4>1, <4>2, <3>4
    <3>6. Idle'
      BY <3>1, <3>5, <1>k DEF Idle
    <3>7. ASSUME Alone
          PROVE  /\ file' \in Config \cup {trial.config}
                 /\ DiskOK(b, file', tmp') /\ OfferOK(b, spool)
      <4>1. DiskOK(a, file, tmp) /\ OfferOK(a, spool) /\ file \in Config \cup {trial.config}
        BY <3>1, <3>7, <2>c
      <4>2. OfferOK(b, spool)
        BY <3>1, <3>3, <4>1 DEF OfferOK
      <4>3. CASE ok
        <5>1. file' = a.config
          BY <3>2, <4>1, <4>3 DEF Rename, DiskOK, a
        <5> QED
          BY <3>3, <4>2, <4>3, <5>1, <2>a DEF DiskOK
      <4>4. CASE ~ok
        <5>1. file' = file
          BY <3>2, <4>1, <4>4 DEF SaveFails, DiskOK, a
        <5> QED
          BY <3>3, <4>1, <4>2, <4>4, <5>1 DEF DiskOK
      <4> QED
        BY <4>3, <4>4
    <3>8. WellAlone'
      BY <3>1, <3>2, <3>7, <2>c DEF WellAlone, Alone, b
    <3> QED
      BY <3>6, <3>8, <1>o DEF AloneInv
  \* the user's steps that begin a save, or wait for one
  <2>9. CASE Setting(p) \/ Exit(p)
    <3>1. PICK b :
            /\ Becomes(p, b) /\ (b.at = "Create" \/ (b.at = "Open" /\ b.fontSave))
            /\ b.current = a.current /\ b.queue = a.queue /\ b.drains = a.drains
            /\ b.tried = a.tried
      <4>1. CASE \E mode \in Modes : Change(p, mode)
        <5>1. PICK mode \in Modes : Change(p, mode)
          BY <4>1
        <5> DEFINE b == Saves([a EXCEPT !.config.mode = mode], "Open")
        <5>2. /\ b.at = "Create" /\ b.current = a.current /\ b.queue = a.queue
              /\ b.drains = a.drains /\ b.tried = a.tried
          BY <2>a DEF Instance, Saves, Config
        <5> QED
          BY <5>1, <5>2 DEF Change, a
      <4>2. CASE \E font \in Fonts : Zoom(p, font)
        <5>1. PICK font \in Fonts : Zoom(p, font)
          BY <4>2
        <5> DEFINE b == [a EXCEPT !.config.font = font, !.fontSave = TRUE]
        <5>2. /\ b.at = "Open" /\ b.fontSave /\ b.current = a.current /\ b.queue = a.queue
              /\ b.drains = a.drains /\ b.tried = a.tried
          BY <5>1, <2>a DEF Instance, Config, Zoom, IsOpen, a
        <5> QED
          BY <5>1, <5>2 DEF Zoom, a
      <4>3. CASE FlushFont(p)
        <5> DEFINE b == Saves([a EXCEPT !.fontSave = FALSE], "Open")
        <5>1. /\ b.at = "Create" /\ b.current = a.current /\ b.queue = a.queue
              /\ b.drains = a.drains /\ b.tried = a.tried
          BY <2>a DEF Instance, Saves
        <5> QED
          BY <4>3, <5>1 DEF FlushFont, a
      <4>4. CASE Exit(p)
        <5> DEFINE b == Saves(a, "Gone")
        <5>1. /\ b.at = "Create" /\ b.current = a.current /\ b.queue = a.queue
              /\ b.drains = a.drains /\ b.tried = a.tried
          BY <2>a DEF Instance, Saves
        <5> QED
          BY <4>4, <5>1 DEF Exit, a
      <4> QED
        BY <2>9, <4>1, <4>2, <4>3, <4>4 DEF Setting
    <3>2. UNCHANGED <<file, tmp, spool>> /\ p \in trial.procs /\ a.at = "Open"
      BY <2>9, <2>a DEF Setting, Change, Zoom, FlushFont, Exit, IsOpen, a
    <3>3. DiskOK(b, file, tmp)
      BY <3>1 DEF DiskOK
    <3>4. OfferOK(a, spool) => OfferOK(b, spool)
      BY <3>1, <3>2 DEF OfferOK
    <3> QED
      BY <3>1, <3>2, <3>3, <3>4, <2>c, <2>b
  <2>10. ASSUME NEW answer \in {"Send", "Decline"}, NEW remember, Answer(p, answer, remember)
         PROVE  AloneInv'
    <3> DEFINE b == IF remember = "JustThisTime" THEN [a EXCEPT !.at = answer]
                    ELSE Saves([a EXCEPT !.config.mode = remember], answer)
    <3>1. /\ b.current = a.current /\ b.queue = a.queue /\ b.drains = a.drains
          /\ b.tried = a.tried /\ b.at \in {"Create", "Send", "Decline"}
          /\ \/ b.at = "Create"
             \/ b.config = a.config /\ b.fontSave = a.fontSave /\ b.failed = a.failed
      BY <2>a DEF Instance, Saves, Config
    <3>2. /\ UNCHANGED <<file, tmp, spool>> /\ p \in trial.procs /\ a.at = "Open"
          /\ Becomes(p, b)
      BY <2>10, <2>a DEF Answer, IsOpen, a
    <3> HIDE DEF b
    <3>3. DiskOK(a, file, tmp) => DiskOK(b, file, tmp)
      BY <3>1, <3>2 DEF DiskOK
    <3>4. OfferOK(a, spool) => OfferOK(b, spool)
      BY <3>1, <3>2 DEF OfferOK
    <3> QED
      BY <3>2, <3>3, <3>4, <2>c, <2>b
  <2>11. CASE ConsentAndSend(p)
    <3> DEFINE t == [a EXCEPT !.tried = @ \cup a.current]
    <3>1. /\ t \in Instance /\ t.current = a.current /\ t.queue = a.queue /\ t.drains = a.drains
          /\ t.tried = a.tried \cup a.current /\ t.config = a.config /\ t.at = a.at
          /\ t.fontSave = a.fontSave /\ t.failed = a.failed
      BY <2>a DEF Instance
    <3>2. PICK r \in a.current, ok \in BOOLEAN :
            IF ok THEN Becomes(p, [t EXCEPT !.at = "Remove"])
            ELSE \E b \in advance(t, spool) : Becomes(p, [b EXCEPT !.at = "Open"])
      BY <2>11, <3>1 DEF ConsentAndSend, a
    <3>3. UNCHANGED <<file, tmp, spool>> /\ p \in trial.procs /\ a.at = "Send"
      BY <2>11, <3>1, <2>a DEF ConsentAndSend, a
    <3> HIDE DEF t
    <3>4. CASE ok
      <4> DEFINE b == [t EXCEPT !.at = "Remove"]
      <4>1. /\ b.current = t.current /\ b.queue = t.queue /\ b.drains = t.drains
            /\ b.tried = t.tried /\ b.config = t.config /\ b.at = "Remove"
            /\ b.fontSave = t.fontSave /\ b.failed = t.failed
        BY <3>1 DEF Instance
      <4>2. Becomes(p, b)
        BY <3>2, <3>4
      <4> HIDE DEF b
      <4>3. DiskOK(a, file, tmp) => DiskOK(b, file, tmp)
        BY <3>1, <3>3, <4>1 DEF DiskOK
      <4>4. OfferOK(a, spool) => OfferOK(b, spool)
        BY <3>1, <3>2, <3>3, <4>1 DEF OfferOK
      <4> QED
        BY <3>3, <4>2, <4>3, <4>4, <2>c, <2>b
    <3>5. CASE ~ok
      <4>1. PICK c \in advance(t, spool) : Becomes(p, [c EXCEPT !.at = "Open"])
        BY <3>2, <3>5
      <4>2. /\ c \in Instance
            /\ SameRest(t, c)
            /\ \/ t.queue = {} /\ c.queue = {} /\ c.current = {}
               \/ \E s \in t.queue : c.queue = t.queue \ {s} /\ c.current = {s} \cap spool
        BY <3>1, <4>1, Advances
      <4> DEFINE b == [c EXCEPT !.at = "Open"]
      <4>3. /\ b.queue = c.queue /\ b.current = c.current /\ b.at = "Open" /\ b.tried = t.tried
            /\ b.drains = t.drains /\ b.config = t.config /\ b.fontSave = t.fontSave
            /\ b.failed = t.failed
        BY <4>2 DEF Instance, SameRest
      <4>4. Becomes(p, b)
        BY <4>1
      <4> HIDE DEF b
      <4>5. DiskOK(a, file, tmp) => DiskOK(b, file, tmp)
        BY <3>1, <3>3, <4>3 DEF DiskOK
      <4>6. OfferOK(a, spool) => OfferOK(b, spool)
        BY <3>1, <3>3, <4>2, <4>3 DEF OfferOK
      <4> QED
        BY <3>3, <4>4, <4>5, <4>6, <2>c, <2>b
    <3> QED
      BY <3>4, <3>5
  <2>12. CASE Remove(p) \/ Decline(p)
    <3>1. PICK c \in advance(a, spool') : Becomes(p, [c EXCEPT !.at = "Open"])
      BY <2>12 DEF Remove, Decline, a
    <3>2. /\ c \in Instance
          /\ SameRest(a, c)
          /\ \/ a.queue = {} /\ c.queue = {} /\ c.current = {}
             \/ \E s \in a.queue : c.queue = a.queue \ {s} /\ c.current = {s} \cap spool'
      BY <2>a, <3>1, Advances
    <3> DEFINE b == [c EXCEPT !.at = "Open"]
    <3>3. /\ b.queue = c.queue /\ b.current = c.current /\ b.at = "Open" /\ b.tried = a.tried
          /\ b.drains = a.drains /\ b.config = a.config /\ b.fontSave = a.fontSave
          /\ b.failed = a.failed
      BY <3>2 DEF Instance, SameRest
    <3>4. Becomes(p, b)
      BY <3>1
    <3> HIDE DEF b
    <3>5. /\ UNCHANGED <<file, tmp>> /\ p \in trial.procs /\ a.at \in {"Remove", "Decline"}
          /\ spool' = spool \ a.current
      BY <2>12, <2>a DEF Remove, Decline, a
    <3>6. DiskOK(a, file, tmp) => DiskOK(b, file, tmp)
      BY <3>3, <3>5 DEF DiskOK
    <3>7. OfferOK(a, spool) => OfferOK(b, spool')
      BY <3>2, <3>3, <3>5 DEF OfferOK
    <3> QED
      BY <3>4, <3>5, <3>6, <3>7, <2>c, <2>b
  <2>13. CASE Panic(p) \/ Kill(p)
    <3>1. UNCHANGED <<file, tmp>> /\ p \in trial.procs /\ Becomes(p, Fresh)
      BY <2>13, <2>a DEF Panic, Kill, Running, a
    <3>2. DiskOK(Fresh, file, tmp) /\ OfferOK(Fresh, spool')
      BY DEF DiskOK, OfferOK, Fresh
    <3> QED
      BY <3>1, <3>2, <2>c, <2>b
  <2> QED
    BY <2>p, <2>1, <2>2, <2>3, <2>4, <2>5, <2>6, <2>7, <2>8, <2>9, <2>10, <2>11, <2>12, <2>13
    DEF Starting, Saving, Answering
<1> QED
  BY <1>s, <1>n

-----------------------------------------------------------------------------
(* The theorems *)

\* Whatever the files hold and whoever writes them, every instance runs with a
\* config and every collection of reports is one.
THEOREM ProfileTyped == ProfileSpec => []ProfileOK
<1> QED
  BY InitTyped, NextTyped, PTL DEF ProfileSpec

\* No captured report is lost, for any instances, crashes and failures.
THEOREM NoReportLost == ProfileSpec => []ReportsKept
<1>1. KeptInv => ReportsKept
  BY DEF KeptInv
<1> QED
  BY <1>1, InitKept, NextKept, PTL DEF ProfileSpec

\* One instance: the file is never torn, and at rest it is the config in use.
THEOREM SettingsSaved == ProfileSpec => []SettingsOnDisk
<1>1. AloneInv => SettingsOnDisk
  BY DEF AloneInv, WellAlone, DiskOK, SettingsOnDisk, AtRest, Untouched
<1> QED
  BY <1>1, InitAlone, NextAlone, PTL DEF ProfileSpec

\* One instance: the dialog and the auto-send leave no report out.
THEOREM AllReportsOffered == ProfileSpec => []EveryReportOffered
<1>1. AloneInv => EveryReportOffered
  BY DEF AloneInv, WellAlone, OfferOK, EveryReportOffered
<1> QED
  BY <1>1, InitAlone, NextAlone, PTL DEF ProfileSpec
=============================================================================
