----------------------------- MODULE PanesProps -----------------------------
(***************************************************************************)
(* What the panes of a window promise, as properties of Panes.             *)
(***************************************************************************)
EXTENDS Panes

Ids == Nat

ModesOK ==
  /\ view \in {"Grid", "Tabs"} /\ moved \in BOOLEAN
  /\ pending_paste \in BOOLEAN /\ palette_open \in BOOLEAN /\ search_open \in BOOLEAN

\* There is always a pane, and never more than the cap.
TypeOK ==
  /\ panes \subseteq Ids /\ IsFiniteSet(panes) /\ Cardinality(panes) \in 1 .. MAX_PANES
  /\ terms \subseteq Ids /\ pending \subseteq Ids /\ cwds \subseteq Ids
  /\ reported \subseteq terms /\ pinned \subseteq panes /\ selection \subseteq panes
  /\ focus \in Ids /\ drawn \subseteq Ids /\ next \in Nat
  /\ zoom \subseteq Ids /\ \A p, q \in zoom : p = q
  /\ keyed \subseteq Ids /\ input_line \subseteq Ids /\ at \in 0 .. 11
  /\ IsLayout(disk)
  /\ ModesOK

\* Every session belongs to a pane, every pane has a session or is waiting for
\* its first drawing, and none is waiting for a second one: what split,
\* close_pane, restoring and the deferred spawn do to three collections.
SessionsMatchPanes ==
  /\ terms \subseteq panes
  /\ panes \subseteq terms \cup pending
  /\ terms \cap pending = {}
  /\ at \in {10, 11} => drawn \cap panes \subseteq terms

\* No pane ever gets the id of another, nor of one that is still remembered:
\* a new pane cannot start in the directory of an old one, or be one that is
\* pinned, typed for, zoomed or waiting to be spawned.
IdsAreFresh ==
  \A p \in panes \cup terms \cup pending \cup cwds \cup drawn \cup zoom \cup input_line
          \cup {focus} : p < next

\* What is typed, or run from the history, goes to a pane that this very frame
\* draws, unless a key of the same frame has moved the focus (frame_tick).
TypedIsShown ==
  [][at = 9 /\ at' = 10 /\ ~moved => keyed' \subseteq drawn']_vars

\* The panes implement the abstract desk.
DeskImpl == INSTANCE Desk WITH
  Fits <- snapshot_is_restorable, open <- panes,
  saved <- [panes |-> disk.panes, focus |-> disk.focus, next |-> disk.next]
KeepsDesk == DeskImpl!DSpec

\* "focus is always re-anchored to a live pane" (grid_ui)
FocusIsLive == focus \in panes
=============================================================================
