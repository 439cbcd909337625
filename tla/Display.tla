------------------------------ MODULE Display ------------------------------
(***************************************************************************)
(* What a terminal promises about the output of a program, whatever lies   *)
(* between the two: the user never sees what was not written, never loses  *)
(* sight of what was shown, and sees everything in the end, unless the     *)
(* pane is closed first.                                                   *)
(***************************************************************************)
EXTENDS Naturals

VARIABLES said, shown, open

dvars == <<said, shown, open>>

DInit == said = 0 /\ shown = 0 /\ open = TRUE

Say ==
  /\ open
  /\ said' \in Nat /\ said' > said
  /\ UNCHANGED <<shown, open>>

Show ==
  /\ open
  /\ shown' \in shown + 1 .. said
  /\ UNCHANGED <<said, open>>

Close ==
  /\ open /\ open' = FALSE
  /\ UNCHANGED <<said, shown>>

DNext == Say \/ Show \/ Close

DSafe == DInit /\ [][DNext]_dvars
DSpec == DSafe /\ WF_dvars(Show)
=============================================================================
