-------------------------------- MODULE Desk --------------------------------
(***************************************************************************)
(* What the shell promises about its panes, whatever lies behind: panes    *)
(* come and go one at a time, there is always one and never more than the  *)
(* cap, a new one has a name that none has had in this run and gets the    *)
(* keyboard, closing the one that has it hands it to another, and a        *)
(* restart brings back the saved ones or, without any that fit, a first    *)
(* one.  A name may be lost, and the keyboard be given to a pane that is   *)
(* gone, but not to one that never was.                                    *)
(***************************************************************************)
EXTENDS Naturals

CONSTANT Fits(_)   \* a set of panes that the window may have

VARIABLES open, focus, next, saved

dvars == <<open, focus, next, saved>>

\* what a start can find itself with
Started(s, o, f, n) ==
  IF Fits(s.panes)
  THEN /\ o = s.panes
       /\ f \in o /\ (s.focus \in o => f = s.focus)
       /\ n \in Nat /\ \A p \in o : p < n
  ELSE o = {0} /\ f = 0 /\ n = 1

DInit == Started(saved, open, focus, next)

Open ==
  /\ next \notin open /\ open' = open \cup {next} /\ Fits(open')
  /\ focus' = next /\ next' = next + 1
  /\ UNCHANGED saved

Close ==
  /\ \E p \in open :
       /\ open' = open \ {p}
       /\ focus' \in open' /\ (focus \in open' => focus' = focus)
  /\ UNCHANGED <<next, saved>>

Move == focus' \in 0 .. next - 1 /\ UNCHANGED <<open, next, saved>>

Lose == focus \notin open /\ next' = next + 1 /\ UNCHANGED <<open, focus, saved>>

Save ==
  /\ saved'.panes = open /\ saved'.focus = focus /\ saved'.next = next
  /\ UNCHANGED <<open, focus, next>>

Restart == Started(saved, open', focus', next') /\ UNCHANGED saved

DNext == Open \/ Close \/ Move \/ Lose \/ Save \/ Restart

DSpec == DInit /\ [][DNext]_dvars
=============================================================================
