----------------------------- MODULE MCProfile -----------------------------
(***************************************************************************)
(* Instances of Profile for TLC.                                           *)
(***************************************************************************)
EXTENDS ProfileProps, TLC

CONSTANTS p, q

Both == {p, q}

Trial(procs, faults, config, modes, fonts) ==
  [procs |-> procs, faults |-> faults, config |-> config, modes |-> modes, fonts |-> fonts]

Asks == [mode |-> "AskEachTime", font |-> 13]

\* one instance, with all that can go wrong, over every kind of config file
AloneTrials ==
  {Trial({i}, {"network", "disk", "crash"}, c, Modes, Fonts) :
     i \in Both, c \in {Absent, Torn, Asks}}

\* two, over the spool they share
PairTrials == {Trial(Both, {"network"}, Asks, {"Always"}, {})}

AllTrials == AloneTrials \cup PairTrials

InstanceSymmetry == Permutations(Both)
=============================================================================
