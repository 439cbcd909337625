----------------------------- MODULE MCUpdater -----------------------------
(***************************************************************************)
(* Instances of Updater for TLC.                                           *)
(***************************************************************************)
EXTENDS UpdaterProps

CONSTANTS p, q

Both == {p, q}
Three == 1..3
Either == BOOLEAN
No == {FALSE}
Yes == {TRUE}

Scene(procs, releases, faults, writable) ==
  [procs |-> procs, releases |-> releases, faults |-> faults, writable |-> writable]

\* one instance, with all it has to live with short of a failing backup
AloneFaults == {"network", "tempdir", "swap", "record", "spawn", "installer", "crash"}
AloneScenes == {Scene({p}, 1..3, AloneFaults, w) : w \in BOOLEAN}

\* two, and what may go wrong in the directory they share
PairScenes == {Scene({p, q}, 1..2, {"tempdir", "probe", "backup", "spawn", "rollback"}, TRUE)}

AllScenes == AloneScenes \cup PairScenes

\* one whose relaunch fails; two whose directory needs the installer
RetryScenes == {Scene({p}, 1..2, {"spawn"}, TRUE)}
StaleScenes == {Scene({p, q}, 1..3, {}, FALSE)}
=============================================================================
