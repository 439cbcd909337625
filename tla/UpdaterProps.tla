---------------------------- MODULE UpdaterProps ----------------------------
(***************************************************************************)
(* What the updater promises, as properties of Updater.                    *)
(***************************************************************************)
EXTENDS Updater

\* p replaces the executable in place
Swaps(p) == app[p].pc = "swap" /\ app'[p].pc = "recRead"

\* An in-place swap installs what is newer than the running version and than
\* the record its gate read, whatever other instances did to the staging
\* directories and the records since (apply_and_restart's gate).
SwapIsNewer ==
  [][\A p \in Procs : Swaps(p) =>
        disk'.exe > app[p].run /\ disk'.exe > app[p].seen]_vars

\* A parked update can be applied: its verified artifact is in the staging
\* directory still, and it is the version the button names (ReadyToApply,
\* ReadyToRunInstaller); up to the swap, which uses it up.
ReadyHasArtifact ==
  \A p \in Procs :
    /\ app[p].st.tag \in {"ReadyToApply", "ReadyToRunInstaller"}
    /\ app[p].pc \in {"ui", "launch", "probe", "backup", "swap"}
    => dirs[app[p].st.dir] = app[p].st.ver

\* The application replaces itself only after the user asked for it since
\* the last check, or in auto mode: a chain armed by an earlier "Update now"
\* does not fire on a later plain download (chain_apply).
RestartOnlyWhenAsked ==
  [][\A p \in Procs : app[p].pc = "ui" /\ app'[p].pc # "ui" => app'[p].asked]_vars

\* An update that a check found shows on the banner, even when the user
\* dismissed the banner of an earlier one (banner_dismissed).
FoundUpdateAnnounced ==
  [][\A p \in Procs : app'[p].st.tag = "Available" /\ app[p].st.tag # "Available" =>
        banner_visible(app'[p])]_vars

\* A running process forgets a staging directory only once it is removed, so
\* no verified binary lingers behind it (cleanup_staging_dir).
NoStagingLeak ==
  [][\A p \in Procs :
       LET d == app[p].staging IN
       d # NoDir /\ app'[p].run # None /\ app'[p].staging # d => dirs'[d] = Absent]_vars

\* no other instance shares the install directory
OnlyInstance == \E p \in Procs : scene.procs = {p}

\* What the only instance says of the executable is so, where the install
\* directory is what the probe finds it to be: "applied" is that version
\* (UpdateState::Applied), unless an elevated installer does it; and "relaunch
\* failed, rolled back" is neither the one that did not start nor older than the
\* running one, provided that the backup could be made and put back
\* (apply_and_restart).
SaysWhatIsInstalled ==
  OnlyInstance /\ ~May("probe") =>
    \A p \in Procs :
      /\ disk.writable /\ app[p].st.tag = "Applied" => disk.exe = app[p].st.ver
      /\ ~May("backup") /\ ~May("rollback") =>
           (app[p].st.tag = "Failed" /\ app[p].st.ver # None =>
              disk.exe # app[p].st.ver /\ disk.exe >= app[p].run)

\* "The highest version this installation has ever run" (rollback_guard):
\* a version that did not start and was rolled back is not in the floor, and
\* may be tried again.
RollbackAllowsRetry ==
  \A p \in Procs : app[p].st.tag = "Failed" /\ app[p].st.ver # None =>
    disk.verRec < app[p].st.ver

\* "only ever advanced upward, never lowered" (rollback_guard).
RecordNeverLowered == [][disk'.verRec >= disk.verRec]_vars

\* "applied ONLY when the candidate version is strictly greater than the
\* baseline, the highest version this installation has ever run"
\* (rollback_guard), of the installer's route.
InstallsAboveEverRun ==
  [][disk'.exe # disk.exe => \A v \in everRun : disk'.exe > v]_vars

\* A check, a download or an apply comes to an end, so the buttons it
\* disables come back (is_busy; every path of the workers sends a result).
Settles ==
  \A p \in Procs : (is_busy(app[p]) \/ app[p].pc # "ui")
                     ~> (~is_busy(app[p]) /\ app[p].pc = "ui")
=============================================================================
