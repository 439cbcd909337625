------------------------------ MODULE Updater ------------------------------
(***************************************************************************)
(* The in-app updater (crates/app/src/update_engine): the state machine    *)
(* Updater of every running instance, its worker thread, the apply steps   *)
(* on the UI thread, and the install directory the instances share: the    *)
(* executable, its backup, the two anti-rollback records.                  *)
(*                                                                         *)
(* Versions are numbers in release order; a release's index is its version *)
(* (release_index is monotonic with the version).  Nothing keeps a second  *)
(* instance from starting, so there are several.  The release profile      *)
(* aborts on a panic: a panicking worker is a crash of the process.        *)
(* Progress messages are left out: they only move the bar of a state that  *)
(* is Downloading already.                                                 *)
(***************************************************************************)
EXTENDS Integers, FiniteSets

CONSTANTS
  Procs,        \* the instances that may run from the install directory
  Versions,     \* the published releases
  First,        \* the release installed at the start
  Dirs,         \* names of temporary staging directories
  NoDir,        \* staging_dir = None
  Installers,   \* whether a release ships a setup.exe
  Kinds,        \* the check kinds the configured update mode uses
  Scenes        \* who runs, what is published, what may fail

ASSUME VersionsAssumption == Versions \subseteq Nat \ {0} /\ First \in Versions
ASSUME DirsAssumption == NoDir \notin Dirs
ASSUME InstallersAssumption == Installers \subseteq BOOLEAN
ASSUME ScenesAssumption == \A s \in Scenes : s.writable \in BOOLEAN

VARIABLES
  scene,     \* never changes: the instances that are started, the releases
             \* published, the steps that may fail, whether the install
             \* directory may be written to
  app,       \* the instances: UI thread, worker and channel of each
  disk,      \* the install directory
  dirs,      \* what each staging directory holds
  helpers,   \* elevated installers started and not finished (external)
  everRun    \* history: the versions that have run

vars == <<scene, app, disk, dirs, helpers, everRun>>

----------------------------------------------------------------------------
(* Data.  0 stands for no version: no record, no backup, nothing staged.   *)

None == 0
Absent == -1                       \* the directory does not exist

Tags == {"Idle", "Checking", "UpToDate", "Available", "Downloading",
         "ReadyToApply", "ReadyToRunInstaller", "Applied", "Failed"}

\* UpdateState with its payload; a Failed of a rolled back update keeps the
\* version for the properties
UpdateState == [tag : Tags, ver : Versions \cup {None}, dir : Dirs \cup {NoDir}]
State(tag, v, d) == [tag |-> tag, ver |-> v, dir |-> d]
Bare(tag) == State(tag, None, NoDir)

\* what the worker is doing, and the result it sends
Jobs == [kind : {"none", "check", "archive", "setup", "deadEnd"},
         ver : Versions \cup {None}, dir : Dirs \cup {NoDir}]
Job(k, v, d) == [kind |-> k, ver |-> v, dir |-> d]
NoJob == Job("none", None, NoDir)

UpdateMsg == [kind : {"none", "CheckResult", "Downloaded", "InstallerReady"},
              ok : BOOLEAN, ver : Versions \cup {None}, dir : Dirs \cup {NoDir}]
Message(k, ok, v, d) == [kind |-> k, ok |-> ok, ver |-> v, dir |-> d]
NoMessage == Message("none", FALSE, None, NoDir)

\* the places of the UI thread: in the event loop, in run_installer past its
\* gate, or inside apply_and_restart
Places == {"ui", "launch", "probe", "backup", "swap", "recRead", "recWrite",
           "idxRead", "idxWrite", "spawn"}

LaunchKind == {"Manual", "Notify", "Auto"}

ASSUME KindsAssumption == Kinds \subseteq LaunchKind

App == [run : Versions \cup {None}, st : UpdateState, job : Jobs, rx : UpdateMsg,
        launch_kind : LaunchKind, chain_apply : BOOLEAN, dismissed : BOOLEAN,
        staging : Dirs \cup {NoDir}, pc : Places, seen : Versions \cup {None},
        asked : BOOLEAN]           \* asked: history, see Download

\* a process started from version v; None is one that does not run
Fresh(v) ==
  [run |-> v, st |-> Bare("Idle"), job |-> NoJob, rx |-> NoMessage,
   launch_kind |-> "Manual", chain_apply |-> FALSE, dismissed |-> FALSE,
   staging |-> NoDir, pc |-> "ui", seen |-> None, asked |-> FALSE]

Disk == [exe : Versions, bak : Versions \cup {None}, writable : BOOLEAN,
         verRec : Versions \cup {None}, idxRec : Versions \cup {None}]

May(fault) == fault \in scene.faults

\* the event loop of p runs and takes the user's clicks; after Applied the
\* window closes at the end of the frame
Idle(p) == app[p].run # None /\ app[p].pc = "ui"
Open(p) == Idle(p) /\ app[p].st.tag # "Applied"

is_busy(u) == u.st.tag \in {"Checking", "Downloading"}

banner_visible(u) ==
  /\ ~u.dismissed
  /\ u.st.tag \in {"Available", "Downloading", "ReadyToApply",
                   "ReadyToRunInstaller", "Applied", "Failed"}

\* remove_dir_all of the tracked staging directory, if there is one
Removed(d) == [e \in Dirs |-> IF e = d THEN Absent ELSE dirs[e]]
cleanup_staging_dir(u) == [u EXCEPT !.staging = NoDir]

Fail(u) == [u EXCEPT !.st = Bare("Failed"), !.pc = "ui"]

----------------------------------------------------------------------------
(* Checking.                                                               *)

StartCheckKeepsChain(u, kind) ==                                  \* mutant
  [u EXCEPT !.st = Bare("Checking"), !.launch_kind = kind, !.asked = kind = "Auto",
            !.dismissed = FALSE, !.job = Job("check", None, NoDir), !.rx = NoMessage]

StartCheckKeepsDismissed(u, kind) ==                              \* mutant
  [u EXCEPT !.st = Bare("Checking"), !.launch_kind = kind, !.asked = kind = "Auto",
            !.chain_apply = FALSE, !.job = Job("check", None, NoDir), !.rx = NoMessage]

\* a check stands for a wish to install only in auto mode
start_check(u, kind) ==
  [u EXCEPT !.st = Bare("Checking"), !.launch_kind = kind, !.asked = kind = "Auto",
            !.dismissed = FALSE, !.chain_apply = FALSE,
            !.job = Job("check", None, NoDir), !.rx = NoMessage]

\* the launch check and the button "Check for updates"
Check(p) ==
  /\ Open(p) /\ ~is_busy(app[p])
  /\ \E kind \in Kinds : app' = [app EXCEPT ![p] = start_check(@, kind)]
  /\ UNCHANGED <<scene, disk, dirs, helpers, everRun>>

\* "Retry" on the Updates page and "Try again" on the banner
Retry(p) ==
  /\ Open(p) /\ app[p].st.tag = "Failed"
  /\ \/ app' = [app EXCEPT ![p] = start_check(@, "Manual")]
     \/ banner_visible(app[p]) /\ app' = [app EXCEPT ![p] = start_check(@, "Notify")]
  /\ UNCHANGED <<scene, disk, dirs, helpers, everRun>>

\* resolve_tier1_update offers v: newer than the running version, and its
\* index newer than the last one applied
Offered(v, u) == v > u.run /\ v > disk.idxRec

\* the worker's check: any release may be the latest; the rest is up to date,
\* or an error of the network or of a gate
CheckEnds(p) ==
  LET u == app[p] IN
  /\ u.job.kind = "check"
  /\ \E v \in (Versions \cap scene.releases) \cup {None} :
       \E ok \in IF v # None THEN {Offered(v, u)} ELSE {TRUE, ~May("network")} :
         /\ v # None => v > u.run
         /\ app' = [app EXCEPT ![p].job = NoJob,
              ![p].rx = Message("CheckResult", ok, IF ok THEN v ELSE None, NoDir)]
  /\ UNCHANGED <<scene, disk, dirs, helpers, everRun>>

----------------------------------------------------------------------------
(* Downloading.                                                            *)

\* dir_writable creates a file, which may fail in a writable directory too
install_dir_writable == {disk.writable} \cup (IF May("probe") THEN {FALSE} ELSE {})

select_apply_strategy(dir_writable, has_installer) ==
  IF dir_writable THEN "archive" ELSE IF has_installer THEN "setup" ELSE "deadEnd"

\* names are random: never one that something still refers to
Unused(d) == dirs[d] = Absent /\ d \notin helpers /\ \A q \in Procs : app[q].staging # d

\* start_download of v by process p, which has become u
DownloadLeavesStaging(p, u, v) ==                                 \* mutant
  /\ UNCHANGED <<scene, disk, helpers, everRun>>
  /\ \E d \in Dirs, w \in install_dir_writable, i \in Installers :
       /\ Unused(d)
       /\ dirs' = [dirs EXCEPT ![d] = None]
       /\ app' = [app EXCEPT ![p] =
            [u EXCEPT !.staging = d, !.st = State("Downloading", v, d), !.rx = NoMessage,
                      !.job = Job(select_apply_strategy(w, i), v, d)]]

start_download(p, u, v) ==
  /\ ~is_busy(u)
  /\ \/ /\ May("tempdir")
        /\ app' = [app EXCEPT ![p] = Fail(cleanup_staging_dir(u))]
        /\ dirs' = Removed(u.staging)
     \/ \E d \in Dirs, w \in install_dir_writable, i \in Installers :
          /\ Unused(d)
          /\ dirs' = [Removed(u.staging) EXCEPT ![d] = None]
          /\ app' = [app EXCEPT ![p] =
               [u EXCEPT !.staging = d, !.st = State("Downloading", v, d), !.rx = NoMessage,
                         !.job = Job(select_apply_strategy(w, i), v, d)]]
  /\ UNCHANGED <<scene, disk, helpers, everRun>>

\* "Download & install" on the Updates page: no chain
Download(p) ==
  /\ Open(p) /\ app[p].st.tag = "Available"
  /\ start_download(p, app[p], app[p].st.ver)

DeadEndSilent(p) ==                                               \* mutant
  /\ app[p].job.kind = "deadEnd"
  /\ app' = [app EXCEPT ![p].job = NoJob]
  /\ UNCHANGED <<scene, disk, dirs, helpers, everRun>>

\* no way to install here: the worker only says so
DeadEnd(p) ==
  /\ app[p].job.kind = "deadEnd"
  /\ app' = [app EXCEPT ![p].job = NoJob,
                        ![p].rx = Message("InstallerReady", FALSE, None, NoDir)]
  /\ UNCHANGED <<scene, disk, dirs, helpers, everRun>>

Delivered(job, ok) ==
  Message(IF job.kind = "archive" THEN "Downloaded" ELSE "InstallerReady", ok,
          IF ok THEN job.ver ELSE None, IF ok THEN job.dir ELSE NoDir)

\* download_verify_extract and download_verify_installer: a verified artifact
\* in the staging directory, or a failure that removes the directory
FetchEnds(p) ==
  LET job == app[p].job IN
  /\ job.kind \in {"archive", "setup"}
  /\ \E ok \in {TRUE, ~May("network")} :
       /\ dirs' = IF ok THEN [dirs EXCEPT ![job.dir] = job.ver] ELSE Removed(job.dir)
       /\ app' = [app EXCEPT ![p].job = NoJob, ![p].rx = Delivered(job, ok)]
  /\ UNCHANGED <<scene, disk, helpers, everRun>>

----------------------------------------------------------------------------
(* Applying: the gate, then the steps of apply_and_restart and of          *)
(* run_installer.  Other instances, and a crash, may come between any two. *)

\* installed_baseline: the compiled version, or a record above it
installed_baseline(u) == IF disk.verRec > u.run THEN disk.verRec ELSE u.run

EvaluateCheckTime(v, u) == v > None                               \* mutant

\* evaluate_installed allows only what is strictly newer
may_apply(v, u) == v > installed_baseline(u)

\* both apply routes begin with the gate and go on at place
Gated(p, u, place) ==
  /\ IF may_apply(u.st.ver, u)
       THEN /\ app' = [app EXCEPT ![p] = [u EXCEPT !.pc = place, !.seen = disk.verRec]]
            /\ UNCHANGED dirs
       ELSE /\ app' = [app EXCEPT ![p] = Fail(cleanup_staging_dir(u))]
            /\ dirs' = Removed(u.staging)
  /\ UNCHANGED <<scene, disk, helpers, everRun>>

apply_and_restart(p, u) == u.st.tag = "ReadyToApply" /\ Gated(p, u, "probe")
run_installer(p, u) == u.st.tag = "ReadyToRunInstaller" /\ Gated(p, u, "launch")

Asked(u) == [u EXCEPT !.asked = TRUE]

\* "Restart to finish update" and "Restart & install" on the Updates page
Apply(p) ==
  /\ Open(p)
  /\ apply_and_restart(p, Asked(app[p])) \/ run_installer(p, Asked(app[p]))

\* "Update now" and its kin on the banner; its retry is in Retry
update_now(p) ==
  /\ Open(p) /\ banner_visible(app[p])
  /\ \/ /\ app[p].st.tag = "Available"
        /\ start_download(p, [Asked(app[p]) EXCEPT !.chain_apply = TRUE], app[p].st.ver)
     \/ apply_and_restart(p, Asked(app[p]))
     \/ run_installer(p, Asked(app[p]))

\* "Dismiss" on the banner
dismiss_banner(p) ==
  /\ Open(p) /\ banner_visible(app[p]) /\ app[p].st.tag \in {"Available", "Failed"}
  /\ app' = [app EXCEPT ![p].dismissed = TRUE]
  /\ UNCHANGED <<scene, disk, dirs, helpers, everRun>>

\* install_dir_writable, asked again before anything is touched
Probe(p) ==
  LET u == app[p] IN
  /\ u.pc = "probe"
  /\ \/ /\ TRUE \in install_dir_writable
        /\ app' = [app EXCEPT ![p].pc = "backup"]
        /\ UNCHANGED dirs
     \/ /\ FALSE \in install_dir_writable
        /\ app' = [app EXCEPT ![p] = Fail(cleanup_staging_dir(u))]
        /\ dirs' = Removed(u.staging)
  /\ UNCHANGED <<scene, disk, helpers, everRun>>

\* back_up: best effort, of whatever the executable's path holds
BackUp(p) ==
  /\ app[p].pc = "backup"
  /\ \/ disk' = [disk EXCEPT !.bak = disk.exe]
     \/ May("backup") /\ UNCHANGED disk
  /\ app' = [app EXCEPT ![p].pc = "swap"]
  /\ UNCHANGED <<scene, dirs, helpers, everRun>>

\* replace_running_executable, then the cleanup either way
Swap(p) ==
  LET u == app[p] IN
  /\ u.pc = "swap"
  /\ \/ /\ dirs[u.st.dir] \in Versions
        /\ disk' = [disk EXCEPT !.exe = dirs[u.st.dir]]
        /\ app' = [app EXCEPT ![p] = [cleanup_staging_dir(u) EXCEPT !.pc = "recRead"]]
     \/ /\ May("swap") \/ dirs[u.st.dir] \notin Versions
        /\ app' = [app EXCEPT ![p] = Fail(cleanup_staging_dir(u))]
        /\ UNCHANGED disk
  /\ dirs' = Removed(u.staging)
  /\ UNCHANGED <<scene, helpers, everRun>>

\* record_installed and record_applied_index both read their record, and
\* write it unless it is high enough; a failed write may have truncated it
Recorded(seen, old, v) ==
  (IF seen >= v THEN {old} ELSE {v}) \cup (IF May("record") THEN {old, None} ELSE {})

RecRead(p) ==
  /\ app[p].pc = "recRead"
  /\ app' = [app EXCEPT ![p].pc = "recWrite", ![p].seen = disk.verRec]
  /\ UNCHANGED <<scene, disk, dirs, helpers, everRun>>

RecWrite(p) ==
  LET u == app[p] IN
  /\ u.pc = "recWrite"
  /\ \E rec \in Recorded(u.seen, disk.verRec, u.st.ver) : disk' = [disk EXCEPT !.verRec = rec]
  /\ app' = [app EXCEPT ![p].pc = "idxRead", ![p].seen = None]
  /\ UNCHANGED <<scene, dirs, helpers, everRun>>

IdxRead(p) ==
  /\ app[p].pc = "idxRead"
  /\ app' = [app EXCEPT ![p].pc = "idxWrite", ![p].seen = disk.idxRec]
  /\ UNCHANGED <<scene, disk, dirs, helpers, everRun>>

IdxWrite(p) ==
  LET u == app[p] IN
  /\ u.pc = "idxWrite"
  /\ \E rec \in Recorded(u.seen, disk.idxRec, u.st.ver) : disk' = [disk EXCEPT !.idxRec = rec]
  /\ app' = [app EXCEPT ![p].pc = "spawn", ![p].seen = None]
  /\ UNCHANGED <<scene, dirs, helpers, everRun>>

SpawnIgnoresRollback(p) ==                                        \* mutant
  LET u == app[p]
      v == u.st.ver IN
  /\ u.pc = "spawn"
  /\ \/ UNCHANGED disk
     \/ May("spawn") /\ disk.bak # None /\ disk' = [disk EXCEPT !.exe = disk.bak]
  /\ app' = [app EXCEPT ![p] = [u EXCEPT !.st = State("Applied", v, NoDir), !.pc = "ui"]]
  /\ UNCHANGED <<scene, dirs, helpers, everRun>>

SpawnNoRollback(p) ==                                             \* mutant
  LET u == app[p]
      v == u.st.ver IN
  /\ u.pc = "spawn"
  /\ \/ app' = [app EXCEPT ![p] = [u EXCEPT !.st = State("Applied", v, NoDir), !.pc = "ui"]]
     \/ May("spawn") /\ app' = [app EXCEPT ![p] =
                          [u EXCEPT !.st = State("Failed", v, NoDir), !.pc = "ui"]]
  /\ UNCHANGED <<scene, disk, dirs, helpers, everRun>>

\* start the new binary; if it does not start, put the backup back (best
\* effort) and say "relaunch failed, rolled back"
Spawn(p) ==
  LET u == app[p]
      v == u.st.ver IN
  /\ u.pc = "spawn"
  /\ \/ /\ app' = [app EXCEPT ![p] = [u EXCEPT !.st = State("Applied", v, NoDir), !.pc = "ui"]]
        /\ UNCHANGED disk
     \/ /\ May("spawn")
        /\ app' = [app EXCEPT ![p] = [u EXCEPT !.st = State("Failed", v, NoDir), !.pc = "ui"]]
        /\ \/ disk.bak # None /\ disk' = [disk EXCEPT !.exe = disk.bak]
           \/ (disk.bak = None \/ May("rollback")) /\ UNCHANGED disk
  /\ UNCHANGED <<scene, dirs, helpers, everRun>>

\* launch_installer_elevated: the installer runs from the staging directory,
\* which stays
LaunchInstaller(p) ==
  LET u == app[p] IN
  /\ u.pc = "launch"
  /\ \/ /\ app' = [app EXCEPT ![p] =
             [u EXCEPT !.st = State("Applied", u.st.ver, NoDir), !.pc = "ui"]]
        /\ helpers' = helpers \cup {u.st.dir}
        /\ UNCHANGED dirs
     \/ /\ May("installer")
        /\ app' = [app EXCEPT ![p] = Fail(cleanup_staging_dir(u))]
        /\ dirs' = Removed(u.staging)
        /\ UNCHANGED helpers
  /\ UNCHANGED <<scene, disk, everRun>>

----------------------------------------------------------------------------
(* poll: the frame takes what the worker sent.                             *)

\* the state a result leaves, before any chaining
Received(u, m) ==
  LET got == [u EXCEPT !.rx = NoMessage] IN
  CASE m.kind = "CheckResult" ->
         [got EXCEPT !.launch_kind = "Manual",
                     !.st = IF ~m.ok THEN Bare("Failed")
                            ELSE IF m.ver = None THEN Bare("UpToDate")
                            ELSE State("Available", m.ver, NoDir)]
    [] m.kind = "Downloaded" /\ m.ok -> [got EXCEPT !.st = State("ReadyToApply", m.ver, m.dir)]
    [] m.kind = "InstallerReady" /\ m.ok ->
         [got EXCEPT !.st = State("ReadyToRunInstaller", m.ver, m.dir)]
    [] OTHER -> Fail(cleanup_staging_dir(got))

CleansUpAfterAll(u, m) == m.kind # "CheckResult"                  \* mutant

\* a fetch that failed has its directory dropped as well
CleansUp(u, m) == m.kind # "CheckResult" /\ ~m.ok

poll(p) ==
  LET u == app[p]
      m == u.rx
      got == Received(u, m) IN
  /\ Open(p) /\ m.kind # "none"
  /\ CASE m.kind = "CheckResult" /\ m.ver # None /\ u.launch_kind = "Auto" ->
            start_download(p, [got EXCEPT !.chain_apply = TRUE], m.ver)
       [] m.kind = "Downloaded" /\ m.ok /\ u.chain_apply ->
            apply_and_restart(p, [got EXCEPT !.chain_apply = FALSE])
       [] m.kind = "InstallerReady" /\ m.ok /\ u.chain_apply ->
            run_installer(p, [got EXCEPT !.chain_apply = FALSE])
       [] OTHER ->
            /\ app' = [app EXCEPT ![p] = got]
            /\ dirs' = IF CleansUp(u, m) THEN Removed(u.staging) ELSE dirs
            /\ UNCHANGED <<scene, disk, helpers, everRun>>

----------------------------------------------------------------------------
(* Processes, and the installer's helper.                                  *)

\* the user, or the relaunch, starts whatever the executable's path holds
Launch(p) ==
  /\ p \in scene.procs /\ app[p].run = None
  /\ app' = [app EXCEPT ![p] = Fresh(disk.exe)]
  /\ everRun' = everRun \cup {disk.exe}
  /\ UNCHANGED <<scene, disk, dirs, helpers>>

\* the window is closed, after Applied by the updater itself; or a crash
Exit(p) ==
  /\ Idle(p) \/ (app[p].run # None /\ May("crash"))
  /\ app' = [app EXCEPT ![p] = Fresh(None)]
  /\ UNCHANGED <<scene, disk, dirs, helpers, everRun>>

\* external: the elevated setup.exe installs its release, or is declined at
\* the prompt; the relaunch after it is a Launch
HelperRuns(d) ==
  /\ d \in helpers
  /\ helpers' = helpers \ {d}
  /\ \/ dirs[d] \in Versions /\ disk' = [disk EXCEPT !.exe = dirs[d]]
     \/ UNCHANGED disk
  /\ UNCHANGED <<scene, app, dirs, everRun>>

----------------------------------------------------------------------------
Init ==
  /\ app = [p \in Procs |-> Fresh(None)]
  /\ scene \in Scenes
  /\ disk = [exe |-> First, bak |-> None, writable |-> scene.writable,
             verRec |-> None, idxRec |-> None]
  /\ dirs = [d \in Dirs |-> Absent]
  /\ helpers = {}
  /\ everRun = {}

WorkerEnds(p) == CheckEnds(p) \/ DeadEnd(p) \/ FetchEnds(p)

ApplyStep(p) ==
  \/ Probe(p) \/ BackUp(p) \/ Swap(p)
  \/ RecRead(p) \/ RecWrite(p) \/ IdxRead(p) \/ IdxWrite(p)
  \/ Spawn(p) \/ LaunchInstaller(p)

UserStep(p) ==
  Check(p) \/ Retry(p) \/ Download(p) \/ Apply(p) \/ update_now(p) \/ dismiss_banner(p)

Next ==
  \/ \E p \in Procs : \/ UserStep(p) \/ poll(p) \/ WorkerEnds(p) \/ ApplyStep(p)
                      \/ Launch(p) \/ Exit(p)
  \/ \E d \in Dirs : HelperRuns(d)

Spec == Init /\ [][Next]_vars

\* Every network wait of the worker has a timeout and a size limit, and the
\* worker asks for a repaint after each message, so a frame polls.
Fairness ==
  \A p \in Procs : WF_vars(WorkerEnds(p)) /\ WF_vars(poll(p)) /\ WF_vars(ApplyStep(p))

FairSpec == Spec /\ Fairness

----------------------------------------------------------------------------
\* The updater's state, its channels and the install directory have their types.
TypeOK ==
  /\ app \in [Procs -> App]
  /\ disk \in Disk
  /\ dirs \in [Dirs -> Versions \cup {None, Absent}]
  /\ helpers \subseteq Dirs
  /\ everRun \subseteq Versions
=============================================================================
