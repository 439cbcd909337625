--------------------------- MODULE UpdaterProofs ---------------------------
(***************************************************************************)
(* For any number of instances, releases and staging directories, and      *)
(* whatever fails: what the updater promises about an update on its way    *)
(* from the check to the swap.                                             *)
(***************************************************************************)
EXTENDS UpdaterProps, TLAPS

Ready == {"ReadyToApply", "ReadyToRunInstaller"}
BeforeSwap == {"ui", "launch", "probe", "backup", "swap"}
InPlace == {"probe", "backup", "swap", "recRead", "recWrite", "idxRead",
            "idxWrite", "spawn"}

\* u's own staging directory holds the verified artifact of v, an update
Staged(u, ds, d, v) == d \in Dirs /\ u.staging = d /\ ds[d] = v /\ v > u.run

----------------------------------------------------------------------------
(* The parts of the invariant that are about one instance u, with ds the   *)
(* staging directories.                                                    *)

\* a worker runs only in the state that waits for it
JobFits(u) ==
  /\ u.job.kind = "check" => u.st.tag = "Checking" /\ u.rx.kind = "none"
  /\ u.job.kind \in {"archive", "setup", "deadEnd"} =>
       /\ u.st.tag = "Downloading" /\ u.rx.kind = "none"
       /\ u.job.dir \in Dirs /\ u.job.dir = u.staging /\ u.job.ver > u.run

\* and so does its result, which holds what it says
ResultFits(u, ds) ==
  /\ u.rx.kind = "CheckResult" =>
       /\ u.st.tag = "Checking"
       /\ u.rx.ver # None => u.rx.ok /\ u.rx.ver > u.run
  /\ u.rx.kind \in {"Downloaded", "InstallerReady"} =>
       /\ u.st.tag = "Downloading"
       /\ u.rx.ok => Staged(u, ds, u.rx.dir, u.rx.ver)

\* the state names an update, and its artifact until the swap
StateFits(u, ds) ==
  /\ u.st.tag = "Available" => u.st.ver > u.run
  /\ u.st.tag \in Ready /\ u.pc \in BeforeSwap => Staged(u, ds, u.st.dir, u.st.ver)
  /\ u.pc \in InPlace => u.st.tag = "ReadyToApply"
  /\ u.pc = "launch" => u.st.tag = "ReadyToRunInstaller"
  /\ u.pc \in {"probe", "backup", "swap"} => u.st.ver > u.seen

\* what starts without a further click was asked for
FlagsFit(u) ==
  /\ u.chain_apply => u.asked
  /\ u.launch_kind = "Auto" => u.asked
  /\ u.st.tag = "Checking" => ~u.dismissed

OK(u, ds) == JobFits(u) /\ ResultFits(u, ds) /\ StateFits(u, ds) /\ FlagsFit(u)

DirsType == [Dirs -> Versions \cup {None, Absent}]

\* no two instances share a staging directory
Owned == \A p, q \in Procs : p # q => \/ app[p].staging # app[q].staging
                                      \/ app[p].staging = NoDir

IInv == TypeOK /\ (\A p \in Procs : OK(app[p], dirs)) /\ Owned

----------------------------------------------------------------------------
(* One instance changes to u; the directories it touches are its own.      *)
LEMMA Frame ==
  ASSUME IInv, NEW p \in Procs, NEW u \in App, app' = [app EXCEPT ![p] = u],
         dirs' \in DirsType, OK(u, dirs'),
         \A q \in Procs \ {p} : u.staging # app[q].staging \/ u.staging = NoDir,
         \A q \in Procs \ {p}, d \in Dirs :
           dirs'[d] # dirs[d] => app[q].staging # d,
         disk' \in Disk, helpers' \subseteq Dirs, everRun' \subseteq Versions
  PROVE  IInv'
<1>1. TypeOK'
  BY DEF IInv, TypeOK, DirsType
<1>2. \A q \in Procs : app'[q] = IF q = p THEN u ELSE app[q]
  BY DEF IInv, TypeOK
<1>3. ASSUME NEW q \in Procs PROVE OK(app'[q], dirs')
  <2>1. CASE q = p
    BY <1>2, <2>1
  <2>2. CASE q # p
    <3>1. app'[q] = app[q] /\ OK(app[q], dirs)
      BY <1>2, <2>2 DEF IInv
    <3>2. \A d, v : Staged(app[q], dirs, d, v) => Staged(app[q], dirs', d, v)
      BY <2>2 DEF Staged
    <3> QED BY <3>1, <3>2 DEF OK, JobFits, ResultFits, StateFits, FlagsFit
  <2> QED BY <2>1, <2>2
<1>4. Owned'
  BY <1>2 DEF IInv, Owned
<1> QED BY <1>1, <1>3, <1>4 DEF IInv

(* The same, when p keeps its directory and no directory changes.          *)
LEMMA FrameSame ==
  ASSUME IInv, NEW p \in Procs, NEW u \in App, app' = [app EXCEPT ![p] = u],
         dirs' = dirs, OK(u, dirs), u.staging \in {app[p].staging, NoDir},
         disk' \in Disk, helpers' \subseteq Dirs, everRun' \subseteq Versions
  PROVE  IInv'
<1>1. dirs' \in DirsType /\ OK(u, dirs')
  BY DEF IInv, TypeOK, DirsType
<1>2. \A q \in Procs \ {p} : u.staging # app[q].staging \/ u.staging = NoDir
  BY DEF IInv, Owned
<1> QED BY <1>1, <1>2, Frame

(* The same, when p's directory is removed.                                *)
LEMMA FrameRemoved ==
  ASSUME IInv, NEW p \in Procs, NEW u \in App, app' = [app EXCEPT ![p] = u],
         u.staging = NoDir, dirs' = Removed(app[p].staging), OK(u, dirs'),
         disk' \in Disk, helpers' \subseteq Dirs, everRun' \subseteq Versions
  PROVE  IInv'
<1>1. dirs' \in DirsType
  BY DEF IInv, TypeOK, DirsType, Removed
<1>2. \A q \in Procs \ {p}, d \in Dirs :
        dirs'[d] # dirs[d] => app[q].staging # d
  BY DirsAssumption DEF IInv, TypeOK, Owned, Removed
<1> QED BY <1>1, <1>2, Frame

----------------------------------------------------------------------------
(* What every lemma about an action of p begins with.                      *)
LEMMA Known ==
  ASSUME IInv, NEW p \in Procs
  PROVE  /\ app[p] \in App /\ OK(app[p], dirs)
         /\ disk \in Disk /\ helpers \subseteq Dirs /\ everRun \subseteq Versions
         /\ app[p].st \in UpdateState /\ app[p].job \in Jobs /\ app[p].rx \in UpdateMsg
         /\ app[p].run \in Versions \cup {None} /\ app[p].staging \in Dirs \cup {NoDir}
         /\ app[p].seen \in Versions \cup {None} /\ app[p].pc \in Places
         /\ dirs \in DirsType
  BY DEF IInv, TypeOK, App, DirsType

(* A record of p with a new state is typed.                                *)
LEMMA Typed ==
  ASSUME NEW u \in App, NEW st \in UpdateState, NEW pc \in Places,
         NEW d \in Dirs \cup {NoDir}, NEW seen \in Versions \cup {None}
  PROVE  /\ [u EXCEPT !.st = st] \in App
         /\ [u EXCEPT !.pc = pc] \in App
         /\ [u EXCEPT !.staging = d] \in App
         /\ [u EXCEPT !.seen = seen] \in App
         /\ [u EXCEPT !.st = st, !.pc = pc] \in App
         /\ [u EXCEPT !.pc = pc, !.seen = seen] \in App
  BY DEF App

LEMMA FailFits ==
  ASSUME NEW u \in App, NEW ds, u.job.kind = "none", u.rx.kind = "none",
         u.chain_apply => u.asked, u.launch_kind = "Auto" => u.asked
  PROVE  /\ Fail(cleanup_staging_dir(u)) \in App
         /\ Fail(cleanup_staging_dir(u)).staging = NoDir
         /\ OK(Fail(cleanup_staging_dir(u)), ds)
<1> DEFINE f == Fail(cleanup_staging_dir(u))
<1>1. f \in App /\ f.staging = NoDir
  BY DEF App, Fail, cleanup_staging_dir, Bare, State, UpdateState, Tags, Places
<1>2. /\ f.st.tag = "Failed" /\ f.pc = "ui" /\ f.job = u.job /\ f.rx = u.rx
      /\ f.chain_apply = u.chain_apply /\ f.asked = u.asked
      /\ f.launch_kind = u.launch_kind
  BY DEF App, Fail, cleanup_staging_dir, Bare, State
<1> HIDE DEF f
<1>3. OK(f, ds)
  BY <1>2 DEF OK, JobFits, ResultFits, StateFits, FlagsFit, Ready, InPlace
<1> QED BY <1>1, <1>3 DEF f

----------------------------------------------------------------------------
(* Checks *)

LEMMA StartCheck ==
  ASSUME IInv, NEW p \in Procs, NEW kind \in LaunchKind, app[p].pc = "ui",
         app' = [app EXCEPT ![p] = start_check(@, kind)],
         UNCHANGED <<disk, dirs, helpers, everRun>>
  PROVE  IInv'
<1> DEFINE u == start_check(app[p], kind)
<1>1. u \in App
  <2>1. /\ Bare("Checking") \in UpdateState /\ NoMessage \in UpdateMsg
        /\ Job("check", None, NoDir) \in Jobs
    BY DEF Bare, State, UpdateState, Tags, NoMessage, Message, UpdateMsg, Job, Jobs
  <2>2. ASSUME NEW st \in UpdateState, NEW m \in UpdateMsg, NEW job \in Jobs,
               NEW asked \in BOOLEAN, NEW x \in App
        PROVE  [x EXCEPT !.st = st, !.launch_kind = kind, !.asked = asked,
                  !.dismissed = FALSE, !.chain_apply = FALSE, !.job = job,
                  !.rx = m] \in App
    BY DEF App
  <2>3. (kind = "Auto") \in BOOLEAN
    OBVIOUS
  <2> QED BY <2>1, <2>2, <2>3, Known, ZenonT(60) DEF start_check
<1>2. /\ u.st.tag = "Checking" /\ u.job.kind = "check" /\ u.rx.kind = "none"
      /\ u.pc = "ui" /\ u.staging = app[p].staging
      /\ u.launch_kind = kind /\ (u.asked <=> kind = "Auto")
      /\ ~u.dismissed /\ ~u.chain_apply
  BY Known DEF start_check, App, Bare, State, Job, NoMessage, Message
<1>3. app' = [app EXCEPT ![p] = u]
  OBVIOUS
<1> HIDE DEF u
<1>4. OK(u, dirs)
  BY <1>2 DEF OK, JobFits, ResultFits, StateFits, FlagsFit, Ready, InPlace
<1> QED BY <1>1, <1>2, <1>3, <1>4, Known, FrameSame

LEMMA CheckSteps == ASSUME IInv, NEW p \in Procs, Check(p) \/ Retry(p) PROVE IInv'
<1>1. PICK kind \in LaunchKind : app' = [app EXCEPT ![p] = start_check(@, kind)]
  BY KindsAssumption DEF Check, Retry, LaunchKind
<1>2. app[p].pc = "ui" /\ UNCHANGED <<disk, dirs, helpers, everRun>>
  BY DEF Check, Retry, Open, Idle
<1> QED BY <1>1, <1>2, StartCheck

(* A worker that only sends message m.                                     *)
LEMMA Sends ==
  ASSUME IInv, NEW p \in Procs, NEW m \in UpdateMsg,
         app' = [app EXCEPT ![p].job = NoJob, ![p].rx = m],
         UNCHANGED <<disk, dirs, helpers, everRun>>,
         LET u == [app[p] EXCEPT !.job = NoJob, !.rx = m]
         IN  ResultFits(u, dirs)
  PROVE  IInv'
<1> DEFINE u == [app[p] EXCEPT !.job = NoJob, !.rx = m]
<1>1. u \in App /\ u.job.kind = "none"
  BY Known DEF App, NoJob, Job, Jobs
<1>2. /\ u.st = app[p].st /\ u.pc = app[p].pc /\ u.staging = app[p].staging
      /\ u.run = app[p].run /\ u.seen = app[p].seen /\ u.asked = app[p].asked
      /\ u.launch_kind = app[p].launch_kind /\ u.dismissed = app[p].dismissed
      /\ u.chain_apply = app[p].chain_apply
  BY Known DEF App
<1>3. app' = [app EXCEPT ![p] = u] /\ ResultFits(u, dirs)
  BY Known DEF IInv, TypeOK, App
<1> HIDE DEF u
<1>4. OK(u, dirs)
  BY <1>1, <1>2, <1>3, Known DEF OK, JobFits, StateFits, FlagsFit, Staged
<1> QED BY <1>1, <1>2, <1>3, <1>4, Known, FrameSame
LEMMA CheckEndsStep == ASSUME IInv, NEW p \in Procs, CheckEnds(p) PROVE IInv'
<1>1. PICK v \in Versions \cup {None}, ok \in BOOLEAN :
        /\ v # None => v > app[p].run
        /\ app' = [app EXCEPT ![p].job = NoJob,
             ![p].rx = Message("CheckResult", ok, IF ok THEN v ELSE None, NoDir)]
  BY DEF CheckEnds, May, Offered
<1> DEFINE m == Message("CheckResult", ok, IF ok THEN v ELSE None, NoDir)
<1>2. /\ m \in UpdateMsg /\ m.kind = "CheckResult"
      /\ m.ver # None => m.ok /\ m.ver > app[p].run
  <2>1. CASE ok
    BY <1>1, <2>1 DEF Message, UpdateMsg
  <2>2. CASE ~ok
    BY <2>2 DEF Message, UpdateMsg
  <2> QED BY <2>1, <2>2
<1>3. app' = [app EXCEPT ![p].job = NoJob, ![p].rx = m]
  BY <1>1
<1>4. app[p].st.tag = "Checking" /\ UNCHANGED <<disk, dirs, helpers, everRun>>
  BY Known DEF CheckEnds, OK, JobFits
<1> HIDE DEF m
<1>5. ResultFits([app[p] EXCEPT !.job = NoJob, !.rx = m], dirs)
  BY <1>2, <1>4, Known DEF ResultFits, App
<1> QED BY <1>2, <1>3, <1>4, <1>5, Sends

LEMMA DeadEndStep == ASSUME IInv, NEW p \in Procs, DeadEnd(p) PROVE IInv'
<1> DEFINE m == Message("InstallerReady", FALSE, None, NoDir)
<1>1. m \in UpdateMsg /\ m.kind = "InstallerReady" /\ ~m.ok
  BY DEF Message, UpdateMsg
<1>2. /\ app' = [app EXCEPT ![p].job = NoJob, ![p].rx = m]
      /\ UNCHANGED <<disk, dirs, helpers, everRun>>
      /\ app[p].st.tag = "Downloading"
  BY Known DEF DeadEnd, OK, JobFits
<1> HIDE DEF m
<1>3. ResultFits([app[p] EXCEPT !.job = NoJob, !.rx = m], dirs)
  BY <1>1, <1>2, Known DEF ResultFits, App
<1> QED BY <1>1, <1>2, <1>3, Sends

LEMMA FetchEndsStep == ASSUME IInv, NEW p \in Procs, FetchEnds(p) PROVE IInv'
<1> DEFINE job == app[p].job
<1>1. PICK ok \in BOOLEAN :
        /\ dirs' = IF ok THEN [dirs EXCEPT ![job.dir] = job.ver] ELSE Removed(job.dir)
        /\ app' = [app EXCEPT ![p].job = NoJob, ![p].rx = Delivered(job, ok)]
  BY DEF FetchEnds, May
<1> DEFINE m == Delivered(job, ok)
           u == [app[p] EXCEPT !.job = NoJob, !.rx = m]
<1>2. /\ job.kind \in {"archive", "setup"} /\ app[p].st.tag = "Downloading"
      /\ job.dir \in Dirs /\ job.dir = app[p].staging /\ job.ver > app[p].run
      /\ job \in Jobs /\ UNCHANGED <<disk, helpers, everRun>>
  BY Known DEF FetchEnds, OK, JobFits
<1>3. /\ m \in UpdateMsg /\ m.kind \in {"Downloaded", "InstallerReady"}
      /\ m.ok <=> ok
      /\ ok => m.ver = job.ver /\ m.dir = job.dir
  <2>1. CASE ok
    BY <1>2, <2>1 DEF Delivered, Message, UpdateMsg, Jobs
  <2>2. CASE ~ok
    BY <2>2 DEF Delivered, Message, UpdateMsg
  <2> QED BY <2>1, <2>2
<1>4. /\ dirs' \in DirsType
      /\ \A d \in Dirs : dirs'[d] # dirs[d] => d = job.dir
      /\ ok => dirs'[job.dir] = job.ver
  <2>1. CASE ok
    BY <1>1, <1>2, <2>1, Known DEF DirsType, Jobs
  <2>2. CASE ~ok
    BY <1>1, <1>2, <2>2, Known DEF DirsType, Removed
  <2> QED BY <2>1, <2>2
<1> HIDE DEF m
<1>5. u \in App /\ u.job.kind = "none"
  <2>1. NoJob \in Jobs /\ NoJob.kind = "none"
    BY DEF NoJob, Job, Jobs
  <2>2. app[p] \in App
    BY Known
  <2> QED BY <1>3, <2>1, <2>2 DEF App
<1>6. /\ u.st = app[p].st /\ u.pc = app[p].pc /\ u.staging = app[p].staging
      /\ u.run = app[p].run /\ u.seen = app[p].seen /\ u.asked = app[p].asked
      /\ u.launch_kind = app[p].launch_kind /\ u.dismissed = app[p].dismissed
      /\ u.chain_apply = app[p].chain_apply /\ u.rx = m
  <2>1. app[p] \in App
    BY Known
  <2>2. /\ u.st = app[p].st /\ u.pc = app[p].pc /\ u.staging = app[p].staging
        /\ u.run = app[p].run /\ u.seen = app[p].seen
    BY <2>1 DEF App
  <2>3. /\ u.asked = app[p].asked /\ u.launch_kind = app[p].launch_kind
        /\ u.dismissed = app[p].dismissed /\ u.chain_apply = app[p].chain_apply
        /\ u.rx = m
    BY <2>1 DEF App
  <2> QED BY <2>2, <2>3
<1>7. app' = [app EXCEPT ![p] = u]
  BY <1>1, Known DEF IInv, TypeOK, App, m
<1> HIDE DEF u, job
<1>8. OK(u, dirs')
  <2>1. JobFits(u) /\ FlagsFit(u)
    BY <1>5, <1>6, Known DEF OK, JobFits, FlagsFit
  <2>2. ResultFits(u, dirs')
    BY <1>2, <1>3, <1>4, <1>6 DEF ResultFits, Staged
  <2>3. StateFits(u, dirs')
    BY <1>2, <1>6, Known DEF OK, StateFits, Ready
  <2> QED BY <2>1, <2>2, <2>3 DEF OK
<1>9. /\ \A q \in Procs \ {p} : u.staging # app[q].staging \/ u.staging = NoDir
      /\ \A q \in Procs \ {p}, d \in Dirs : dirs'[d] # dirs[d] => app[q].staging # d
  BY <1>2, <1>4, <1>6, DirsAssumption DEF IInv, Owned
<1> QED BY <1>2, <1>4, <1>5, <1>7, <1>8, <1>9, Known, Frame

----------------------------------------------------------------------------
(* Downloads: u is what p became before the call.                          *)

LEMMA StartDownload ==
  ASSUME IInv, NEW p \in Procs, NEW u \in App, NEW v \in Versions, v > u.run,
         u.staging = app[p].staging, u.pc = "ui",
         u.job.kind = "none", u.rx.kind = "none",
         u.chain_apply => u.asked, u.launch_kind = "Auto" => u.asked,
         start_download(p, u, v)
  PROVE  IInv'
<1>1. UNCHANGED <<disk, helpers, everRun>>
  BY DEF start_download
<1>2. CASE /\ app' = [app EXCEPT ![p] = Fail(cleanup_staging_dir(u))]
           /\ dirs' = Removed(u.staging)
  BY <1>1, <1>2, FailFits, Known, FrameRemoved
<1>3. ASSUME NEW d \in Dirs, NEW w \in BOOLEAN, NEW i \in BOOLEAN, Unused(d),
             dirs' = [Removed(u.staging) EXCEPT ![d] = None],
             app' = [app EXCEPT ![p] =
               [u EXCEPT !.staging = d, !.st = State("Downloading", v, d), !.rx = NoMessage,
                         !.job = Job(select_apply_strategy(w, i), v, d)]]
      PROVE  IInv'
  <2> DEFINE job == Job(select_apply_strategy(w, i), v, d)
             st  == State("Downloading", v, d)
             x   == [u EXCEPT !.staging = d, !.st = st, !.rx = NoMessage, !.job = job]
  <2>1. /\ job \in Jobs /\ job.kind \in {"archive", "setup", "deadEnd"}
        /\ job.dir = d /\ job.ver = v
    BY DEF Job, Jobs, select_apply_strategy
  <2>2. st \in UpdateState /\ st.tag = "Downloading"
    BY DEF State, UpdateState, Tags
  <2>3. NoMessage \in UpdateMsg /\ NoMessage.kind = "none"
    BY DEF NoMessage, Message, UpdateMsg
  <2>4. app' = [app EXCEPT ![p] = x]
    BY <1>3
  <2> HIDE DEF job, st
  <2>5. /\ x \in App /\ x.staging = d /\ x.st = st /\ x.rx = NoMessage /\ x.job = job
        /\ x.run = u.run /\ x.pc = "ui" /\ x.asked = u.asked
        /\ x.chain_apply = u.chain_apply /\ x.launch_kind = u.launch_kind
    BY <2>1, <2>2, <2>3 DEF App
  <2> HIDE DEF x
  <2>6. OK(x, dirs')
    BY <2>1, <2>2, <2>3, <2>5
       DEF OK, JobFits, ResultFits, StateFits, FlagsFit, Ready, InPlace
  <2>7. dirs' \in DirsType
    BY <1>3, Known DEF DirsType, Removed
  <2>8. \A q \in Procs \ {p} : x.staging # app[q].staging
    BY <1>3, <2>5 DEF Unused
  <2>9. \A q \in Procs \ {p}, e \in Dirs : dirs'[e] # dirs[e] => app[q].staging # e
    BY <1>3, Known, DirsAssumption DEF Unused, Removed, DirsType, IInv, Owned
  <2> QED BY <1>1, <2>4, <2>5, <2>6, <2>7, <2>8, <2>9, Known, Frame
<1>4. install_dir_writable \subseteq BOOLEAN /\ Installers \subseteq BOOLEAN
  BY Known, InstallersAssumption DEF install_dir_writable, Disk
<1> QED BY <1>2, <1>3, <1>4 DEF start_download
(* The gate of both routes to an apply, of p which has become u.           *)
LEMMA GateStep ==
  ASSUME IInv, NEW p \in Procs, NEW u \in App, NEW place \in {"probe", "launch"},
         u.staging = app[p].staging, u.pc = "ui",
         u.job.kind = "none", u.rx.kind = "none",
         u.chain_apply => u.asked, u.launch_kind = "Auto" => u.asked,
         u.st.tag = IF place = "probe" THEN "ReadyToApply" ELSE "ReadyToRunInstaller",
         Staged(u, dirs, u.st.dir, u.st.ver), Gated(p, u, place)
  PROVE  IInv'
<1>1. UNCHANGED <<disk, helpers, everRun>>
  BY DEF Gated
<1>2. CASE ~may_apply(u.st.ver, u)
  BY <1>1, <1>2, FailFits, Known, FrameRemoved DEF Gated
<1>3. CASE may_apply(u.st.ver, u)
  <2> DEFINE x == [u EXCEPT !.pc = place, !.seen = disk.verRec]
  <2>1. app' = [app EXCEPT ![p] = x] /\ dirs' = dirs
    BY <1>3 DEF Gated
  <2>2. disk.verRec \in Versions \cup {None} /\ place \in Places
    BY Known DEF Disk, Places
  <2>3. /\ x \in App /\ x.staging = u.staging /\ x.st = u.st /\ x.pc = place
        /\ x.seen = disk.verRec /\ x.run = u.run /\ x.job = u.job /\ x.rx = u.rx
        /\ x.chain_apply = u.chain_apply /\ x.asked = u.asked
        /\ x.launch_kind = u.launch_kind
    BY <2>2, Typed DEF App
  <2>4. u.st.ver > disk.verRec
    <3>1. u.st.ver \in Nat /\ disk.verRec \in Nat /\ u.run \in Nat
      <4>1. Versions \cup {None} \subseteq Nat
        BY VersionsAssumption DEF None
      <4> QED BY <2>2, <4>1 DEF App, UpdateState
    <3>2. u.st.ver > installed_baseline(u)
      BY <1>3 DEF may_apply
    <3> QED BY <3>1, <3>2 DEF installed_baseline
  <2> HIDE DEF x
  <2>5. OK(x, dirs)
    <3>1. JobFits(x) /\ ResultFits(x, dirs) /\ FlagsFit(x)
      BY <2>3 DEF JobFits, ResultFits, FlagsFit
    <3>2. StateFits(x, dirs)
      BY <2>3, <2>4 DEF StateFits, Staged, Ready, InPlace
    <3> QED BY <3>1, <3>2 DEF OK
  <2> QED BY <1>1, <2>1, <2>3, <2>5, Known, FrameSame
<1> QED BY <1>2, <1>3

(* No work is under way outside the two waiting states.                    *)
LEMMA Quiet ==
  ASSUME IInv, NEW p \in Procs, app[p].st.tag \notin {"Checking", "Downloading"}
  PROVE  app[p].job.kind = "none" /\ app[p].rx.kind = "none"
  BY Known DEF OK, JobFits, ResultFits, Jobs, UpdateMsg

LEMMA AskedFits ==
  ASSUME NEW u \in App
  PROVE  LET x == Asked(u)
             y == [x EXCEPT !.chain_apply = TRUE]
         IN  /\ x \in App /\ x.asked /\ y \in App /\ y.asked
             /\ \A z \in {x, y} :
                  /\ z.st = u.st /\ z.pc = u.pc /\ z.job = u.job /\ z.rx = u.rx
                  /\ z.staging = u.staging /\ z.run = u.run
  BY DEF App, Asked

LEMMA DownloadStep ==
  ASSUME IInv, NEW p \in Procs, NEW u \in {app[p], [Asked(app[p]) EXCEPT !.chain_apply = TRUE]},
         app[p].st.tag = "Available", app[p].pc = "ui",
         start_download(p, u, app[p].st.ver)
  PROVE  IInv'
<1>1. app[p].st.ver \in Versions /\ app[p].st.ver > app[p].run
  <2>1. app[p].st.ver > app[p].run /\ app[p].run \in Nat
    BY Known, VersionsAssumption DEF OK, StateFits, None
  <2>2. app[p].st.ver # None
    BY <2>1 DEF None
  <2> QED BY <2>1, <2>2, Known DEF UpdateState
<1>2. app[p].job.kind = "none" /\ app[p].rx.kind = "none"
  BY Quiet
<1>3. /\ u \in App /\ u.pc = "ui" /\ u.job = app[p].job /\ u.rx = app[p].rx
      /\ u.staging = app[p].staging /\ u.run = app[p].run
      /\ u.chain_apply => u.asked /\ (u.launch_kind = "Auto" => u.asked)
      /\ u.launch_kind = "Auto" => u.asked
  <2>1. CASE u = app[p]
    BY <2>1, Known DEF OK, FlagsFit
  <2>2. CASE u = [Asked(app[p]) EXCEPT !.chain_apply = TRUE]
    BY <2>2, Known, AskedFits
  <2> QED BY <2>1, <2>2
<1> QED BY <1>1, <1>2, <1>3, StartDownload

LEMMA ApplyClick ==
  ASSUME IInv, NEW p \in Procs, app[p].pc = "ui",
         \/ apply_and_restart(p, Asked(app[p]))
         \/ run_installer(p, Asked(app[p]))
  PROVE  IInv'
<1> DEFINE u == Asked(app[p])
<1>1. /\ u \in App /\ u.asked /\ u.st = app[p].st /\ u.pc = "ui"
      /\ u.job = app[p].job /\ u.rx = app[p].rx
      /\ u.staging = app[p].staging /\ u.run = app[p].run
  BY Known, AskedFits
<1>2. u.st.tag \in Ready
  BY DEF apply_and_restart, run_installer, Ready
<1>3. Staged(u, dirs, u.st.dir, u.st.ver)
  BY <1>1, <1>2, Known DEF OK, StateFits, Staged, BeforeSwap
<1>4. u.job.kind = "none" /\ u.rx.kind = "none"
  BY <1>1, <1>2, Quiet DEF Ready
<1> HIDE DEF u
<1>5. CASE apply_and_restart(p, u)
  BY <1>1, <1>3, <1>4, <1>5, GateStep DEF apply_and_restart
<1>6. CASE run_installer(p, u)
  BY <1>1, <1>3, <1>4, <1>6, GateStep DEF run_installer
<1> QED BY <1>5, <1>6 DEF u

LEMMA ClickSteps ==
  ASSUME IInv, NEW p \in Procs, Download(p) \/ Apply(p) \/ update_now(p)
  PROVE  IInv'
<1>1. app[p].pc = "ui"
  BY DEF Download, Apply, update_now, Open, Idle
<1> QED BY <1>1, DownloadStep, ApplyClick DEF Download, Apply, update_now

LEMMA DismissStep == ASSUME IInv, NEW p \in Procs, dismiss_banner(p) PROVE IInv'
<1> DEFINE u == [app[p] EXCEPT !.dismissed = TRUE]
<1>1. /\ u \in App /\ u.st = app[p].st /\ u.pc = app[p].pc /\ u.job = app[p].job
      /\ u.rx = app[p].rx /\ u.staging = app[p].staging /\ u.run = app[p].run
      /\ u.seen = app[p].seen /\ u.chain_apply = app[p].chain_apply
      /\ u.asked = app[p].asked /\ u.launch_kind = app[p].launch_kind
  BY Known DEF App
<1>2. /\ app' = [app EXCEPT ![p] = u] /\ UNCHANGED <<disk, dirs, helpers, everRun>>
      /\ app[p].st.tag # "Checking"
  BY DEF dismiss_banner
<1> HIDE DEF u
<1>3. OK(u, dirs)
  BY <1>1, <1>2, Known DEF OK, JobFits, ResultFits, StateFits, FlagsFit, Staged
<1> QED BY <1>1, <1>2, <1>3, Known, FrameSame
----------------------------------------------------------------------------
(* Applying: p moves to another state and place; worker and flags stay.    *)

Moved(u, x) ==
  /\ x \in App /\ x.job = u.job /\ x.rx = u.rx /\ x.run = u.run
  /\ x.chain_apply = u.chain_apply /\ x.asked = u.asked
  /\ x.launch_kind = u.launch_kind /\ x.st.tag # "Checking"

LEMMA MovedFits ==
  ASSUME IInv, NEW p \in Procs, NEW x, Moved(app[p], x),
         app[p].st.tag \in Ready, NEW ds, StateFits(x, ds)
  PROVE  OK(x, ds)
<1>1. x.job.kind = "none" /\ x.rx.kind = "none"
  BY Quiet DEF Moved, Ready
<1>2. FlagsFit(x)
  BY Known DEF Moved, OK, FlagsFit
<1> QED BY <1>1, <1>2 DEF OK, JobFits, ResultFits

(* The places of p say what state it is in.                                *)
LEMMA PlaceState ==
  ASSUME IInv, NEW p \in Procs
  PROVE  /\ app[p].pc \in InPlace => app[p].st.tag = "ReadyToApply"
         /\ app[p].pc = "launch" => app[p].st.tag = "ReadyToRunInstaller"
         /\ app[p].st.tag \in Ready /\ app[p].pc \in BeforeSwap =>
              Staged(app[p], dirs, app[p].st.dir, app[p].st.ver)
         /\ app[p].pc \in {"probe", "backup", "swap"} => app[p].st.ver > app[p].seen
  BY Known DEF OK, StateFits

(* A step that ends in a failure with the directory removed.               *)
LEMMA GivesUp ==
  ASSUME IInv, NEW p \in Procs, app[p].st.tag \in Ready,
         app' = [app EXCEPT ![p] = Fail(cleanup_staging_dir(app[p]))],
         dirs' = Removed(app[p].staging), UNCHANGED <<disk, helpers, everRun>>
  PROVE  IInv'
<1>1. app[p].job.kind = "none" /\ app[p].rx.kind = "none"
  BY Quiet DEF Ready
<1>2. /\ app[p].chain_apply => app[p].asked
      /\ app[p].launch_kind = "Auto" => app[p].asked
  BY Known DEF OK, FlagsFit
<1> QED BY <1>1, <1>2, FailFits, Known, FrameRemoved

(* A step to another place of apply_and_restart.                           *)
LEMMA PlaceStep ==
  ASSUME IInv, NEW p \in Procs, NEW pc \in InPlace, NEW seen \in Versions \cup {None},
         app' = [app EXCEPT ![p] = [@ EXCEPT !.pc = pc, !.seen = seen]],
         app[p].pc \in InPlace,
         pc \in BeforeSwap => app[p].pc \in BeforeSwap /\ seen = app[p].seen,
         disk' \in Disk, UNCHANGED <<dirs, helpers, everRun>>
  PROVE  IInv'
<1> DEFINE x == [app[p] EXCEPT !.pc = pc, !.seen = seen]
<1>1. /\ x \in App /\ x.pc = pc /\ x.seen = seen /\ x.st = app[p].st
      /\ x.staging = app[p].staging /\ x.job = app[p].job /\ x.rx = app[p].rx
      /\ x.run = app[p].run /\ x.chain_apply = app[p].chain_apply
      /\ x.asked = app[p].asked /\ x.launch_kind = app[p].launch_kind
  <2>1. pc \in Places /\ app[p] \in App
    BY Known DEF InPlace, Places
  <2>2. x \in App
    BY <2>1 DEF App
  <2> QED BY <2>1, <2>2 DEF App
<1>2. app' = [app EXCEPT ![p] = x]
  OBVIOUS
<1> HIDE DEF x
<1>3. app[p].st.tag = "ReadyToApply"
  BY PlaceState
<1>4. Moved(app[p], x)
  BY <1>1, <1>3 DEF Moved
<1>5. StateFits(x, dirs)
  BY <1>1, <1>3, PlaceState DEF StateFits, Staged, Ready, InPlace, BeforeSwap
<1>6. OK(x, dirs)
  BY <1>3, <1>4, <1>5, MovedFits DEF Ready
<1> QED BY <1>1, <1>2, <1>6, Known, FrameSame

LEMMA ProbeStep == ASSUME IInv, NEW p \in Procs, Probe(p) PROVE IInv'
<1>1. /\ app[p].pc = "probe" /\ UNCHANGED <<disk, helpers, everRun>>
      /\ app[p].st.tag \in Ready
  BY PlaceState DEF Probe, InPlace, Ready
<1>2. CASE app' = [app EXCEPT ![p].pc = "backup"] /\ dirs' = dirs
  <2>1. [app[p] EXCEPT !.pc = "backup"] =
          [app[p] EXCEPT !.pc = "backup", !.seen = app[p].seen]
    BY Known DEF App
  <2>2. app' = [app EXCEPT ![p] = [@ EXCEPT !.pc = "backup", !.seen = app[p].seen]]
    BY <1>2, <2>1, Known DEF IInv, TypeOK, App
  <2> QED BY <1>1, <1>2, <2>2, Known, PlaceStep DEF InPlace, BeforeSwap
<1>3. CASE /\ app' = [app EXCEPT ![p] = Fail(cleanup_staging_dir(app[p]))]
           /\ dirs' = Removed(app[p].staging)
  BY <1>1, <1>3, GivesUp
<1> QED BY <1>2, <1>3 DEF Probe

LEMMA BackUpStep == ASSUME IInv, NEW p \in Procs, BackUp(p) PROVE IInv'
<1>1. app[p].pc = "backup" /\ UNCHANGED <<dirs, helpers, everRun>>
  BY DEF BackUp
<1>2. disk' \in Disk
  BY Known DEF BackUp, Disk
<1>3. app' = [app EXCEPT ![p] = [@ EXCEPT !.pc = "swap", !.seen = app[p].seen]]
  <2>1. [app[p] EXCEPT !.pc = "swap"] =
          [app[p] EXCEPT !.pc = "swap", !.seen = app[p].seen]
    BY Known DEF App
  <2> QED BY <2>1, Known DEF BackUp, IInv, TypeOK, App
<1> QED BY <1>1, <1>2, <1>3, Known, PlaceStep DEF InPlace, BeforeSwap

LEMMA SwapStep == ASSUME IInv, NEW p \in Procs, Swap(p) PROVE IInv'
<1> DEFINE u == app[p]
<1>1. /\ u.pc = "swap" /\ UNCHANGED <<helpers, everRun>>
      /\ dirs' = Removed(u.staging) /\ u.st.tag = "ReadyToApply"
  BY PlaceState DEF Swap, InPlace
<1>2. CASE /\ dirs[u.st.dir] \in Versions
           /\ disk' = [disk EXCEPT !.exe = dirs[u.st.dir]]
           /\ app' = [app EXCEPT ![p] = [cleanup_staging_dir(u) EXCEPT !.pc = "recRead"]]
  <2> DEFINE x == [cleanup_staging_dir(u) EXCEPT !.pc = "recRead"]
  <2>1. /\ x \in App /\ x.pc = "recRead" /\ x.st = u.st /\ x.staging = NoDir
        /\ x.job = u.job /\ x.rx = u.rx /\ x.run = u.run
        /\ x.chain_apply = u.chain_apply /\ x.asked = u.asked
        /\ x.launch_kind = u.launch_kind
    BY Known DEF App, cleanup_staging_dir, Places
  <2>2. app' = [app EXCEPT ![p] = x]
    BY <1>2
  <2> HIDE DEF x
  <2>3. Moved(app[p], x) /\ StateFits(x, dirs')
    BY <1>1, <2>1 DEF Moved, StateFits, Ready, BeforeSwap
  <2>4. OK(x, dirs')
    BY <1>1, <2>3, MovedFits DEF Ready
  <2>5. disk' \in Disk
    BY <1>2, Known DEF Disk
  <2> QED BY <1>1, <2>1, <2>2, <2>4, <2>5, Known, FrameRemoved
<1>3. CASE app' = [app EXCEPT ![p] = Fail(cleanup_staging_dir(u))] /\ disk' = disk
  BY <1>1, <1>3, GivesUp DEF Ready
<1> QED BY <1>2, <1>3 DEF Swap

LEMMA RecordSteps ==
  ASSUME IInv, NEW p \in Procs,
         RecRead(p) \/ RecWrite(p) \/ IdxRead(p) \/ IdxWrite(p)
  PROVE  IInv'
<1>1. UNCHANGED <<dirs, helpers, everRun>>
  BY DEF RecRead, RecWrite, IdxRead, IdxWrite
<1>2. /\ disk.verRec \in Versions \cup {None} /\ disk.idxRec \in Versions \cup {None}
      /\ None \in Versions \cup {None} /\ app[p].st.ver \in Versions \cup {None}
  BY Known DEF Disk, UpdateState
<1>3. \A seen, old \in Versions \cup {None} :
        Recorded(seen, old, app[p].st.ver) \subseteq Versions \cup {None}
  BY <1>2 DEF Recorded
<1>4. disk' \in Disk
  <2>1. \A rec \in Versions \cup {None} :
          /\ [disk EXCEPT !.verRec = rec] \in Disk
          /\ [disk EXCEPT !.idxRec = rec] \in Disk
    BY Known DEF Disk
  <2>2. app[p].seen \in Versions \cup {None}
    BY Known
  <2>3. CASE RecRead(p)
    BY <2>3, Known DEF RecRead
  <2>4. CASE RecWrite(p)
    BY <1>2, <1>3, <2>1, <2>2, <2>4 DEF RecWrite
  <2>5. CASE IdxRead(p)
    BY <2>5, Known DEF IdxRead
  <2>6. CASE IdxWrite(p)
    BY <1>2, <1>3, <2>1, <2>2, <2>6 DEF IdxWrite
  <2> QED BY <2>3, <2>4, <2>5, <2>6
<1>5. \E pc \in {"recWrite", "idxRead", "idxWrite", "spawn"}, seen \in Versions \cup {None} :
        app' = [app EXCEPT ![p] = [@ EXCEPT !.pc = pc, !.seen = seen]]
  <2> DEFINE S == Versions \cup {None}
             Moves(pc, seen) ==
               app' = [app EXCEPT ![p] = [@ EXCEPT !.pc = pc, !.seen = seen]]
  <2>1. \A pc, seen : app' = [app EXCEPT ![p].pc = pc, ![p].seen = seen]
                       => Moves(pc, seen)
    BY Known DEF IInv, TypeOK, App
  <2>2. \/ app' = [app EXCEPT ![p].pc = "recWrite", ![p].seen = disk.verRec]
        \/ app' = [app EXCEPT ![p].pc = "idxRead", ![p].seen = None]
        \/ app' = [app EXCEPT ![p].pc = "idxWrite", ![p].seen = disk.idxRec]
        \/ app' = [app EXCEPT ![p].pc = "spawn", ![p].seen = None]
    BY ZenonT(60) DEF RecRead, RecWrite, IdxRead, IdxWrite
  <2> HIDE DEF Moves
  <2>3. \/ Moves("recWrite", disk.verRec) \/ Moves("idxRead", None)
        \/ Moves("idxWrite", disk.idxRec) \/ Moves("spawn", None)
    BY <2>1, <2>2, ZenonT(60)
  <2>4. \E pc \in {"recWrite", "idxRead", "idxWrite", "spawn"}, seen \in S : Moves(pc, seen)
    BY <1>2, <2>3
  <2> QED BY <2>4 DEF Moves
<1>6. app[p].pc \in InPlace
  BY DEF RecRead, RecWrite, IdxRead, IdxWrite, InPlace
<1> QED BY <1>1, <1>4, <1>5, <1>6, PlaceStep DEF InPlace, BeforeSwap

(* The end of an apply: Applied, or Failed of a rolled back update.        *)
LEMMA EndStep ==
  ASSUME IInv, NEW p \in Procs, NEW tag \in {"Applied", "Failed"},
         NEW v \in Versions \cup {None}, app[p].st.tag \in Ready,
         app' = [app EXCEPT ![p] = [@ EXCEPT !.st = State(tag, v, NoDir), !.pc = "ui"]],
         disk' \in Disk, helpers' \subseteq Dirs, UNCHANGED <<dirs, everRun>>
  PROVE  IInv'
<1> DEFINE st == State(tag, v, NoDir)
           x  == [app[p] EXCEPT !.st = st, !.pc = "ui"]
<1>1. st \in UpdateState /\ st.tag = tag /\ "ui" \in Places
  BY DEF State, UpdateState, Tags, Places
<1>2. app' = [app EXCEPT ![p] = x]
  OBVIOUS
<1> HIDE DEF st
<1>3. /\ x \in App /\ x.pc = "ui" /\ x.st = st /\ x.staging = app[p].staging
      /\ x.job = app[p].job /\ x.rx = app[p].rx /\ x.run = app[p].run
      /\ x.chain_apply = app[p].chain_apply /\ x.asked = app[p].asked
      /\ x.launch_kind = app[p].launch_kind
  BY <1>1, Known DEF App
<1> HIDE DEF x
<1>4. Moved(app[p], x) /\ StateFits(x, dirs)
  BY <1>1, <1>3 DEF Moved, StateFits, Ready, InPlace
<1>5. OK(x, dirs)
  BY <1>4, MovedFits
<1> QED BY <1>2, <1>3, <1>5, Known, FrameSame

LEMMA SpawnStep == ASSUME IInv, NEW p \in Procs, Spawn(p) PROVE IInv'
<1>1. /\ app[p].st.tag \in Ready /\ app[p].st.ver \in Versions \cup {None}
      /\ UNCHANGED <<dirs, helpers, everRun>> /\ helpers \subseteq Dirs
  BY Known, PlaceState DEF Spawn, InPlace, Ready, UpdateState
<1>2. disk' \in Disk
  BY Known DEF Spawn, Disk
<1>3. \E tag \in {"Applied", "Failed"} :
        app' = [app EXCEPT ![p] = [@ EXCEPT !.st = State(tag, app[p].st.ver, NoDir),
                                            !.pc = "ui"]]
  BY DEF Spawn
<1> QED BY <1>1, <1>2, <1>3, EndStep

LEMMA LaunchInstallerStep == ASSUME IInv, NEW p \in Procs, LaunchInstaller(p) PROVE IInv'
<1>1. /\ app[p].st.tag = "ReadyToRunInstaller" /\ app[p].pc = "launch"
      /\ UNCHANGED <<disk, everRun>>
  BY PlaceState DEF LaunchInstaller
<1>2. /\ app[p].st.dir \in Dirs /\ app[p].st.ver \in Versions \cup {None}
      /\ helpers \subseteq Dirs /\ disk \in Disk
  BY <1>1, Known, PlaceState DEF Staged, Ready, BeforeSwap, UpdateState
<1>3. CASE /\ app' = [app EXCEPT ![p] = [app[p] EXCEPT
                         !.st = State("Applied", app[p].st.ver, NoDir), !.pc = "ui"]]
           /\ helpers' = helpers \cup {app[p].st.dir} /\ dirs' = dirs
  BY <1>1, <1>2, <1>3, EndStep DEF Ready
<1>4. CASE /\ app' = [app EXCEPT ![p] = Fail(cleanup_staging_dir(app[p]))]
           /\ dirs' = Removed(app[p].staging) /\ helpers' = helpers
  BY <1>1, <1>4, GivesUp DEF Ready
<1> QED BY <1>3, <1>4 DEF LaunchInstaller
----------------------------------------------------------------------------
(* poll *)

(* What p is once it has taken its result, before any chaining.            *)
LEMMA ReceivedFits ==
  ASSUME IInv, NEW p \in Procs, app[p].pc = "ui", app[p].rx.kind # "none"
  PROVE  LET u == app[p]
             m == u.rx
             x == Received(u, m)
         IN  /\ x \in App /\ x.pc = "ui" /\ x.job.kind = "none" /\ x.rx.kind = "none"
             /\ x.run = u.run /\ x.asked = u.asked /\ x.chain_apply = u.chain_apply
             /\ x.launch_kind = "Auto" => u.asked
             /\ ~is_busy(x)
             /\ x.staging = IF CleansUp(u, m) THEN NoDir ELSE u.staging
             /\ m.kind = "CheckResult" => x.dismissed = u.dismissed /\ ~x.dismissed
             /\ m.kind # "CheckResult" /\ m.ok =>
                  /\ x.st.tag = IF m.kind = "Downloaded" THEN "ReadyToApply"
                                ELSE "ReadyToRunInstaller"
                  /\ x.st.ver = m.ver /\ x.st.dir = m.dir
                  /\ Staged(x, dirs, x.st.dir, x.st.ver)
             /\ OK(x, dirs)
<1> DEFINE u == app[p]
           m == u.rx
           x == Received(u, m)
           got == [u EXCEPT !.rx = NoMessage]
<1>1. /\ u \in App /\ m \in UpdateMsg /\ u.pc = "ui" /\ u.run \in Versions \cup {None}
      /\ JobFits(u) /\ ResultFits(u, dirs) /\ FlagsFit(u) /\ m.kind # "none"
  BY Known DEF OK
<1>2. /\ got \in App /\ got.rx = NoMessage /\ got.rx.kind = "none"
      /\ got.job = u.job /\ got.job.kind = "none" /\ got.pc = "ui"
      /\ got.run = u.run /\ got.asked = u.asked /\ got.chain_apply = u.chain_apply
      /\ got.launch_kind = u.launch_kind /\ got.staging = u.staging
      /\ got.dismissed = u.dismissed
  <2>1. u.job.kind = "none" /\ NoMessage \in UpdateMsg /\ NoMessage.kind = "none"
    BY <1>1 DEF App, Jobs, JobFits, NoMessage, Message, UpdateMsg
  <2> QED BY <1>1, <2>1 DEF App
<1> HIDE DEF got
<1>3. ASSUME NEW st \in UpdateState
      PROVE  /\ [got EXCEPT !.st = st] \in App
             /\ [got EXCEPT !.launch_kind = "Manual", !.st = st] \in App
  BY <1>2 DEF App, LaunchKind
<1> DEFINE Same(y) == /\ y.job = got.job /\ y.rx = got.rx /\ y.pc = "ui"
                      /\ y.run = got.run /\ y.asked = got.asked
                      /\ y.chain_apply = got.chain_apply /\ y.dismissed = got.dismissed
<1>4. CASE m.kind = "CheckResult"
  <2> DEFINE st == IF ~m.ok THEN Bare("Failed")
                   ELSE IF m.ver = None THEN Bare("UpToDate")
                   ELSE State("Available", m.ver, NoDir)
  <2>1. /\ st \in UpdateState /\ st.tag \in {"Failed", "UpToDate", "Available"}
        /\ st.tag = "Available" => st.ver = m.ver /\ m.ver # None
    BY <1>1 DEF Bare, State, UpdateState, Tags, UpdateMsg
  <2>2. x = [got EXCEPT !.launch_kind = "Manual", !.st = st]
    BY <1>4, ZenonT(60) DEF Received, got
  <2> HIDE DEF st, x
  <2>3. /\ x \in App /\ Same(x) /\ x.st = st /\ x.launch_kind = "Manual"
        /\ x.staging = got.staging
    BY <1>2, <1>3, <2>1, <2>2 DEF App
  <2>4. u.st.tag = "Checking" /\ (m.ver # None => m.ver > u.run) /\ ~u.dismissed
    BY <1>1, <1>4 DEF ResultFits, FlagsFit
  <2>5. OK(x, dirs)
    BY <1>1, <1>2, <2>1, <2>3, <2>4
       DEF OK, JobFits, ResultFits, StateFits, FlagsFit, Ready, InPlace
  <2>6. ~is_busy(x) /\ ~CleansUp(u, m)
    BY <1>4, <2>1, <2>3 DEF is_busy, CleansUp
  <2> QED BY <1>1, <1>2, <1>4, <2>3, <2>4, <2>5, <2>6 DEF x
<1>5. CASE m.kind # "CheckResult" /\ m.ok
  <2> DEFINE tag == IF m.kind = "Downloaded" THEN "ReadyToApply" ELSE "ReadyToRunInstaller"
             st  == State(tag, m.ver, m.dir)
  <2>1. /\ st \in UpdateState /\ st.tag = tag /\ tag \in Ready
        /\ st.ver = m.ver /\ st.dir = m.dir
    BY <1>1 DEF State, UpdateState, Tags, UpdateMsg, Ready
  <2>2. x = [got EXCEPT !.st = st]
    BY <1>1, <1>5 DEF Received, got, UpdateMsg
  <2> HIDE DEF st, x
  <2>3. /\ x \in App /\ Same(x) /\ x.st = st /\ x.launch_kind = u.launch_kind
        /\ x.staging = u.staging
    BY <1>2, <1>3, <2>1, <2>2 DEF App
  <2>4. Staged(u, dirs, m.dir, m.ver)
    BY <1>1, <1>5 DEF ResultFits, UpdateMsg
  <2>5. Staged(x, dirs, x.st.dir, x.st.ver)
    BY <1>2, <2>1, <2>3, <2>4 DEF Staged
  <2>6. OK(x, dirs)
    BY <1>1, <1>2, <2>1, <2>3, <2>5
       DEF OK, JobFits, ResultFits, StateFits, FlagsFit, Ready, InPlace
  <2>7. ~is_busy(x) /\ ~CleansUp(u, m)
    BY <1>5, <2>1, <2>3 DEF is_busy, CleansUp, Ready
  <2>8. x.launch_kind = "Auto" => u.asked
    BY <1>1, <2>3 DEF FlagsFit
  <2> QED BY <1>1, <1>2, <1>5, <2>1, <2>3, <2>5, <2>6, <2>7, <2>8 DEF x
<1>6. CASE m.kind # "CheckResult" /\ ~m.ok
  <2>1. x = Fail(cleanup_staging_dir(got))
    BY <1>6, ZenonT(60) DEF Received, got
  <2>2. /\ got.chain_apply => got.asked
        /\ got.launch_kind = "Auto" => got.asked
    BY <1>1, <1>2 DEF FlagsFit
  <2>3. x \in App /\ x.staging = NoDir /\ OK(x, dirs)
    BY <1>2, <2>1, <2>2, FailFits
  <2>4. Same(x) /\ x.launch_kind = got.launch_kind /\ x.st.tag = "Failed"
    BY <1>2, <2>1 DEF App, Fail, cleanup_staging_dir, Bare, State
  <2> HIDE DEF x
  <2>5. ~is_busy(x) /\ CleansUp(u, m)
    BY <1>6, <2>4 DEF is_busy, CleansUp
  <2> QED BY <1>1, <1>2, <1>6, <2>2, <2>3, <2>4, <2>5 DEF x
<1> QED BY <1>4, <1>5, <1>6

LEMMA Chained ==
  ASSUME NEW u \in App, NEW b \in BOOLEAN
  PROVE  LET x == [u EXCEPT !.chain_apply = b]
         IN  /\ x \in App /\ (x.chain_apply <=> b) /\ x.asked = u.asked
             /\ x.st = u.st /\ x.pc = u.pc /\ x.job = u.job /\ x.rx = u.rx
             /\ x.staging = u.staging /\ x.run = u.run /\ x.launch_kind = u.launch_kind
  BY DEF App

LEMMA PollStep == ASSUME IInv, NEW p \in Procs, poll(p) PROVE IInv'
<1> DEFINE u == app[p]
           m == u.rx
           x == Received(u, m)
<1>1. app[p].pc = "ui" /\ m.kind # "none"
  BY DEF poll, Open, Idle
<1>2. /\ x \in App /\ x.pc = "ui" /\ x.job.kind = "none" /\ x.rx.kind = "none"
      /\ x.run = u.run /\ x.asked = u.asked
      /\ x.launch_kind = "Auto" => x.asked
      /\ x.staging = IF CleansUp(u, m) THEN NoDir ELSE u.staging
      /\ OK(x, dirs)
  BY <1>1, ReceivedFits
<1>3. CASE /\ m.kind = "CheckResult" /\ m.ver # None /\ u.launch_kind = "Auto"
           /\ start_download(p, [x EXCEPT !.chain_apply = TRUE], m.ver)
  <2> DEFINE y == [x EXCEPT !.chain_apply = TRUE]
  <2>1. u.asked /\ m.ver > u.run /\ m.ver \in Versions /\ ~CleansUp(u, m)
    BY <1>3, Known DEF OK, FlagsFit, ResultFits, CleansUp, UpdateMsg
  <2> HIDE DEF x
  <2>2. /\ y \in App /\ y.asked /\ y.pc = "ui" /\ y.job.kind = "none"
        /\ y.rx.kind = "none" /\ y.staging = u.staging /\ y.run = u.run
    BY <1>2, <2>1, Chained
  <2>3. start_download(p, y, m.ver)
    BY <1>3
  <2> HIDE DEF y
  <2> QED BY <2>1, <2>2, <2>3, StartDownload
<1>4. CASE /\ m.kind \in {"Downloaded", "InstallerReady"} /\ m.ok
           /\ LET y == [x EXCEPT !.chain_apply = FALSE]
              IN  apply_and_restart(p, y) \/ run_installer(p, y)
  <2> DEFINE y == [x EXCEPT !.chain_apply = FALSE]
  <2>1. ~CleansUp(u, m) /\ Staged(x, dirs, x.st.dir, x.st.ver)
    BY <1>1, <1>4, ReceivedFits DEF CleansUp
  <2> HIDE DEF x
  <2>2. /\ y \in App /\ ~y.chain_apply /\ y.pc = "ui" /\ y.job.kind = "none"
        /\ y.rx.kind = "none" /\ y.staging = u.staging /\ y.run = u.run
        /\ y.launch_kind = "Auto" => y.asked
        /\ Staged(y, dirs, y.st.dir, y.st.ver)
    BY <1>2, <2>1, Chained DEF Staged
  <2>3. apply_and_restart(p, y) \/ run_installer(p, y)
    BY <1>4
  <2> HIDE DEF y
  <2>4. CASE apply_and_restart(p, y)
    BY <2>2, <2>4, GateStep DEF apply_and_restart
  <2>5. CASE run_installer(p, y)
    BY <2>2, <2>5, GateStep DEF run_installer
  <2> QED BY <2>3, <2>4, <2>5
<1>5. CASE /\ app' = [app EXCEPT ![p] = x]
           /\ dirs' = IF CleansUp(u, m) THEN Removed(u.staging) ELSE dirs
           /\ UNCHANGED <<disk, helpers, everRun>>
  <2> HIDE DEF x
  <2>1. CASE ~CleansUp(u, m)
    BY <1>2, <1>5, <2>1, Known, FrameSame
  <2>2. CASE CleansUp(u, m)
    <3>1. x = Fail(cleanup_staging_dir([u EXCEPT !.rx = NoMessage]))
      BY <2>2, Known DEF x, Received, CleansUp, UpdateMsg
    <3>2. x.st.tag = "Failed"
      BY <3>1, Known DEF Fail, Bare, State, cleanup_staging_dir, App
    <3>3. OK(x, dirs')
      BY <1>2, <3>2 DEF OK, JobFits, ResultFits, StateFits, FlagsFit, Ready, InPlace
    <3> QED BY <1>2, <1>5, <2>2, <3>3, Known, FrameRemoved
  <2> QED BY <2>1, <2>2
<1> QED BY <1>3, <1>4, <1>5 DEF poll

----------------------------------------------------------------------------
(* Processes and helpers *)

LEMMA FreshFits ==
  ASSUME NEW v \in Versions \cup {None}, NEW ds
  PROVE  Fresh(v) \in App /\ OK(Fresh(v), ds) /\ Fresh(v).staging = NoDir
<1>1. /\ Bare("Idle") \in UpdateState /\ Bare("Idle").tag = "Idle"
      /\ NoJob \in Jobs /\ NoJob.kind = "none"
      /\ NoMessage \in UpdateMsg /\ NoMessage.kind = "none"
  BY DEF Bare, State, UpdateState, Tags, NoJob, Job, Jobs, NoMessage, Message, UpdateMsg
<1>2. Fresh(v) \in App
  BY <1>1 DEF Fresh, App, LaunchKind, Places
<1>3. OK(Fresh(v), ds)
  BY <1>1 DEF Fresh, OK, JobFits, ResultFits, StateFits, FlagsFit, Ready, InPlace
<1> QED BY <1>2, <1>3 DEF Fresh

LEMMA ProcessSteps == ASSUME IInv, NEW p \in Procs, Launch(p) \/ Exit(p) PROVE IInv'
<1>1. PICK v \in Versions \cup {None} : app' = [app EXCEPT ![p] = Fresh(v)]
  BY Known DEF Launch, Exit, Disk
<1>2. /\ dirs' = dirs /\ disk' = disk /\ helpers' = helpers
      /\ everRun' \subseteq Versions
  BY Known DEF Launch, Exit, Disk
<1> QED BY <1>1, <1>2, FreshFits, Known, FrameSame

LEMMA HelperStep == ASSUME IInv, NEW d \in Dirs, HelperRuns(d) PROVE IInv'
  BY DEF IInv, TypeOK, Disk, HelperRuns, OK, Owned

----------------------------------------------------------------------------
LEMMA InitOK == Init => IInv
<1> SUFFICES ASSUME Init PROVE IInv
  OBVIOUS
<1>1. \A p \in Procs : /\ app[p] = Fresh(None) /\ app[p] \in App
                        /\ OK(app[p], dirs) /\ app[p].staging = NoDir
  BY FreshFits DEF Init
<1>2. TypeOK
  BY <1>1, VersionsAssumption, ScenesAssumption DEF Init, TypeOK, Disk
<1> QED BY <1>1, <1>2 DEF IInv, Owned

LEMMA NextOK == IInv /\ [Next]_vars => IInv'
<1> SUFFICES ASSUME IInv, [Next]_vars PROVE IInv'
  OBVIOUS
<1>1. ASSUME NEW p \in Procs, UserStep(p) PROVE IInv'
  BY <1>1, CheckSteps, ClickSteps, DismissStep DEF UserStep
<1>2. ASSUME NEW p \in Procs, WorkerEnds(p) PROVE IInv'
  BY <1>2, CheckEndsStep, DeadEndStep, FetchEndsStep DEF WorkerEnds
<1>3. ASSUME NEW p \in Procs, ApplyStep(p) PROVE IInv'
  BY <1>3, ProbeStep, BackUpStep, SwapStep, RecordSteps, SpawnStep,
     LaunchInstallerStep DEF ApplyStep
<1>4. CASE UNCHANGED vars
  BY <1>4 DEF vars, IInv, TypeOK, OK, Owned
<1> QED BY <1>1, <1>2, <1>3, <1>4, PollStep, ProcessSteps, HelperStep DEF Next
----------------------------------------------------------------------------
(* What the steps of p do to p's place and state.                          *)

Steps(p) == UserStep(p) \/ poll(p) \/ WorkerEnds(p) \/ ApplyStep(p) \/ Launch(p) \/ Exit(p)

Announces(p) == app'[p].st.tag = "Available" /\ app[p].st.tag # "Available" =>
                  banner_visible(app'[p])
Restarts(p) == app[p].pc = "ui" /\ app'[p].pc # "ui" => app'[p].asked
SwapsNewer(p) == Swaps(p) => disk'.exe > app[p].run /\ disk'.exe > app[p].seen

Effects(p) == Announces(p) /\ Restarts(p) /\ SwapsNewer(p)

(* A new record u for p, which is where app' is looked up.                 *)
LEMMA Becomes ==
  ASSUME IInv, NEW p \in Procs, NEW u, app' = [app EXCEPT ![p] = u]
  PROVE  app'[p] = u
  BY DEF IInv, TypeOK

LEMMA FailLook ==
  ASSUME NEW u \in App
  PROVE  /\ Fail(cleanup_staging_dir(u)).pc = "ui"
         /\ Fail(cleanup_staging_dir(u)).st.tag = "Failed"
  BY DEF Fail, cleanup_staging_dir, Bare, State, App

LEMMA FailBecomes ==
  ASSUME IInv, NEW p \in Procs, NEW u \in App,
         app' = [app EXCEPT ![p] = Fail(cleanup_staging_dir(u))]
  PROVE  app'[p].pc = "ui" /\ app'[p].st.tag = "Failed"
<1>1. app'[p] = Fail(cleanup_staging_dir(u))
  BY Becomes
<1> QED BY <1>1, FailLook

LEMMA DownloadEffects ==
  ASSUME IInv, NEW p \in Procs, NEW u \in App, NEW v, u.pc = "ui", app[p].pc = "ui",
         start_download(p, u, v)
  PROVE  Effects(p)
<1>1. app'[p].pc = "ui" /\ app'[p].st.tag \in {"Failed", "Downloading"}
  <2>1. CASE app' = [app EXCEPT ![p] = Fail(cleanup_staging_dir(u))]
    BY <2>1, FailBecomes
  <2>2. ASSUME NEW d, NEW job,
               app' = [app EXCEPT ![p] =
                 [u EXCEPT !.staging = d, !.st = State("Downloading", v, d),
                           !.rx = NoMessage, !.job = job]]
        PROVE  app'[p].pc = "ui" /\ app'[p].st.tag = "Downloading"
    <3> DEFINE x == [u EXCEPT !.staging = d, !.st = State("Downloading", v, d),
                              !.rx = NoMessage, !.job = job]
    <3>1. x.pc = "ui" /\ x.st.tag = "Downloading"
      BY DEF State, App
    <3>2. app'[p] = x
      BY <2>2, Becomes
    <3> QED BY <3>1, <3>2
  <2> QED BY <2>1, <2>2 DEF start_download
<1> QED BY <1>1 DEF Effects, Announces, Restarts, SwapsNewer, Swaps

LEMMA GateEffects ==
  ASSUME IInv, NEW p \in Procs, NEW u \in App, NEW place, app[p].pc = "ui", u.asked,
         u.st.tag \in Ready, Gated(p, u, place)
  PROVE  Effects(p)
<1>1. /\ app'[p].st.tag # "Available"
      /\ app'[p].pc # "ui" => app'[p].asked
  <2>1. CASE app' = [app EXCEPT ![p] = Fail(cleanup_staging_dir(u))]
    BY <2>1, FailBecomes
  <2>2. CASE app' = [app EXCEPT ![p] = [u EXCEPT !.pc = place, !.seen = disk.verRec]]
    <3> DEFINE x == [u EXCEPT !.pc = place, !.seen = disk.verRec]
    <3>1. x.asked = u.asked /\ x.st = u.st
      BY DEF App
    <3>2. app'[p] = x
      BY <2>2, Becomes
    <3> HIDE DEF x
    <3> QED BY <3>1, <3>2 DEF Ready
  <2> QED BY <2>1, <2>2 DEF Gated
<1> QED BY <1>1 DEF Effects, Announces, Restarts, SwapsNewer, Swaps

LEMMA CheckEffects ==
  ASSUME IInv, NEW p \in Procs, Check(p) \/ Retry(p) \/ dismiss_banner(p)
  PROVE  Effects(p)
<1>1. app[p].pc = "ui"
  BY DEF Check, Retry, dismiss_banner, Open, Idle
<1>2. app'[p].pc = "ui" /\ app'[p].st.tag \in {"Checking", app[p].st.tag}
  <2>1. ASSUME NEW kind, app' = [app EXCEPT ![p] = start_check(@, kind)]
        PROVE  app'[p].pc = "ui" /\ app'[p].st.tag = "Checking"
    <3>1. start_check(app[p], kind).pc = "ui" /\ start_check(app[p], kind).st.tag = "Checking"
      BY <1>1, Known DEF start_check, Bare, State, App
    <3>2. app'[p] = start_check(app[p], kind)
      BY <2>1, Becomes
    <3> QED BY <3>1, <3>2
  <2>2. CASE app' = [app EXCEPT ![p].dismissed = TRUE]
    BY <1>1, <2>2, Known DEF App, IInv, TypeOK
  <2> QED BY <2>1, <2>2 DEF Check, Retry, dismiss_banner
<1> QED BY <1>1, <1>2 DEF Effects, Announces, Restarts, SwapsNewer, Swaps

LEMMA UserEffects == ASSUME IInv, NEW p \in Procs, UserStep(p) PROVE Effects(p)
<1>1. CASE Check(p) \/ Retry(p) \/ dismiss_banner(p)
  BY <1>1, CheckEffects
<1>2. CASE Download(p) \/ Apply(p) \/ update_now(p)
  <2>1. app[p].pc = "ui"
    BY <1>2 DEF Download, Apply, update_now, Open, Idle
  <2>2. /\ Asked(app[p]) \in App /\ Asked(app[p]).asked
        /\ Asked(app[p]).pc = "ui"
        /\ [Asked(app[p]) EXCEPT !.chain_apply = TRUE] \in App
        /\ [Asked(app[p]) EXCEPT !.chain_apply = TRUE].pc = "ui"
    BY <2>1, Known, AskedFits
  <2>3. ASSUME NEW u \in {app[p], [Asked(app[p]) EXCEPT !.chain_apply = TRUE]},
               start_download(p, u, app[p].st.ver)
        PROVE  Effects(p)
    BY <2>1, <2>2, <2>3, Known, DownloadEffects
  <2>4. CASE apply_and_restart(p, Asked(app[p])) \/ run_installer(p, Asked(app[p]))
    BY <2>1, <2>2, <2>4, GateEffects DEF apply_and_restart, run_installer, Ready
  <2> QED BY <1>2, <2>3, <2>4 DEF Download, Apply, update_now
<1> QED BY <1>1, <1>2 DEF UserStep

LEMMA PollEffects == ASSUME IInv, NEW p \in Procs, poll(p) PROVE Effects(p)
<1> DEFINE u == app[p]
           m == u.rx
           x == Received(u, m)
<1>1. u.pc = "ui" /\ m.kind # "none"
  BY DEF poll, Open, Idle
<1>2. /\ x \in App /\ x.pc = "ui" /\ x.asked = u.asked
      /\ m.kind = "CheckResult" => ~x.dismissed
      /\ m.kind # "CheckResult" /\ m.ok => x.st.tag \in Ready
  BY <1>1, ReceivedFits DEF Ready
<1>3. CASE start_download(p, [x EXCEPT !.chain_apply = TRUE], m.ver)
  <2> HIDE DEF x
  <2>1. [x EXCEPT !.chain_apply = TRUE] \in App /\ [x EXCEPT !.chain_apply = TRUE].pc = "ui"
    BY <1>2, Chained
  <2> QED BY <1>1, <1>3, <2>1, DownloadEffects
<1>4. CASE /\ u.chain_apply
           /\ LET y == [x EXCEPT !.chain_apply = FALSE]
              IN  apply_and_restart(p, y) \/ run_installer(p, y)
  <2> DEFINE y == [x EXCEPT !.chain_apply = FALSE]
  <2>1. u.asked
    BY <1>4, Known DEF OK, FlagsFit
  <2> HIDE DEF x
  <2>2. y \in App /\ y.asked /\ y.st = x.st
    BY <1>2, <2>1, Chained
  <2>3. apply_and_restart(p, y) \/ run_installer(p, y)
    BY <1>4
  <2> HIDE DEF y
  <2> QED BY <1>1, <2>2, <2>3, GateEffects DEF apply_and_restart, run_installer, Ready
<1>5. CASE app' = [app EXCEPT ![p] = x]
  <2>1. m.kind # "CheckResult" => x.st.tag # "Available"
    <3>1. CASE m.kind # "CheckResult" /\ m.ok
      BY <1>2, <3>1 DEF Ready
    <3>2. CASE m.kind # "CheckResult" /\ ~m.ok
      <4>1. x = Fail(cleanup_staging_dir([u EXCEPT !.rx = NoMessage]))
        BY <3>2 DEF Received
      <4> QED BY <4>1, Known DEF Fail, Bare, State, cleanup_staging_dir, App
    <3> QED BY <3>1, <3>2
  <2> HIDE DEF x
  <2>2. app'[p] = x
    BY <1>5, Becomes
  <2>3. Announces(p)
    BY <1>2, <2>1, <2>2 DEF Announces, banner_visible
  <2> QED BY <1>1, <1>2, <2>2, <2>3 DEF Effects, Restarts, SwapsNewer, Swaps
<1> QED BY <1>3, <1>4, <1>5 DEF poll

LEMMA WorkerEffects == ASSUME IInv, NEW p \in Procs, WorkerEnds(p) PROVE Effects(p)
<1>1. PICK m : app' = [app EXCEPT ![p].job = NoJob, ![p].rx = m]
  BY ZenonT(60) DEF WorkerEnds, CheckEnds, DeadEnd, FetchEnds
<1>2. app'[p].pc = app[p].pc /\ app'[p].st = app[p].st
  BY <1>1, Known DEF IInv, TypeOK, App
<1> QED BY <1>2 DEF Effects, Announces, Restarts, SwapsNewer, Swaps

(* The swap itself: what is staged is newer.                               *)
LEMMA SwapEffects == ASSUME IInv, NEW p \in Procs, Swap(p) PROVE Effects(p)
<1> DEFINE u == app[p]
<1>1. /\ u.pc = "swap" /\ u.st.tag = "ReadyToApply"
      /\ Staged(u, dirs, u.st.dir, u.st.ver) /\ u.st.ver > u.seen
  BY PlaceState DEF Swap, InPlace, Ready, BeforeSwap
<1>2. CASE /\ disk' = [disk EXCEPT !.exe = dirs[u.st.dir]]
           /\ app' = [app EXCEPT ![p] = [cleanup_staging_dir(u) EXCEPT !.pc = "recRead"]]
  <2>1. disk'.exe = u.st.ver /\ u.st.ver > u.run
    BY <1>1, <1>2, Known DEF Staged, Disk
  <2>2. app'[p].st = u.st
    BY <1>2, Becomes, Known DEF cleanup_staging_dir, App
  <2> QED BY <1>1, <2>1, <2>2 DEF Effects, Announces, Restarts, SwapsNewer
<1>3. CASE app' = [app EXCEPT ![p] = Fail(cleanup_staging_dir(u))]
  <2>1. app'[p].st.tag = "Failed" /\ app'[p].pc = "ui"
    BY <1>3, Known, FailBecomes
  <2> QED BY <1>1, <2>1 DEF Effects, Announces, Restarts, SwapsNewer, Swaps
<1> QED BY <1>2, <1>3 DEF Swap

LEMMA ApplyEffects == ASSUME IInv, NEW p \in Procs, ApplyStep(p) PROVE Effects(p)
<1>1. CASE Swap(p)
  BY <1>1, SwapEffects
<1>2. CASE \/ Probe(p) \/ BackUp(p) \/ RecRead(p) \/ RecWrite(p)
           \/ IdxRead(p) \/ IdxWrite(p) \/ Spawn(p) \/ LaunchInstaller(p)
  <2>1. app[p].pc # "ui" /\ app[p].pc # "swap"
    BY <1>2 DEF Probe, BackUp, RecRead, RecWrite, IdxRead, IdxWrite, Spawn, LaunchInstaller
  <2>2. app'[p].st.tag # "Available" \/ app'[p].st = app[p].st
    <3>1. CASE app' = [app EXCEPT ![p] = Fail(cleanup_staging_dir(app[p]))]
      BY <3>1, Known, FailBecomes
    <3>2. ASSUME NEW tag \in {"Applied", "Failed"}, NEW v,
                 app' = [app EXCEPT ![p] = [app[p] EXCEPT !.st = State(tag, v, NoDir),
                                                          !.pc = "ui"]]
          PROVE  app'[p].st.tag # "Available"
      <4> DEFINE x == [app[p] EXCEPT !.st = State(tag, v, NoDir), !.pc = "ui"]
      <4>1. x.st.tag = tag
        BY Known DEF State, App
      <4>2. app'[p] = x
        BY <3>2, Becomes
      <4> HIDE DEF x
      <4> QED BY <4>1, <4>2
    <3>3. ASSUME NEW pc, app' = [app EXCEPT ![p].pc = pc]
          PROVE  app'[p].st = app[p].st
      BY <3>3, Known DEF IInv, TypeOK, App
    <3>4. ASSUME NEW pc, NEW seen, app' = [app EXCEPT ![p].pc = pc, ![p].seen = seen]
          PROVE  app'[p].st = app[p].st
      BY <3>4, Known DEF IInv, TypeOK, App
    <3>5. CASE Probe(p) \/ BackUp(p)
      BY <3>1, <3>3, <3>5, ZenonT(60) DEF Probe, BackUp
    <3>6. CASE RecRead(p) \/ RecWrite(p) \/ IdxRead(p) \/ IdxWrite(p)
      BY <3>4, <3>6, ZenonT(60) DEF RecRead, RecWrite, IdxRead, IdxWrite
    <3>7. CASE Spawn(p) \/ LaunchInstaller(p)
      BY <3>1, <3>2, <3>7 DEF Spawn, LaunchInstaller
    <3> QED BY <1>2, <3>5, <3>6, <3>7
  <2> QED BY <2>1, <2>2 DEF Effects, Announces, Restarts, SwapsNewer, Swaps
<1> QED BY <1>1, <1>2 DEF ApplyStep

LEMMA ProcessEffects == ASSUME IInv, NEW p \in Procs, Launch(p) \/ Exit(p) PROVE Effects(p)
<1>1. PICK v : app' = [app EXCEPT ![p] = Fresh(v)]
  BY ZenonT(60) DEF Launch, Exit
<1>2. app'[p].pc = "ui" /\ app'[p].st.tag = "Idle"
  <2>1. Fresh(v).pc = "ui" /\ Fresh(v).st.tag = "Idle"
    BY DEF Fresh, Bare, State
  <2>2. app'[p] = Fresh(v)
    BY <1>1, Becomes
  <2> QED BY <2>1, <2>2
<1> QED BY <1>2 DEF Effects, Announces, Restarts, SwapsNewer, Swaps

(* A step of another instance leaves p alone.                              *)
LEMMA Alone ==
  ASSUME IInv, NEW p \in Procs, NEW q \in Procs, p # q, Steps(q)
  PROVE  app'[p] = app[p]
<1>1. \A f, x : app' = [app EXCEPT ![q] = x] => app'[p] = app[p]
  BY DEF IInv, TypeOK
<1>2. CASE UserStep(q)
  BY <1>2, <1>1, ZenonT(60) DEF UserStep, Check, Retry, Download, Apply, update_now,
     dismiss_banner, start_download, apply_and_restart, run_installer, Gated
<1>3. CASE poll(q)
  BY <1>3, <1>1 DEF poll, start_download, apply_and_restart, run_installer, Gated
<1>4. CASE WorkerEnds(q)
  BY <1>4, <1>1, ZenonT(60) DEF WorkerEnds, CheckEnds, DeadEnd, FetchEnds
<1>5. CASE ApplyStep(q)
  BY <1>5, <1>1, ZenonT(60) DEF ApplyStep, Probe, BackUp, Swap, RecRead, RecWrite, IdxRead,
     IdxWrite, Spawn, LaunchInstaller
<1>6. CASE Launch(q) \/ Exit(q)
  BY <1>6, <1>1, ZenonT(60) DEF Launch, Exit
<1> QED BY <1>2, <1>3, <1>4, <1>5, <1>6 DEF Steps

LEMMA NextEffects == ASSUME IInv, [Next]_vars PROVE \A p \in Procs : Effects(p)
<1> SUFFICES ASSUME NEW p \in Procs PROVE Effects(p)
  OBVIOUS
<1>1. CASE Steps(p)
  BY <1>1, UserEffects, PollEffects, WorkerEffects, ApplyEffects, ProcessEffects DEF Steps
<1>2. CASE app'[p] = app[p]
  BY <1>2 DEF Effects, Announces, Restarts, SwapsNewer, Swaps
<1>3. CASE \E d \in Dirs : HelperRuns(d)
  BY <1>2, <1>3 DEF HelperRuns
<1> QED BY <1>1, <1>2, <1>3, Alone DEF Next, Steps, vars


LEMMA Invariant == Spec => []IInv
  BY InitOK, NextOK, PTL DEF Spec

----------------------------------------------------------------------------
(* Staging directories: what a step of p does to p's own.                  *)

(* p, which runs, keeps its directory or has removed it.                   *)
Tidy(p) ==
  /\ app'[p].run = app[p].run
  /\ \/ app'[p].staging = app[p].staging
     \/ app[p].staging \in Dirs => dirs'[app[p].staging] = Absent

(* A process that does not run has nothing.                                *)
Off == \A p \in Procs : app[p].run = None => app[p] = Fresh(None)

LEMMA FailTidy ==
  ASSUME IInv, NEW p \in Procs, NEW u \in App, u.run = app[p].run,
         app' = [app EXCEPT ![p] = Fail(cleanup_staging_dir(u))],
         dirs' = Removed(app[p].staging)
  PROVE  Tidy(p)
<1>1. app'[p] = Fail(cleanup_staging_dir(u))
  BY Becomes
<1>2. Fail(cleanup_staging_dir(u)).run = u.run
  BY DEF Fail, cleanup_staging_dir, App
<1> QED BY <1>1, <1>2 DEF Tidy, Removed

LEMMA DownloadTidy ==
  ASSUME IInv, NEW p \in Procs, NEW u \in App, NEW v,
         u.run = app[p].run, u.staging = app[p].staging, start_download(p, u, v)
  PROVE  Tidy(p)
<1>1. CASE /\ app' = [app EXCEPT ![p] = Fail(cleanup_staging_dir(u))]
           /\ dirs' = Removed(u.staging)
  BY <1>1, FailTidy
<1>2. ASSUME NEW d \in Dirs, NEW job, Unused(d),
             dirs' = [Removed(u.staging) EXCEPT ![d] = None],
             app' = [app EXCEPT ![p] =
               [u EXCEPT !.staging = d, !.st = State("Downloading", v, d), !.rx = NoMessage,
                         !.job = job]]
      PROVE  Tidy(p)
  <2> DEFINE x == [u EXCEPT !.staging = d, !.st = State("Downloading", v, d),
                            !.rx = NoMessage, !.job = job]
  <2>1. app'[p] = x
    BY <1>2, Becomes
  <2>2. x.run = u.run
    BY DEF App
  <2> HIDE DEF x
  <2>3. d # app[p].staging
    BY <1>2 DEF Unused
  <2>4. app[p].staging \in Dirs => dirs'[app[p].staging] = Absent
    BY <1>2, <2>3 DEF Removed
  <2> QED BY <2>1, <2>2, <2>4 DEF Tidy
<1> QED BY <1>1, <1>2 DEF start_download

LEMMA GateTidy ==
  ASSUME IInv, NEW p \in Procs, NEW u \in App, NEW place,
         u.run = app[p].run, u.staging = app[p].staging, Gated(p, u, place)
  PROVE  Tidy(p)
<1>1. CASE /\ app' = [app EXCEPT ![p] = Fail(cleanup_staging_dir(u))]
           /\ dirs' = Removed(u.staging)
  BY <1>1, FailTidy
<1>2. CASE app' = [app EXCEPT ![p] = [u EXCEPT !.pc = place, !.seen = disk.verRec]]
  <2> DEFINE x == [u EXCEPT !.pc = place, !.seen = disk.verRec]
  <2>1. app'[p] = x
    BY <1>2, Becomes
  <2>2. x.run = u.run /\ x.staging = u.staging
    BY DEF App
  <2> HIDE DEF x
  <2> QED BY <2>1, <2>2 DEF Tidy
<1> QED BY <1>1, <1>2 DEF Gated

LEMMA UserTidy == ASSUME IInv, NEW p \in Procs, UserStep(p) PROVE Tidy(p)
<1>1. CASE Check(p) \/ Retry(p)
  <2>1. PICK kind : app' = [app EXCEPT ![p] = start_check(@, kind)]
    BY <1>1, ZenonT(60) DEF Check, Retry
  <2>2. app'[p] = start_check(app[p], kind)
    BY <2>1, Becomes
  <2>3. /\ start_check(app[p], kind).run = app[p].run
        /\ start_check(app[p], kind).staging = app[p].staging
    BY Known DEF start_check, App
  <2> QED BY <2>2, <2>3 DEF Tidy
<1>2. CASE dismiss_banner(p)
  BY <1>2, Known DEF dismiss_banner, Tidy, App, IInv, TypeOK
<1>3. CASE Download(p) \/ Apply(p) \/ update_now(p)
  <2>1. \A u \in {app[p], Asked(app[p]), [Asked(app[p]) EXCEPT !.chain_apply = TRUE]} :
          u \in App /\ u.run = app[p].run /\ u.staging = app[p].staging
    <3>1. app[p] \in App
      BY Known
    <3> DEFINE x == Asked(app[p])
               y == [x EXCEPT !.chain_apply = TRUE]
    <3>2. x \in App /\ x.run = app[p].run /\ x.staging = app[p].staging
      BY <3>1, AskedFits
    <3>3. y \in App /\ y.run = app[p].run /\ y.staging = app[p].staging
      BY <3>1, AskedFits
    <3> QED BY <3>1, <3>2, <3>3
  <2> QED BY <1>3, <2>1, DownloadTidy, GateTidy
          DEF Download, Apply, update_now, apply_and_restart, run_installer
<1> QED BY <1>1, <1>2, <1>3 DEF UserStep

LEMMA PollTidy == ASSUME IInv, NEW p \in Procs, poll(p) PROVE Tidy(p)
<1> DEFINE u == app[p]
           m == u.rx
           x == Received(u, m)
<1>1. app[p].pc = "ui" /\ m.kind # "none"
  BY DEF poll, Open, Idle
<1>2. /\ x \in App /\ x.run = u.run
      /\ x.staging = IF CleansUp(u, m) THEN NoDir ELSE u.staging
  BY <1>1, ReceivedFits
<1>3. CASE /\ \/ m.kind = "CheckResult"
              \/ m.ok
           /\ \E b \in BOOLEAN :
                LET y == [x EXCEPT !.chain_apply = b]
                IN  \/ start_download(p, y, m.ver)
                    \/ apply_and_restart(p, y) \/ run_installer(p, y)
  <2>1. ~CleansUp(u, m)
    BY <1>3 DEF CleansUp
  <2> HIDE DEF x
  <2>2. PICK b \in BOOLEAN :
          LET y == [x EXCEPT !.chain_apply = b]
          IN  start_download(p, y, m.ver) \/ apply_and_restart(p, y) \/ run_installer(p, y)
    BY <1>3
  <2> DEFINE y == [x EXCEPT !.chain_apply = b]
  <2>3. y \in App /\ y.run = u.run /\ y.staging = u.staging
    BY <1>2, <2>1, Chained
  <2>4. start_download(p, y, m.ver) \/ apply_and_restart(p, y) \/ run_installer(p, y)
    BY <2>2
  <2> HIDE DEF y
  <2> QED BY <2>3, <2>4, DownloadTidy, GateTidy DEF apply_and_restart, run_installer
<1>4. CASE /\ app' = [app EXCEPT ![p] = x]
           /\ dirs' = IF CleansUp(u, m) THEN Removed(u.staging) ELSE dirs
  <2> HIDE DEF x
  <2>1. app'[p] = x
    BY <1>4, Becomes
  <2> QED BY <1>2, <1>4, <2>1 DEF Tidy, Removed
<1> QED BY <1>3, <1>4 DEF poll

LEMMA WorkerTidy == ASSUME IInv, NEW p \in Procs, WorkerEnds(p) PROVE Tidy(p)
<1>1. PICK m : app' = [app EXCEPT ![p].job = NoJob, ![p].rx = m]
  BY ZenonT(60) DEF WorkerEnds, CheckEnds, DeadEnd, FetchEnds
<1>2. app'[p].run = app[p].run /\ app'[p].staging = app[p].staging
  BY <1>1, Known DEF IInv, TypeOK, App
<1> QED BY <1>2 DEF Tidy

LEMMA ApplyTidy == ASSUME IInv, NEW p \in Procs, ApplyStep(p) PROVE Tidy(p)
<1>1. CASE /\ app' = [app EXCEPT ![p] = Fail(cleanup_staging_dir(app[p]))]
           /\ dirs' = Removed(app[p].staging)
  BY <1>1, FailTidy, Known
<1>2. ASSUME NEW pc, app' = [app EXCEPT ![p].pc = pc] PROVE Tidy(p)
  BY <1>2, Known DEF Tidy, IInv, TypeOK, App
<1>3. ASSUME NEW pc, NEW seen, app' = [app EXCEPT ![p].pc = pc, ![p].seen = seen]
      PROVE Tidy(p)
  BY <1>3, Known DEF Tidy, IInv, TypeOK, App
<1>4. ASSUME NEW st, app' = [app EXCEPT ![p] = [app[p] EXCEPT !.st = st, !.pc = "ui"]]
      PROVE Tidy(p)
  BY <1>4, Known DEF Tidy, IInv, TypeOK, App
<1>5. CASE Swap(p)
  <2>1. app'[p].run = app[p].run
    BY ZenonT(30), <1>5, FailTidy, Known DEF Swap, Tidy, cleanup_staging_dir, IInv, TypeOK, App
  <2> QED BY <1>5, <2>1 DEF Swap, Tidy, Removed
<1>6. CASE Probe(p) \/ BackUp(p)
  BY <1>1, <1>2, <1>6, ZenonT(60) DEF Probe, BackUp
<1>7. CASE RecRead(p) \/ RecWrite(p) \/ IdxRead(p) \/ IdxWrite(p)
  BY <1>3, <1>7, ZenonT(60) DEF RecRead, RecWrite, IdxRead, IdxWrite
<1>8. CASE Spawn(p) \/ LaunchInstaller(p)
  BY <1>1, <1>4, <1>8 DEF Spawn, LaunchInstaller
<1> QED BY <1>5, <1>6, <1>7, <1>8 DEF ApplyStep

(* What p does while it runs.                                              *)
Works(p) == UserStep(p) \/ poll(p) \/ WorkerEnds(p) \/ ApplyStep(p)

LEMMA WorksTidy == ASSUME IInv, NEW p \in Procs, Works(p) PROVE Tidy(p)
  BY UserTidy, PollTidy, WorkerTidy, ApplyTidy DEF Works

(* Only what runs does anything.                                           *)
LEMMA WorksRuns == ASSUME IInv, Off, NEW p \in Procs, Works(p) PROVE app[p].run # None
<1> SUFFICES ASSUME app[p] = Fresh(None) PROVE FALSE
  BY DEF Off
<1>1. app[p].run = None /\ app[p].pc = "ui" /\ app[p].job.kind = "none"
  BY DEF Fresh, NoJob, Job
<1>2. ~UserStep(p) /\ ~poll(p)
  BY <1>1 DEF UserStep, poll, Check, Retry, Download, Apply, update_now, dismiss_banner,
              Open, Idle
<1>3. ~WorkerEnds(p)
  BY <1>1 DEF WorkerEnds, CheckEnds, DeadEnd, FetchEnds
<1>4. ~ApplyStep(p)
  BY <1>1 DEF ApplyStep, Probe, BackUp, Swap, RecRead, RecWrite, IdxRead, IdxWrite, Spawn,
              LaunchInstaller
<1> QED BY <1>2, <1>3, <1>4 DEF Works

LEMMA OffStep == IInv /\ Off /\ [Next]_vars => Off'
<1> SUFFICES ASSUME IInv, Off, [Next]_vars, NEW p \in Procs, app'[p].run = None
             PROVE  app'[p] = Fresh(None)
  BY DEF Off
<1>1. CASE Works(p)
  BY <1>1, WorksTidy, WorksRuns DEF Tidy
<1>2. CASE Launch(p)
  <2>1. app'[p] = Fresh(disk.exe)
    BY <1>2, Becomes DEF Launch
  <2>2. Fresh(disk.exe).run = disk.exe
    BY DEF Fresh
  <2> QED BY <2>1, <2>2
<1>3. CASE Exit(p)
  BY <1>3, Becomes DEF Exit
<1>4. CASE app'[p] = app[p]
  BY <1>4 DEF Off
<1>5. CASE \E d \in Dirs : HelperRuns(d)
  BY <1>4, <1>5 DEF HelperRuns
<1> QED BY <1>1, <1>2, <1>3, <1>4, <1>5, Alone DEF Next, Steps, Works, vars

LEMMA OffInvariant == Spec => [](IInv /\ Off)
<1>1. Init => Off
  BY DEF Init, Off
<1> QED BY <1>1, OffStep, Invariant, PTL DEF Spec

(* A step of p forgets no directory that is still there.                   *)
Forgets(p) ==
  LET d == app[p].staging IN
  d # NoDir /\ app'[p].run # None /\ app'[p].staging # d /\ dirs'[d] # Absent

LEMMA NothingForgotten ==
  ASSUME IInv, Off, [Next]_vars, NEW p \in Procs
  PROVE  ~Forgets(p)
<1>1. CASE Works(p)
  BY <1>1, WorksTidy, Known DEF Tidy, Forgets
<1>2. CASE Launch(p)
  <2>1. app[p].staging = NoDir
    BY <1>2 DEF Launch, Off, Fresh
  <2> QED BY <2>1 DEF Forgets
<1>3. CASE Exit(p)
  <2>1. app'[p].run = None
    <3>1. app'[p] = Fresh(None)
      BY <1>3, Becomes DEF Exit
    <3> QED BY <3>1 DEF Fresh
  <2> QED BY <2>1 DEF Forgets
<1>4. CASE app'[p] = app[p]
  BY <1>4 DEF Forgets
<1>5. CASE \E d \in Dirs : HelperRuns(d)
  BY <1>4, <1>5 DEF HelperRuns
<1> QED BY <1>1, <1>2, <1>3, <1>4, <1>5, Alone DEF Next, Steps, Works, vars

----------------------------------------------------------------------------
(* The two routes.  Where the probe finds the directory writable, nobody   *)
(* runs an installer; where it is not, nobody swaps.                       *)

NoSetup(u) ==
  /\ u.job.kind \notin {"setup", "deadEnd"} /\ u.rx.kind # "InstallerReady"
  /\ u.st.tag # "ReadyToRunInstaller"
NoArchive(u) ==
  /\ u.job.kind # "archive" /\ u.rx.kind # "Downloaded" /\ u.st.tag # "ReadyToApply"
  /\ u.st.tag = "Failed" => u.st.ver = None

OnRoute(u) ==
  /\ disk.writable /\ ~May("probe") => NoSetup(u)
  /\ ~disk.writable => NoArchive(u)

Routes ==
  /\ \A p \in Procs : OnRoute(app[p])
  /\ disk.writable /\ ~May("probe") => helpers = {}

(* Of two records with the same work, the one that has failed, or has the  *)
(* state of the other, is on its route.                                    *)
LEMMA SameRoute ==
  ASSUME NEW u, NEW x, OnRoute(u), x.job = u.job, x.rx = u.rx,
         x.st = u.st \/ x.st = Bare("Failed")
  PROVE  OnRoute(x)
<1>1. Bare("Failed").tag = "Failed" /\ Bare("Failed").ver = None
  BY DEF Bare, State
<1> QED BY <1>1 DEF OnRoute, NoSetup, NoArchive

LEMMA FailRecord ==
  ASSUME NEW u \in App
  PROVE  LET f == Fail(cleanup_staging_dir(u))
         IN  /\ f.st = Bare("Failed") /\ f.pc = "ui" /\ f.job = u.job /\ f.rx = u.rx
             /\ f.run = u.run
  BY DEF Fail, cleanup_staging_dir, App

LEMMA DownloadLook ==
  ASSUME IInv, NEW p \in Procs, NEW u \in App, NEW v, u.pc = "ui", OnRoute(u),
         start_download(p, u, v)
  PROVE  /\ app'[p].pc = "ui" /\ OnRoute(app'[p])
         /\ app'[p].st.tag \in {"Failed", "Downloading"}
         /\ app'[p].st.tag = "Failed" => app'[p].st.ver = None
<1>1. CASE app' = [app EXCEPT ![p] = Fail(cleanup_staging_dir(u))]
  <2>1. app'[p] = Fail(cleanup_staging_dir(u))
    BY <1>1, Becomes
  <2>2. OnRoute(app'[p])
    BY <2>1, FailRecord, SameRoute
  <2> QED BY <2>1, <2>2, FailRecord DEF Bare, State
<1>2. ASSUME NEW d, NEW w \in install_dir_writable, NEW i,
             app' = [app EXCEPT ![p] =
               [u EXCEPT !.staging = d, !.st = State("Downloading", v, d), !.rx = NoMessage,
                         !.job = Job(select_apply_strategy(w, i), v, d)]]
      PROVE  app'[p].pc = "ui" /\ OnRoute(app'[p]) /\ app'[p].st.tag = "Downloading"
  <2> DEFINE job == Job(select_apply_strategy(w, i), v, d)
             x == [u EXCEPT !.staging = d, !.st = State("Downloading", v, d),
                            !.rx = NoMessage, !.job = job]
  <2>1. app'[p] = x
    BY <1>2, Becomes
  <2>2. job.kind = IF w THEN "archive" ELSE IF i THEN "setup" ELSE "deadEnd"
    BY DEF Job, select_apply_strategy
  <2> HIDE DEF job
  <2>3. x.pc = "ui" /\ x.st.tag = "Downloading" /\ x.rx.kind = "none" /\ x.job = job
    BY DEF App, State, NoMessage, Message
  <2> HIDE DEF x
  <2>4. /\ disk.writable /\ ~May("probe") => w = TRUE
        /\ ~disk.writable => w = FALSE
    BY Known DEF install_dir_writable, Disk
  <2>5. OnRoute(x)
    BY <2>2, <2>3, <2>4 DEF OnRoute, NoSetup, NoArchive
  <2> QED BY <2>1, <2>3, <2>5
<1>3. CASE \E d \in Dirs, w \in install_dir_writable, i \in Installers :
             app' = [app EXCEPT ![p] =
               [u EXCEPT !.staging = d, !.st = State("Downloading", v, d), !.rx = NoMessage,
                         !.job = Job(select_apply_strategy(w, i), v, d)]]
  <2>1. app'[p].pc = "ui" /\ OnRoute(app'[p]) /\ app'[p].st.tag = "Downloading"
    BY <1>2, <1>3
  <2> QED BY <2>1
<1> QED BY <1>1, <1>3, ZenonT(60) DEF start_download

LEMMA GateLook ==
  ASSUME IInv, NEW p \in Procs, NEW u \in App, NEW place, u.pc = "ui", OnRoute(u),
         Gated(p, u, place)
  PROVE  /\ app'[p].pc \in {"ui", place} /\ OnRoute(app'[p])
         /\ app'[p].st = u.st \/ app'[p].st = Bare("Failed")
<1>1. CASE app' = [app EXCEPT ![p] = Fail(cleanup_staging_dir(u))]
  <2>1. app'[p] = Fail(cleanup_staging_dir(u))
    BY <1>1, Becomes
  <2>2. OnRoute(app'[p])
    BY <2>1, FailRecord, SameRoute
  <2> QED BY <2>1, <2>2, FailRecord
<1>2. CASE app' = [app EXCEPT ![p] = [u EXCEPT !.pc = place, !.seen = disk.verRec]]
  <2> DEFINE x == [u EXCEPT !.pc = place, !.seen = disk.verRec]
  <2>1. app'[p] = x
    BY <1>2, Becomes
  <2>2. x.pc = place /\ x.st = u.st /\ x.job = u.job /\ x.rx = u.rx
    BY DEF App
  <2> HIDE DEF x
  <2>3. OnRoute(x)
    BY <2>2, SameRoute
  <2> QED BY <2>1, <2>2, <2>3
<1> QED BY <1>1, <1>2 DEF Gated

(* A step of the event loop: it begins and ends before a swap, leaves the  *)
(* disk alone, and claims nothing of the executable.                       *)
Calm(p) ==
  /\ UNCHANGED <<disk, helpers>>
  /\ app[p].pc = "ui" /\ app'[p].pc \in {"ui", "launch", "probe"}
  /\ app[p].st.tag # "Applied" /\ app'[p].st.tag # "Applied"
  /\ app'[p].st = app[p].st \/ (app'[p].st.tag = "Failed" => app'[p].st.ver = None)
  /\ OnRoute(app'[p])

LEMMA UserCalm ==
  ASSUME IInv, NEW p \in Procs, OnRoute(app[p]), UserStep(p) PROVE Calm(p)
<1>1. /\ app[p].pc = "ui" /\ app[p].st.tag # "Applied" /\ app[p] \in App
      /\ UNCHANGED <<disk, helpers>>
  BY Known DEF UserStep, Check, Retry, Download, Apply, update_now, dismiss_banner,
     start_download, apply_and_restart, run_installer, Gated, Open, Idle
<1>2. CASE Check(p) \/ Retry(p)
  <2>1. PICK kind : app' = [app EXCEPT ![p] = start_check(@, kind)]
    BY <1>2, ZenonT(60) DEF Check, Retry
  <2> DEFINE x == start_check(app[p], kind)
  <2>2. app'[p] = x
    BY <2>1, Becomes
  <2>3. x.pc = "ui" /\ x.st.tag = "Checking" /\ x.job.kind = "check" /\ x.rx.kind = "none"
    BY <1>1 DEF start_check, App, Bare, State, Job, NoMessage, Message
  <2> HIDE DEF x
  <2> QED BY <1>1, <2>2, <2>3 DEF Calm, OnRoute, NoSetup, NoArchive
<1>3. CASE dismiss_banner(p)
  <2>1. /\ app'[p].pc = "ui" /\ app'[p].st = app[p].st /\ app'[p].job = app[p].job
        /\ app'[p].rx = app[p].rx
    BY <1>1, <1>3 DEF dismiss_banner, App, IInv, TypeOK
  <2>2. OnRoute(app'[p])
    BY <2>1, SameRoute
  <2> QED BY <1>1, <2>1, <2>2 DEF Calm
<1>4. CASE Download(p) \/ Apply(p) \/ update_now(p)
  <2> DEFINE x == Asked(app[p])
             y == [x EXCEPT !.chain_apply = TRUE]
  <2>1. \A z \in {x, y} : z \in App /\ z.st = app[p].st /\ z.pc = "ui"
                          /\ z.job = app[p].job /\ z.rx = app[p].rx
    BY <1>1, AskedFits
  <2>2. \A z \in {x, y, app[p]} : z \in App /\ OnRoute(z) /\ z.st = app[p].st /\ z.pc = "ui"
    BY <1>1, <2>1, SameRoute
  <2> HIDE DEF x, y
  <2>3. ASSUME NEW z \in {x, y, app[p]}, NEW v, start_download(p, z, v) PROVE Calm(p)
    BY <1>1, <2>2, <2>3, DownloadLook DEF Calm
  <2>4. ASSUME NEW z \in {x, y, app[p]}, NEW place \in {"probe", "launch"},
               Gated(p, z, place)
        PROVE  Calm(p)
    <3>1. Bare("Failed").tag = "Failed" /\ Bare("Failed").ver = None
      BY DEF Bare, State
    <3> QED BY <1>1, <2>2, <2>4, <3>1, GateLook DEF Calm
  <2> QED BY <1>4, <2>3, <2>4
          DEF Download, Apply, update_now, apply_and_restart, run_installer, x, y
<1> QED BY <1>2, <1>3, <1>4 DEF UserStep

LEMMA PollCalm == ASSUME IInv, NEW p \in Procs, OnRoute(app[p]), poll(p) PROVE Calm(p)
<1> DEFINE u == app[p]
           m == u.rx
           x == Received(u, m)
<1>1. /\ u.pc = "ui" /\ m.kind # "none" /\ u.st.tag # "Applied"
      /\ UNCHANGED <<disk, helpers>>
  BY DEF poll, Open, Idle, start_download, apply_and_restart, run_installer, Gated
<1>2. /\ x \in App /\ x.pc = "ui" /\ x.job.kind = "none" /\ x.rx.kind = "none"
  BY <1>1, ReceivedFits
<1>3. /\ x.st.tag # "Applied"
      /\ x.st.tag = "Failed" => x.st.ver = None
      /\ x.st.tag = "ReadyToApply" => m.kind = "Downloaded"
      /\ x.st.tag = "ReadyToRunInstaller" => m.kind = "InstallerReady"
  <2> DEFINE got == [u EXCEPT !.rx = NoMessage]
  <2>1. u \in App /\ got \in App /\ m \in UpdateMsg
    BY Known DEF App, NoMessage, Message, UpdateMsg
  <2> HIDE DEF got
  <2>2. CASE m.kind = "CheckResult"
    <3> DEFINE st == IF ~m.ok THEN Bare("Failed")
                     ELSE IF m.ver = None THEN Bare("UpToDate")
                     ELSE State("Available", m.ver, NoDir)
    <3>1. /\ st.tag \in {"Failed", "UpToDate", "Available"}
          /\ st.tag = "Failed" => st.ver = None
      BY DEF Bare, State
    <3>2. x = [got EXCEPT !.launch_kind = "Manual", !.st = st]
      BY <2>2, ZenonT(60) DEF Received, got
    <3> HIDE DEF st, x
    <3>3. x.st = st
      BY <2>1, <3>2 DEF App
    <3> QED BY <3>1, <3>3
  <2>3. CASE m.kind # "CheckResult" /\ m.ok
    BY <1>1, <2>1, <2>3, ReceivedFits DEF UpdateMsg
  <2>4. CASE m.kind # "CheckResult" /\ ~m.ok
    <3>1. x = Fail(cleanup_staging_dir(got))
      BY <2>4, ZenonT(60) DEF Received, got
    <3>2. x.st = Bare("Failed")
      BY <2>1, <3>1, FailRecord
    <3> QED BY <3>2 DEF Bare, State
  <2> QED BY <2>2, <2>3, <2>4
<1>4. OnRoute(x)
  BY <1>2, <1>3 DEF OnRoute, NoSetup, NoArchive
<1> HIDE DEF x
<1>5. ASSUME NEW b \in BOOLEAN
      PROVE  LET y == [x EXCEPT !.chain_apply = b]
             IN  y \in App /\ y.pc = "ui" /\ y.st = x.st /\ OnRoute(y)
  BY <1>2, <1>4, Chained, SameRoute
<1>6. ASSUME NEW b \in BOOLEAN, start_download(p, [x EXCEPT !.chain_apply = b], m.ver)
      PROVE  Calm(p)
  BY <1>1, <1>5, <1>6, DownloadLook DEF Calm
<1>7. ASSUME NEW b \in BOOLEAN, NEW place \in {"probe", "launch"},
             Gated(p, [x EXCEPT !.chain_apply = b], place)
      PROVE  Calm(p)
  <2> DEFINE y == [x EXCEPT !.chain_apply = b]
  <2>1. y \in App /\ y.pc = "ui" /\ y.st = x.st /\ OnRoute(y) /\ Gated(p, y, place)
    BY <1>5, <1>7
  <2>2. Bare("Failed").tag = "Failed" /\ Bare("Failed").ver = None
    BY DEF Bare, State
  <2> HIDE DEF y
  <2> QED BY <1>1, <1>3, <2>1, <2>2, GateLook DEF Calm
<1>8. CASE app' = [app EXCEPT ![p] = x]
  <2>1. app'[p] = x
    BY <1>8, Becomes
  <2> QED BY <1>1, <1>2, <1>3, <1>4, <2>1 DEF Calm
<1> QED BY <1>6, <1>7, <1>8 DEF poll, apply_and_restart, run_installer, x

(* A worker changes neither the state nor the place, and answers for the   *)
(* route it was started on.                                                *)
LEMMA WorkerLook ==
  ASSUME IInv, NEW p \in Procs, OnRoute(app[p]), WorkerEnds(p)
  PROVE  /\ app'[p].st = app[p].st /\ app'[p].pc = app[p].pc
         /\ UNCHANGED <<disk, helpers>> /\ OnRoute(app'[p])
<1> DEFINE job == app[p].job
<1>1. PICK m : /\ app' = [app EXCEPT ![p].job = NoJob, ![p].rx = m]
               /\ m.kind = IF job.kind = "check" THEN "CheckResult"
                           ELSE IF job.kind = "archive" THEN "Downloaded"
                           ELSE "InstallerReady"
               /\ job.kind \in {"check", "archive", "setup", "deadEnd"}
  <2>1. \A k, ok, v, d : Message(k, ok, v, d).kind = k
    BY DEF Message
  <2>2. \A ok : Delivered(job, ok).kind =
                  IF job.kind = "archive" THEN "Downloaded" ELSE "InstallerReady"
    BY <2>1 DEF Delivered
  <2>3. CASE CheckEnds(p)
    <3>1. job.kind = "check"
      BY <2>3 DEF CheckEnds
    <3>2. PICK ok, v : app' = [app EXCEPT ![p].job = NoJob,
                                ![p].rx = Message("CheckResult", ok, v, NoDir)]
      BY <2>3, ZenonT(60) DEF CheckEnds
    <3> DEFINE m == Message("CheckResult", ok, v, NoDir)
    <3>3. app' = [app EXCEPT ![p].job = NoJob, ![p].rx = m] /\ m.kind = "CheckResult"
      BY <2>1, <3>2
    <3> HIDE DEF m
    <3> QED BY <3>1, <3>3
  <2>4. CASE DeadEnd(p)
    <3>1. job.kind = "deadEnd"
      BY <2>4 DEF DeadEnd
    <3>2. app' = [app EXCEPT ![p].job = NoJob,
                             ![p].rx = Message("InstallerReady", FALSE, None, NoDir)]
      BY <2>4 DEF DeadEnd
    <3> DEFINE m == Message("InstallerReady", FALSE, None, NoDir)
    <3>3. app' = [app EXCEPT ![p].job = NoJob, ![p].rx = m] /\ m.kind = "InstallerReady"
      BY <2>1, <3>2
    <3> HIDE DEF m
    <3> QED BY <3>1, <3>3
  <2>5. CASE FetchEnds(p)
    <3>1. PICK ok : app' = [app EXCEPT ![p].job = NoJob, ![p].rx = Delivered(job, ok)]
      BY <2>5, ZenonT(60) DEF FetchEnds
    <3>2. job.kind \in {"archive", "setup"}
      BY <2>5 DEF FetchEnds
    <3> QED BY <2>2, <3>1, <3>2
  <2> QED BY <2>3, <2>4, <2>5 DEF WorkerEnds
<1>2. /\ app'[p].st = app[p].st /\ app'[p].pc = app[p].pc
      /\ app'[p].job.kind = "none" /\ app'[p].rx = m
  <2>1. NoJob.kind = "none"
    BY DEF NoJob, Job
  <2> QED BY <1>1, <2>1, Known DEF IInv, TypeOK, App
<1>3. UNCHANGED <<disk, helpers>>
  BY DEF WorkerEnds, CheckEnds, DeadEnd, FetchEnds
<1> QED BY <1>1, <1>2, <1>3 DEF OnRoute, NoSetup, NoArchive

(* What an apply step leaves of p, by how it ends.                         *)
ApplyLook(p, st, pc) ==
  app'[p].st = st /\ app'[p].pc = pc /\ app'[p].job = app[p].job /\ app'[p].rx = app[p].rx

LEMMA FailLooks ==
  ASSUME IInv, NEW p \in Procs, app' = [app EXCEPT ![p] = Fail(cleanup_staging_dir(app[p]))]
  PROVE  ApplyLook(p, Bare("Failed"), "ui")
<1>1. app'[p] = Fail(cleanup_staging_dir(app[p]))
  BY Becomes
<1> QED BY <1>1, Known, FailRecord DEF ApplyLook

LEMMA PlaceLooks ==
  ASSUME IInv, NEW p \in Procs, NEW pc, NEW seen,
         \/ app' = [app EXCEPT ![p].pc = pc]
         \/ app' = [app EXCEPT ![p].pc = pc, ![p].seen = seen]
         \/ app' = [app EXCEPT ![p] = [cleanup_staging_dir(app[p]) EXCEPT !.pc = pc]]
  PROVE  ApplyLook(p, app[p].st, pc)
<1>1. app \in [Procs -> App] /\ app[p] \in App
  BY Known DEF IInv, TypeOK
<1>2. CASE app' = [app EXCEPT ![p].pc = pc]
  BY <1>1, <1>2 DEF ApplyLook, App
<1>3. CASE app' = [app EXCEPT ![p].pc = pc, ![p].seen = seen]
  BY <1>1, <1>3 DEF ApplyLook, App
<1>4. CASE app' = [app EXCEPT ![p] = [cleanup_staging_dir(app[p]) EXCEPT !.pc = pc]]
  BY <1>1, <1>4 DEF ApplyLook, App, cleanup_staging_dir
<1> QED BY <1>2, <1>3, <1>4

LEMMA EndLooks ==
  ASSUME IInv, NEW p \in Procs, NEW tag,
         app' = [app EXCEPT ![p] =
           [app[p] EXCEPT !.st = State(tag, app[p].st.ver, NoDir), !.pc = "ui"]]
  PROVE  ApplyLook(p, State(tag, app[p].st.ver, NoDir), "ui")
<1> DEFINE st == State(tag, app[p].st.ver, NoDir)
           x == [app[p] EXCEPT !.st = st, !.pc = "ui"]
<1>1. app'[p] = x
  BY Becomes
<1> HIDE DEF st
<1>2. x.st = st /\ x.pc = "ui" /\ x.job = app[p].job /\ x.rx = app[p].rx
  BY Known DEF App
<1> HIDE DEF x
<1>3. ApplyLook(p, st, "ui")
  BY <1>1, <1>2 DEF ApplyLook
<1> QED BY <1>3 DEF st

AfterSwap == {"recRead", "recWrite", "idxRead", "idxWrite", "spawn"}

(* The steps of an apply by what they do to the disk.                      *)
LEMMA ProbeLook == ASSUME IInv, NEW p \in Procs, Probe(p)
  PROVE  /\ app[p].pc = "probe" /\ UNCHANGED <<disk, helpers>>
         /\ ApplyLook(p, app[p].st, "backup") \/ ApplyLook(p, Bare("Failed"), "ui")
<1>1. app[p].pc = "probe" /\ UNCHANGED <<disk, helpers>>
  BY DEF Probe
<1>2. \/ app' = [app EXCEPT ![p].pc = "backup"]
      \/ app' = [app EXCEPT ![p] = Fail(cleanup_staging_dir(app[p]))]
  BY DEF Probe
<1> QED BY <1>1, <1>2, PlaceLooks, FailLooks

LEMMA BackUpLook == ASSUME IInv, NEW p \in Procs, BackUp(p)
  PROVE  /\ app[p].pc = "backup" /\ UNCHANGED helpers
         /\ disk'.exe = disk.exe /\ disk'.writable = disk.writable
         /\ ~May("backup") => disk'.bak = disk.exe
         /\ ApplyLook(p, app[p].st, "swap")
<1>1. app[p].pc = "backup" /\ UNCHANGED helpers /\ app' = [app EXCEPT ![p].pc = "swap"]
  BY DEF BackUp
<1>2. /\ disk'.exe = disk.exe /\ disk'.writable = disk.writable
      /\ ~May("backup") => disk'.bak = disk.exe
  BY Known DEF BackUp, Disk
<1> QED BY <1>1, <1>2, PlaceLooks

LEMMA SwapLook == ASSUME IInv, NEW p \in Procs, Swap(p)
  PROVE  /\ app[p].pc = "swap" /\ UNCHANGED helpers
         /\ disk'.bak = disk.bak /\ disk'.writable = disk.writable
         /\ \/ ApplyLook(p, Bare("Failed"), "ui") /\ disk' = disk
            \/ /\ ApplyLook(p, app[p].st, "recRead")
               /\ disk'.exe = app[p].st.ver /\ app[p].st.ver > app[p].run
<1> DEFINE u == app[p]
<1>1. /\ u.pc = "swap" /\ UNCHANGED helpers /\ Staged(u, dirs, u.st.dir, u.st.ver)
  BY PlaceState DEF Swap, InPlace, Ready, BeforeSwap
<1>2. CASE /\ disk' = [disk EXCEPT !.exe = dirs[u.st.dir]]
           /\ app' = [app EXCEPT ![p] = [cleanup_staging_dir(u) EXCEPT !.pc = "recRead"]]
  <2>1. /\ disk'.exe = u.st.ver /\ u.st.ver > u.run
        /\ disk'.bak = disk.bak /\ disk'.writable = disk.writable
    BY <1>1, <1>2, Known DEF Staged, Disk
  <2> QED BY <1>1, <1>2, <2>1, PlaceLooks
<1>3. CASE app' = [app EXCEPT ![p] = Fail(cleanup_staging_dir(u))] /\ disk' = disk
  BY <1>1, <1>3, FailLooks
<1> QED BY <1>2, <1>3 DEF Swap

LEMMA RecordLook ==
  ASSUME IInv, NEW p \in Procs, RecRead(p) \/ RecWrite(p) \/ IdxRead(p) \/ IdxWrite(p)
  PROVE  /\ app[p].pc \in AfterSwap /\ UNCHANGED helpers
         /\ disk'.exe = disk.exe /\ disk'.bak = disk.bak /\ disk'.writable = disk.writable
         /\ \E pc \in AfterSwap : ApplyLook(p, app[p].st, pc)
<1>1. app[p].pc \in AfterSwap /\ UNCHANGED helpers
  BY DEF RecRead, RecWrite, IdxRead, IdxWrite, AfterSwap
<1>2. \E pc \in AfterSwap : \E seen : app' = [app EXCEPT ![p].pc = pc, ![p].seen = seen]
  <2>1. \A pc, seen : app' = [app EXCEPT ![p].pc = pc, ![p].seen = seen] /\ pc \in AfterSwap
          => \E q \in AfterSwap : \E s : app' = [app EXCEPT ![p].pc = q, ![p].seen = s]
    OBVIOUS
  <2>2. {"recWrite", "idxRead", "idxWrite", "spawn"} \subseteq AfterSwap
    BY DEF AfterSwap
  <2>3. \/ app' = [app EXCEPT ![p].pc = "recWrite", ![p].seen = disk.verRec]
        \/ app' = [app EXCEPT ![p].pc = "idxRead", ![p].seen = None]
        \/ app' = [app EXCEPT ![p].pc = "idxWrite", ![p].seen = disk.idxRec]
        \/ app' = [app EXCEPT ![p].pc = "spawn", ![p].seen = None]
    BY ZenonT(60) DEF RecRead, RecWrite, IdxRead, IdxWrite
  <2> QED BY <2>1, <2>2, <2>3, ZenonT(60)
<1>3. disk'.exe = disk.exe /\ disk'.bak = disk.bak /\ disk'.writable = disk.writable
  BY Known DEF RecRead, RecWrite, IdxRead, IdxWrite, Disk
<1> QED BY <1>1, <1>2, <1>3, PlaceLooks

LEMMA SpawnLook == ASSUME IInv, NEW p \in Procs, Spawn(p)
  PROVE  /\ app[p].pc = "spawn" /\ UNCHANGED helpers
         /\ disk'.bak = disk.bak /\ disk'.writable = disk.writable
         /\ \/ ApplyLook(p, State("Applied", app[p].st.ver, NoDir), "ui") /\ disk' = disk
            \/ /\ ApplyLook(p, State("Failed", app[p].st.ver, NoDir), "ui")
               /\ \/ disk'.exe = disk.bak
                  \/ disk.bak = None \/ May("rollback")
<1>1. app[p].pc = "spawn" /\ UNCHANGED helpers
  BY DEF Spawn
<1>2. disk'.bak = disk.bak /\ disk'.writable = disk.writable
  BY Known DEF Spawn, Disk
<1>3. CASE /\ app' = [app EXCEPT ![p] = [app[p] EXCEPT
                        !.st = State("Applied", app[p].st.ver, NoDir), !.pc = "ui"]]
           /\ disk' = disk
  BY <1>1, <1>2, <1>3, EndLooks
<1>4. CASE /\ app' = [app EXCEPT ![p] = [app[p] EXCEPT
                        !.st = State("Failed", app[p].st.ver, NoDir), !.pc = "ui"]]
           /\ \/ disk' = [disk EXCEPT !.exe = disk.bak]
              \/ disk.bak = None \/ May("rollback")
  <2>1. ApplyLook(p, State("Failed", app[p].st.ver, NoDir), "ui")
    BY <1>4, EndLooks
  <2>2. disk'.exe = disk.bak \/ disk.bak = None \/ May("rollback")
    BY <1>4, Known DEF Disk
  <2> QED BY <1>1, <1>2, <2>1, <2>2
<1> QED BY <1>3, <1>4 DEF Spawn

LEMMA LaunchInstallerLook == ASSUME IInv, NEW p \in Procs, LaunchInstaller(p)
  PROVE  /\ app[p].pc = "launch" /\ app[p].st.tag = "ReadyToRunInstaller" /\ disk' = disk
         /\ \/ ApplyLook(p, State("Applied", app[p].st.ver, NoDir), "ui")
            \/ ApplyLook(p, Bare("Failed"), "ui")
<1>1. app[p].pc = "launch" /\ app[p].st.tag = "ReadyToRunInstaller" /\ disk' = disk
  BY PlaceState DEF LaunchInstaller
<1>2. \/ app' = [app EXCEPT ![p] = [app[p] EXCEPT
                   !.st = State("Applied", app[p].st.ver, NoDir), !.pc = "ui"]]
      \/ app' = [app EXCEPT ![p] = Fail(cleanup_staging_dir(app[p]))]
  BY DEF LaunchInstaller
<1> QED BY <1>1, <1>2, EndLooks, FailLooks

(* A step of p keeps p on its route.                                       *)
LEMMA WorksRoute ==
  ASSUME IInv, NEW p \in Procs, OnRoute(app[p]), Works(p)
  PROVE  /\ OnRoute(app'[p]) /\ disk'.writable = disk.writable
         /\ disk.writable /\ ~May("probe") => helpers' = helpers
<1>1. CASE UserStep(p) \/ poll(p)
  BY <1>1, UserCalm, PollCalm DEF Calm
<1>2. CASE WorkerEnds(p)
  BY <1>2, WorkerLook
<1>3. ASSUME NEW pc, ApplyLook(p, app[p].st, pc) \/ ApplyLook(p, Bare("Failed"), pc)
      PROVE  OnRoute(app'[p])
  BY <1>3, SameRoute DEF ApplyLook
<1>4. ASSUME NEW tag \in {"Applied", "Failed"}, NEW v,
             ApplyLook(p, State(tag, v, NoDir), "ui"),
             app[p].st.tag = "ReadyToApply" \/ tag = "Applied"
      PROVE  OnRoute(app'[p])
  BY <1>4 DEF ApplyLook, State, OnRoute, NoSetup, NoArchive
<1>5. CASE Probe(p)
  BY <1>3, <1>5, ProbeLook
<1>6. CASE BackUp(p)
  BY <1>3, <1>6, BackUpLook
<1>7. CASE Swap(p)
  BY <1>3, <1>7, SwapLook
<1>8. CASE RecRead(p) \/ RecWrite(p) \/ IdxRead(p) \/ IdxWrite(p)
  BY <1>3, <1>8, RecordLook
<1>9. CASE Spawn(p)
  BY <1>4, <1>9, SpawnLook, PlaceState DEF InPlace
<1>10. CASE LaunchInstaller(p)
  BY <1>3, <1>4, <1>10, LaunchInstallerLook DEF OnRoute, NoSetup
<1> QED BY <1>1, <1>2, <1>5, <1>6, <1>7, <1>8, <1>9, <1>10 DEF Works, ApplyStep

(* Who is started, and what may fail, never changes.                       *)
LEMMA SceneStays == [Next]_vars => scene' = scene
  BY ZenonT(30) DEF Next, vars, UserStep, poll, WorkerEnds, ApplyStep, Launch, Exit, HelperRuns, Check,
     Retry, Download, Apply, update_now, dismiss_banner, start_download, apply_and_restart,
     run_installer, Gated, CheckEnds, DeadEnd, FetchEnds, Probe, BackUp, Swap, RecRead,
     RecWrite, IdxRead, IdxWrite, Spawn, LaunchInstaller

LEMMA RoutesStep == IInv /\ Off /\ Routes /\ [Next]_vars => Routes'
<1> SUFFICES ASSUME IInv, Off, Routes, [Next]_vars PROVE Routes'
  OBVIOUS
<1>1. scene' = scene
  BY SceneStays
<1>2. \A v : OnRoute(Fresh(v))
  BY DEF OnRoute, NoSetup, NoArchive, Fresh, Bare, State, NoJob, Job, NoMessage, Message
<1>3. ASSUME NEW p \in Procs, Steps(p)
      PROVE  /\ OnRoute(app'[p]) /\ disk'.writable = disk.writable
             /\ disk.writable /\ ~May("probe") => helpers' = helpers
  <2>1. CASE Works(p)
    BY <2>1, WorksRoute DEF Routes
  <2>2. CASE Launch(p) \/ Exit(p)
    BY <1>2, <2>2, Becomes DEF Launch, Exit
  <2> QED BY <1>3, <2>1, <2>2 DEF Steps, Works
<1>4. CASE \E p \in Procs : Steps(p)
  <2>1. PICK p \in Procs : Steps(p)
    BY <1>4
  <2>2. \A q \in Procs : OnRoute(app'[q])
    BY <1>3, <2>1, Alone DEF Routes
  <2> QED BY <1>1, <1>3, <2>1, <2>2 DEF Routes, OnRoute, May
<1>5. CASE \E d \in Dirs : HelperRuns(d)
  <2>1. disk'.writable = disk.writable /\ app' = app
    BY <1>5 DEF HelperRuns, IInv, TypeOK, Disk
  <2>2. helpers' \subseteq helpers
    BY <1>5 DEF HelperRuns
  <2> QED BY <1>1, <2>1, <2>2 DEF Routes, OnRoute, May
<1>6. CASE UNCHANGED vars
  BY <1>6 DEF vars, Routes, OnRoute, May
<1> QED BY <1>4, <1>5, <1>6 DEF Next, Steps

----------------------------------------------------------------------------
(* The only instance, where the probe tells the truth.                     *)

(* what u does and says is so of the disk dk                               *)
Says(u, dk) ==
  /\ u.pc \in AfterSwap => dk.exe = u.st.ver /\ u.st.ver > u.run
  /\ u.st.tag = "Applied" => dk.exe = u.st.ver
  /\ u.st.tag = "Failed" /\ u.st.ver # None => u.st.ver > u.run
  /\ ~May("backup") /\ ~May("rollback") /\ u.run # None =>
       /\ u.pc \in BeforeSwap /\ u.st.tag # "Applied" => dk.exe = u.run
       /\ u.pc = "swap" => dk.bak = u.run
       /\ u.pc \in AfterSwap => dk.bak = u.run

(* only the instances that are started run *)
InScene == \A p \in Procs : app[p].run # None => p \in scene.procs

Truthful ==
  OnlyInstance /\ ~May("probe") /\ disk.writable => \A p \in Procs : Says(app[p], disk)

LEMMA CalmSays ==
  ASSUME NEW p \in Procs, Says(app[p], disk), Calm(p), app'[p].run = app[p].run
  PROVE  Says(app'[p], disk')
  BY DEF Says, Calm, AfterSwap, BeforeSwap

LEMMA WorkerSays ==
  ASSUME IInv, NEW p \in Procs, OnRoute(app[p]), Says(app[p], disk), WorkerEnds(p)
  PROVE  Says(app'[p], disk')
  BY WorkerLook, WorkerTidy DEF Says, Tidy

LEMMA ApplySays ==
  ASSUME IInv, NEW p \in Procs, ~May("probe"), disk.writable, OnRoute(app[p]),
         Says(app[p], disk), app[p].run # None, ApplyStep(p)
  PROVE  Says(app'[p], disk')
<1>1. app'[p].run = app[p].run
  BY ApplyTidy DEF Tidy
<1>2. /\ Bare("Failed").tag = "Failed" /\ Bare("Failed").ver = None
      /\ \A tag, v, d : State(tag, v, d).tag = tag /\ State(tag, v, d).ver = v
  BY DEF Bare, State
<1>3. CASE Probe(p)
  <2>1. app[p].st.tag = "ReadyToApply"
    BY <1>3, ProbeLook, PlaceState DEF InPlace
  <2>2. /\ app[p].pc = "probe" /\ disk' = disk
        /\ \/ app'[p].st = app[p].st /\ app'[p].pc = "backup"
           \/ app'[p].st = Bare("Failed") /\ app'[p].pc = "ui"
    BY <1>3, ProbeLook DEF ApplyLook
  <2> QED BY <1>1, <1>2, <2>1, <2>2 DEF Says, AfterSwap, BeforeSwap
<1>4. CASE BackUp(p)
  <2>1. app[p].st.tag = "ReadyToApply"
    BY <1>4, BackUpLook, PlaceState DEF InPlace
  <2>2. /\ app[p].pc = "backup" /\ disk'.exe = disk.exe
        /\ ~May("backup") => disk'.bak = disk.exe
        /\ app'[p].st = app[p].st /\ app'[p].pc = "swap"
    BY <1>4, BackUpLook DEF ApplyLook
  <2> QED BY <1>1, <2>1, <2>2 DEF Says, AfterSwap, BeforeSwap
<1>5. CASE Swap(p)
  <2>1. app[p].st.tag = "ReadyToApply"
    BY <1>5, SwapLook, PlaceState DEF InPlace
  <2>2. /\ app[p].pc = "swap" /\ disk'.bak = disk.bak
        /\ \/ app'[p].st = Bare("Failed") /\ app'[p].pc = "ui" /\ disk' = disk
           \/ /\ app'[p].st = app[p].st /\ app'[p].pc = "recRead"
              /\ disk'.exe = app[p].st.ver /\ app[p].st.ver > app[p].run
    BY <1>5, SwapLook DEF ApplyLook
  <2> QED BY <1>1, <1>2, <2>1, <2>2 DEF Says, AfterSwap, BeforeSwap
<1>6. CASE RecRead(p) \/ RecWrite(p) \/ IdxRead(p) \/ IdxWrite(p)
  <2>1. PICK pc \in AfterSwap : ApplyLook(p, app[p].st, pc)
    BY <1>6, RecordLook
  <2>2. /\ app[p].pc \in AfterSwap /\ disk'.exe = disk.exe /\ disk'.bak = disk.bak
        /\ app'[p].st = app[p].st /\ app'[p].pc \in AfterSwap
    BY <1>6, <2>1, RecordLook DEF ApplyLook
  <2> QED BY <1>1, <2>2 DEF Says, AfterSwap, BeforeSwap
<1>7. CASE Spawn(p)
  <2> DEFINE v == app[p].st.ver
  <2>1. app[p].pc = "spawn" /\ disk'.bak = disk.bak
    BY <1>7, SpawnLook
  <2>2. CASE ApplyLook(p, State("Applied", v, NoDir), "ui") /\ disk' = disk
    <3>1. app'[p].st.tag = "Applied" /\ app'[p].st.ver = v /\ app'[p].pc = "ui"
      BY <2>2, <1>2 DEF ApplyLook
    <3> QED BY <1>1, <2>1, <2>2, <3>1 DEF Says, AfterSwap, BeforeSwap
  <2>3. CASE /\ ApplyLook(p, State("Failed", v, NoDir), "ui")
             /\ \/ disk'.exe = disk.bak
                \/ disk.bak = None \/ May("rollback")
    <3>1. app'[p].st.tag = "Failed" /\ app'[p].st.ver = v /\ app'[p].pc = "ui"
      BY <2>3, <1>2 DEF ApplyLook
    <3> QED BY <1>1, <2>1, <2>3, <3>1 DEF Says, AfterSwap, BeforeSwap
  <2> QED BY <1>7, <2>2, <2>3, SpawnLook
<1>8. CASE LaunchInstaller(p)
  BY <1>8, LaunchInstallerLook DEF OnRoute, NoSetup
<1> QED BY <1>3, <1>4, <1>5, <1>6, <1>7, <1>8 DEF ApplyStep

LEMMA StepSays ==
  ASSUME IInv, Off, Routes, NEW p \in Procs, ~May("probe"), disk.writable,
         Says(app[p], disk), Steps(p)
  PROVE  Says(app'[p], disk')
<1>1. OnRoute(app[p])
  BY DEF Routes
<1>2. CASE Works(p)
  <2>1. app[p].run # None /\ app'[p].run = app[p].run
    BY <1>2, WorksRuns, WorksTidy DEF Tidy
  <2>2. CASE UserStep(p) \/ poll(p)
    BY <1>1, <2>1, <2>2, UserCalm, PollCalm, CalmSays
  <2> QED BY <1>1, <1>2, <2>1, <2>2, WorkerSays, ApplySays DEF Works
<1>3. \A v, dk : v \in {None, dk.exe} => Says(Fresh(v), dk)
  BY DEF Says, Fresh, Bare, State, AfterSwap, BeforeSwap
<1>4. CASE Launch(p) \/ Exit(p)
  BY <1>3, <1>4, Becomes DEF Launch, Exit
<1> QED BY <1>2, <1>4 DEF Steps, Works

LEMMA InSceneStep == IInv /\ Off /\ InScene /\ [Next]_vars => InScene' /\ scene' = scene
<1> SUFFICES ASSUME IInv, Off, InScene, [Next]_vars PROVE InScene' /\ scene' = scene
  OBVIOUS
<1>1. scene' = scene
  BY SceneStays
<1>2. ASSUME NEW p \in Procs, app'[p].run # None PROVE p \in scene.procs
  <2>1. CASE Works(p)
    BY <1>2, <2>1, WorksRuns DEF InScene
  <2>2. CASE Launch(p)
    BY <2>2 DEF Launch
  <2>3. CASE Exit(p)
    BY <2>3 DEF Exit, Idle, InScene
  <2>4. CASE app'[p] = app[p]
    BY <1>2, <2>4 DEF InScene
  <2>5. CASE \E d \in Dirs : HelperRuns(d)
    BY <2>4, <2>5 DEF HelperRuns
  <2> QED BY <2>1, <2>2, <2>3, <2>4, <2>5, Alone DEF Next, Steps, Works, vars
<1> QED BY <1>1, <1>2 DEF InScene

LEMMA TruthfulStep ==
  IInv /\ Off /\ Routes /\ InScene /\ Truthful /\ [Next]_vars => Truthful'
<1> SUFFICES ASSUME IInv, Off, Routes, InScene, Truthful, [Next]_vars, Truthful \in BOOLEAN,
                    OnlyInstance', ~May("probe")', disk'.writable, NEW q \in Procs
             PROVE  Says(app[q], disk)'
  BY DEF Truthful
<1>1. scene' = scene /\ IInv'
  BY InSceneStep, NextOK
<1>2. Says(app[q], disk)' <=> Says(app'[q], disk')
  BY <1>1 DEF Says, May
<1>3. OnlyInstance /\ ~May("probe")
  BY <1>1 DEF OnlyInstance, May
<1>4. PICK p \in Procs : scene.procs = {p}
  BY <1>3 DEF OnlyInstance
<1>5. \A r \in Procs \ {p} : app[r].run = None /\ app[r] = Fresh(None)
  BY <1>4 DEF InScene, Off
<1>6. \A r \in Procs \ {p} : ~Steps(r)
  BY <1>4, <1>5, WorksRuns DEF Steps, Works, Launch, Exit, Idle
<1>7. CASE Steps(p)
  <2>1. disk.writable
    <3>1. CASE Works(p)
      BY <3>1, WorksRoute DEF Routes
    <3>2. CASE Launch(p) \/ Exit(p)
      BY <3>2 DEF Launch, Exit
    <3> QED BY <1>7, <3>1, <3>2 DEF Steps, Works
  <2>2. \A r \in Procs : Says(app[r], disk)
    BY <1>3, <2>1 DEF Truthful
  <2>3. CASE q = p
    BY <1>2, <1>3, <1>7, <2>1, <2>2, <2>3, StepSays
  <2>4. CASE q # p
    <3>1. app'[q] = Fresh(None)
      BY <1>5, <1>7, <2>4, Alone
    <3>2. \A dk : Says(Fresh(None), dk)
      BY DEF Says, Fresh, Bare, State, AfterSwap, BeforeSwap
    <3> QED BY <1>2, <3>1, <3>2
  <2> QED BY <2>3, <2>4
<1>8. CASE \E d \in Dirs : HelperRuns(d)
  <2>1. disk'.writable = disk.writable
    BY <1>8 DEF HelperRuns, IInv, TypeOK, Disk
  <2> QED BY <1>3, <1>8, <2>1 DEF Routes, HelperRuns
<1>9. CASE UNCHANGED vars
  BY <1>2, <1>3, <1>9 DEF vars, Truthful
<1> QED BY <1>6, <1>7, <1>8, <1>9 DEF Next, Steps

----------------------------------------------------------------------------
(* The theorems *)

(* The updater's state, its channels and the install directory have their  *)
(* types in every behaviour of poll, the workers and the apply steps.      *)
THEOREM TypeCorrect == Spec => []TypeOK
<1>1. IInv => TypeOK
  BY DEF IInv
<1> QED BY <1>1, Invariant, PTL

(* A parked update can be applied: nothing another instance, a failed      *)
(* download or a later check does removes or replaces the artifact behind  *)
(* ReadyToApply and ReadyToRunInstaller.                                   *)
THEOREM ParkedUpdateStaged == Spec => []ReadyHasArtifact
<1>1. IInv => ReadyHasArtifact
  <2> SUFFICES ASSUME IInv, NEW p \in Procs, app[p].st.tag \in Ready,
                      app[p].pc \in BeforeSwap
               PROVE  dirs[app[p].st.dir] = app[p].st.ver
    BY DEF ReadyHasArtifact, Ready, BeforeSwap
  <2> QED BY PlaceState DEF Staged
<1> QED BY <1>1, Invariant, PTL

(* Anti-rollback: what apply_and_restart swaps in is strictly newer than   *)
(* the running version and than the record its gate has read.              *)
THEOREM SwapsOnlyNewer == Spec => SwapIsNewer
<1>1. IInv /\ [Next]_vars =>
        [\A p \in Procs : Swaps(p) =>
           disk'.exe > app[p].run /\ disk'.exe > app[p].seen]_vars
  BY NextEffects DEF Effects, SwapsNewer
<1> QED BY <1>1, Invariant, PTL DEF Spec, SwapIsNewer

(* The application restarts itself only when the user asked for it since   *)
(* the last check, or in auto mode (chain_apply, launch_kind).             *)
THEOREM NoUnaskedRestart == Spec => RestartOnlyWhenAsked
<1>1. IInv /\ [Next]_vars =>
        [\A p \in Procs : app[p].pc = "ui" /\ app'[p].pc # "ui" => app'[p].asked]_vars
  BY NextEffects DEF Effects, Restarts
<1> QED BY <1>1, Invariant, PTL DEF Spec, RestartOnlyWhenAsked

(* A found update is announced, whatever banner was dismissed before it.   *)
THEOREM UpdateAnnounced == Spec => FoundUpdateAnnounced
<1>1. IInv /\ [Next]_vars =>
        [\A p \in Procs : app'[p].st.tag = "Available" /\ app[p].st.tag # "Available" =>
           banner_visible(app'[p])]_vars
  BY NextEffects DEF Effects, Announces
<1> QED BY <1>1, Invariant, PTL DEF Spec, FoundUpdateAnnounced

(* A running process forgets a staging directory only once it is removed,  *)
(* on every path of the download, the gate, the apply steps and poll.      *)
THEOREM StagingNeverLeaks == Spec => NoStagingLeak
<1>1. IInv /\ Off /\ [Next]_vars =>
        [\A p \in Procs :
           LET d == app[p].staging IN
           d # NoDir /\ app'[p].run # None /\ app'[p].staging # d => dirs'[d] = Absent]_vars
  BY NothingForgotten DEF Forgets
<1> QED BY <1>1, OffInvariant, PTL DEF Spec, NoStagingLeak

(* When no other instance shares the install directory, "applied" is the   *)
(* version that is there, and "relaunch failed, rolled back" leaves the    *)
(* version that ran: no path of the apply steps, of a failed download, of  *)
(* a crash and restart or of a later check says otherwise.                 *)
THEOREM SaysTrue == Spec => []SaysWhatIsInstalled
<1> DEFINE All == IInv /\ Off /\ Routes /\ InScene /\ Truthful
<1>1. Init => All
  <2> SUFFICES ASSUME Init PROVE All
    OBVIOUS
  <2>1. \A p \in Procs : app[p] = Fresh(None)
    BY DEF Init
  <2>2. Routes
    BY <2>1 DEF Init, Routes, OnRoute, NoSetup, NoArchive, Fresh, Bare, State, NoJob, Job,
       NoMessage, Message
  <2>3. InScene /\ Truthful
    BY <2>1 DEF InScene, Truthful, Says, Fresh, Bare, State, AfterSwap, BeforeSwap
  <2> QED BY <2>1, <2>2, <2>3, InitOK DEF Off
<1>2. All /\ [Next]_vars => All'
  BY NextOK, OffStep, RoutesStep, InSceneStep, TruthfulStep
<1>3. All => SaysWhatIsInstalled
  <2> SUFFICES ASSUME All, OnlyInstance, ~May("probe"), NEW p \in Procs
               PROVE  /\ disk.writable /\ app[p].st.tag = "Applied" => disk.exe = app[p].st.ver
                      /\ ~May("backup") /\ ~May("rollback") =>
                           (app[p].st.tag = "Failed" /\ app[p].st.ver # None =>
                              disk.exe # app[p].st.ver /\ disk.exe >= app[p].run)
    BY DEF SaysWhatIsInstalled
  <2>1. disk.writable => Says(app[p], disk)
    BY DEF Truthful
  <2>2. app[p].st.tag = "Failed" /\ app[p].st.ver # None => disk.writable
    BY Known DEF Routes, OnRoute, NoArchive, Disk
  <2>3. app[p].st.tag = "Failed" => app[p].pc \in BeforeSwap
    BY Known, PlaceState DEF InPlace, BeforeSwap, Places
  <2>4. app[p].st.tag = "Failed" => app[p].run # None
    BY DEF Off, Fresh, Bare, State
  <2>5. app[p].run \in Nat /\ (app[p].st.tag = "Failed" => app[p].st.ver \in Nat)
    <3>1. app[p].run \in Versions \cup {None} /\ app[p].st \in UpdateState
      BY Known
    <3>2. \A st \in UpdateState : st.ver \in Versions \cup {None}
      BY DEF UpdateState
    <3>3. Versions \cup {None} \subseteq Nat
      BY VersionsAssumption DEF None
    <3> QED BY <3>1, <3>2, <3>3
  <2> QED BY <2>1, <2>2, <2>3, <2>4, <2>5 DEF Says
<1> HIDE DEF All
<1> QED BY <1>1, <1>2, <1>3, PTL DEF Spec
=============================================================================
