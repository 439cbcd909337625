------------------------------- MODULE Fetch -------------------------------
(***************************************************************************)
(* A check for an update and the download it leads to, request by request  *)
(* (update_engine/net.rs, manifest.rs, verify.rs), while the release       *)
(* workflow publishes, replaces and withdraws what is being fetched.       *)
(*                                                                         *)
(* The files of a release are told apart by the run of the workflow, the   *)
(* build, that made them.  A digest or a signature is right for a file of  *)
(* its own build and for no other.  The manifest of a build names its      *)
(* version, its artifact, and the date until which it is valid.            *)
(***************************************************************************)
EXTENDS Integers, Sequences, FiniteSets

CONSTANTS MAX_REDIRECTS, VALID_DAYS, Scenes

Sidecars == {"minisig", "sha"}
Names == {"json", "jsonSig", "artifact"} \cup Sidecars
Date == (Nat \ {0}) \X (1 .. 12) \X (1 .. 31)

\* the tags the workflow runs for, the files it makes, the first day, the year
\* and the later days looked at; the version that runs, the highest applied,
\* the floor; redirects of each request; is there an archive for the platform,
\* and may requests and files fail
ASSUME FetchAssumption ==
  /\ MAX_REDIRECTS \in Nat /\ VALID_DAYS \in Nat
  /\ \A s \in Scenes :
       /\ s \in [tags : Seq(Nat), names : SUBSET Names, first : Date, year : Nat \ {0},
                days : SUBSET Nat, run : Nat, applied : Nat, minimum : Nat, hops : Nat,
                archive : BOOLEAN, faults : BOOLEAN]
       /\ Names \ Sidecars \subseteq s.names

VARIABLES
  scene,  \* the instance and its network: see Scenes
  clock,  \* the day, counted from 1970-01-01
  ci,     \* the builds made so far, and what the last one has yet to upload
  site,   \* the files of each version's release, and the versions listed
  w,      \* the worker, its answers, and the offer it made
  dir,    \* the staging directory: Absent, 0 when empty, a build, or Broken
  quiet   \* (ghost) nothing has stood in the way since the check began

vars == <<scene, clock, ci, site, w, dir, quiet>>

Broken == -1        \* bytes that are not those of any build
Absent == -2
Busy == Names \cup {"list", "resolve", "verify", "extract"}

-----------------------------------------------------------------------------
(* Dates.                                                                  *)

Leaps(y) == y \div 4 - y \div 100 + y \div 400
IsLeap(y) == Leaps(y) # Leaps(y - 1)
DaysBefore(y, m) ==
  <<0, 31, 59, 90, 120, 151, 181, 212, 243, 273, 304, 334>>[m]
    + IF m > 2 /\ IsLeap(y) THEN 1 ELSE 0

\* the day of a date, by the rule of the calendar
UnixDay(date) ==
  365 * (date[1] - 1970) + Leaps(date[1] - 1) - Leaps(1969)
    + DaysBefore(date[1], date[2]) + date[3] - 1

DaysFromCivilMarch(y, m, d) ==                                    \* mutant
  LET year == IF m <= 3 THEN y - 1 ELSE y
      era == (IF year >= 0 THEN year ELSE year - 399) \div 400
      yoe == year - era * 400
      mp == IF m > 2 THEN m - 3 ELSE m + 9
      doe == yoe * 365 + yoe \div 4 - yoe \div 100 + (153 * mp + 2) \div 5 + d - 1
  IN era * 146097 + doe - 719468

\* the day of a date, as the program computes it
days_from_civil(y, m, d) ==
  LET year == IF m <= 2 THEN y - 1 ELSE y
      era == (IF year >= 0 THEN year ELSE year - 399) \div 400
      yoe == year - era * 400
      mp == IF m > 2 THEN m - 3 ELSE m + 9
      doe == yoe * 365 + yoe \div 4 - yoe \div 100 + (153 * mp + 2) \div 5 + d - 1
  IN era * 146097 + doe - 719468

-----------------------------------------------------------------------------
(* The release workflow and the page it fills.                             *)

Dates == {scene.year, scene.year + 1} \X (1 .. 12) \X (1 .. 31)
IsDate(date) ==
  UnixDay(date) < UnixDay(IF date[2] = 12 THEN <<date[1] + 1, 1, 1>>
                                          ELSE <<date[1], date[2] + 1, 1>>)

Nothing == [n \in Names |-> 0]
Versions == {scene.tags[i] : i \in DOMAIN scene.tags}
IsLatest(v) == v \in site.listed /\ \A u \in site.listed : u <= v
Listed(v) == {n \in Names : site.files[v][n] # 0}
Built == ci.builds[Len(ci.builds)]

\* the release is whole, and nothing about it or the client forbids it
HonestFor(v) ==
  LET b == site.files[v]["json"]
  IN /\ b # 0 /\ \A n \in scene.names : site.files[v][n] = b
     /\ v > scene.run /\ v > scene.applied /\ scene.minimum <= scene.run
     /\ scene.hops <= MAX_REDIRECTS /\ scene.archive
     /\ w.pc \in {"list", "json", "jsonSig", "resolve"}
          => clock <= UnixDay(ci.builds[b].until)

\* and it is the one the worker is after
Honest == IF w.pc = "list" THEN \E v \in site.listed : IsLatest(v) /\ HonestFor(v)
                           ELSE HonestFor(w.version)

Tick ==
  /\ \E day \in scene.days : day > clock /\ clock' = day
  /\ UNCHANGED <<scene, ci, site, w, dir>>
  /\ quiet' = (quiet /\ Honest')

\* the workflow runs for the next tag, or once more for the same one
Release ==
  /\ ci.todo = {} /\ Len(ci.builds) < Len(scene.tags)
  /\ \E date \in Dates :
       /\ IsDate(date) /\ UnixDay(date) = clock + VALID_DAYS
       /\ ci' = [builds |-> Append(ci.builds, [version |-> scene.tags[Len(ci.builds) + 1],
                                               until |-> date]),
                 todo |-> scene.names]
  /\ UNCHANGED <<scene, clock, site, w, dir, quiet>>

\* a file that is there is deleted before the new one is uploaded
Upload(n) ==
  /\ n \in ci.todo
  /\ LET here == site.files[Built.version][n]
     IN /\ site' = [site EXCEPT !.files[Built.version][n] =
                      IF here = 0 THEN Len(ci.builds) ELSE 0]
        /\ ci' = [ci EXCEPT !.todo = IF here = 0 THEN @ \ {n} ELSE @]
  /\ UNCHANGED <<scene, clock, w, dir>>
  /\ quiet' = (quiet /\ Honest')

\* the release is listed, whether all its files are there or not
Publish ==
  /\ ci.builds # <<>> /\ (ci.todo # {} \/ Listed(Built.version) # {})
  /\ site' = [site EXCEPT !.listed = @ \cup {Built.version}]
  /\ UNCHANGED <<scene, clock, ci, w, dir>>
  /\ quiet' = (quiet /\ Honest')

\* and it is withdrawn, with its files
Withdraw ==
  /\ \E v \in site.listed : site' = [files |-> [site.files EXCEPT ![v] = Nothing],
                                    listed |-> site.listed \ {v}]
  /\ UNCHANGED <<scene, clock, ci, w, dir>>
  /\ quiet' = (quiet /\ Honest')

-----------------------------------------------------------------------------
(* One request.                                                            *)

Requests == {"list"} \cup Names

\* the worker gives up; a download takes its staging directory with it,
\* unless that fails too
Failing == w.pc \in {"artifact", "verify", "extract"} \cup Sidecars
Fail ==
  /\ w' = [w EXCEPT !.pc = "failed", !.hops = 0]
  /\ dir' \in (IF Failing THEN {Absent} ELSE {dir}) \cup (IF scene.faults THEN {dir} ELSE {})

\* transport, status, host, scheme, size, a body that cannot be read, or a full disk
Refused ==
  /\ scene.faults /\ w.pc \in Requests \cup {"extract"}
  /\ Fail /\ quiet' = FALSE
  /\ UNCHANGED <<scene, clock, ci, site>>

RedirectedUncapped ==                                             \* mutant
  /\ w.pc \in Requests /\ w.hops < scene.hops
  /\ w' = [w EXCEPT !.hops = (w.hops + 1) % 2] /\ UNCHANGED dir
  /\ UNCHANGED <<scene, clock, ci, site, quiet>>

\* confined_get_with: the first request and MAX_REDIRECTS more
Redirected ==
  /\ w.pc \in Requests /\ w.hops < scene.hops
  /\ IF w.hops = MAX_REDIRECTS THEN Fail
     ELSE w' = [w EXCEPT !.hops = @ + 1] /\ UNCHANGED dir
  /\ UNCHANGED <<scene, clock, ci, site, quiet>>

Answers == w.hops = scene.hops

\* what a file holds when it is asked for, and how it may arrive
Body(n) == {site.files[w.version][n]} \cup (IF scene.faults THEN {Broken} ELSE {})

After(n) ==
  IF n = "json" THEN "jsonSig"
  ELSE IF n = "jsonSig" THEN "resolve"
  ELSE IF n = "artifact" /\ "minisig" \in w.names THEN "minisig"
  ELSE IF n # "sha" /\ "sha" \in w.names THEN "sha" ELSE "verify"

\* download_small, download_asset, fetch_optional_sidecar_text
Fetch(n) ==
  /\ w.pc = n /\ Answers
  /\ \E b \in Body(n) :
       /\ IF b = 0 THEN Fail
          ELSE /\ w' = [w EXCEPT !.pc = After(n), !.hops = 0, !.body[n] = b]
               /\ UNCHANGED dir
       /\ quiet' = (quiet /\ b # Broken)
  /\ UNCHANGED <<scene, clock, ci, site>>

-----------------------------------------------------------------------------
(* The check.                                                              *)

Idle == [pc |-> "idle", hops |-> 0, version |-> 0, names |-> {}, body |-> Nothing, day |-> 0]

Check ==
  /\ w.pc \notin Busy
  /\ w' = [Idle EXCEPT !.pc = "list"]
  /\ dir' = Absent
  /\ UNCHANGED <<scene, clock, ci, site>>
  /\ quiet' = Honest'

\* fetch_latest_release, require_manifest_assets
List ==
  /\ w.pc = "list" /\ Answers
  /\ \/ \E v \in site.listed :
          /\ IsLatest(v) /\ {"json", "jsonSig"} \subseteq Listed(v)
          /\ w' = [w EXCEPT !.pc = "json", !.hops = 0, !.version = v, !.names = Listed(v)]
          /\ UNCHANGED dir
     \/ /\ \A v \in site.listed : IsLatest(v) => ~({"json", "jsonSig"} \subseteq Listed(v))
        /\ Fail
  /\ UNCHANGED <<scene, clock, ci, site, quiet>>

\* a clock that cannot be read is never in time
is_fresh(manifest, unreadable) ==
  /\ ~unreadable
  /\ clock <= days_from_civil(manifest.until[1], manifest.until[2], manifest.until[3])

Signed(file, sig) == w.body[file] > 0 /\ w.body[sig] = w.body[file]

\* parse_and_verify, resolve_tier1_update: what is not newer is not refused
Resolve ==
  /\ w.pc = "resolve"
  /\ \E unreadable \in IF scene.faults THEN BOOLEAN ELSE {FALSE} :
       LET manifest == ci.builds[w.body["json"]]
           newer == manifest.version > scene.run
           refused == \/ ~is_fresh(manifest, unreadable)
                      \/ scene.run < scene.minimum
                      \/ manifest.version <= scene.applied
           verdict == IF ~Signed("json", "jsonSig") \/ (newer /\ refused) THEN "failed"
                      ELSE IF newer /\ scene.archive THEN "offered" ELSE "upToDate"
       IN /\ w' = [w EXCEPT !.pc = verdict, !.day = clock]
          /\ quiet' = (quiet /\ ~unreadable)
  /\ UNCHANGED <<scene, clock, ci, site, dir>>

-----------------------------------------------------------------------------
(* The download.                                                           *)

Start ==
  /\ w.pc = "offered"
  /\ w' = [w EXCEPT !.pc = "artifact"] /\ dir' = 0
  /\ UNCHANGED <<scene, clock, ci, site, quiet>>

Fits(n, b) == n \in w.names => w.body[n] = b

VerifySidecarPin ==                                               \* mutant
  /\ w.pc = "verify"
  /\ LET pinned == IF "sha" \in w.names THEN w.body["sha"] ELSE w.body["json"]
     IN IF w.body["artifact"] = pinned /\ Fits("minisig", w.body["artifact"])
        THEN w' = [w EXCEPT !.pc = "extract"] /\ UNCHANGED dir
        ELSE Fail
  /\ UNCHANGED <<scene, clock, ci, site, quiet>>

\* the digest in the signed manifest decides; a sidecar that is listed must
\* agree, and a signature that is listed must be of the artifact
Verify ==
  /\ w.pc = "verify"
  /\ LET pinned == w.body["json"]
     IN IF /\ Fits("sha", pinned) /\ w.body["artifact"] = pinned
           /\ Fits("minisig", pinned)
        THEN w' = [w EXCEPT !.pc = "extract"] /\ UNCHANGED dir
        ELSE Fail
  /\ UNCHANGED <<scene, clock, ci, site, quiet>>

\* the file is created, and then filled (extract_binary, fs::write)
Extract ==
  /\ w.pc = "extract"
  /\ IF dir = Broken
     THEN dir' = w.body["artifact"] /\ w' = [w EXCEPT !.pc = "staged"]
     ELSE dir' = Broken /\ UNCHANGED w
  /\ UNCHANGED <<scene, clock, ci, site, quiet>>

-----------------------------------------------------------------------------
Init ==
  /\ scene \in Scenes
  /\ clock = UnixDay(scene.first)
  /\ ci = [builds |-> <<>>, todo |-> {}]
  /\ site = [files |-> [v \in Versions |-> Nothing], listed |-> {}]
  /\ w = Idle /\ dir = Absent /\ quiet = FALSE

Worker == List \/ (\E n \in Names : Fetch(n)) \/ Redirected \/ Refused \/ Resolve \/ Verify \/ Extract
Next ==
  \/ Tick \/ Release \/ (\E n \in Names : Upload(n)) \/ Publish \/ Withdraw
  \/ Check \/ Start \/ Worker

Spec == Init /\ [][Next]_vars

\* every request has a timeout, and nothing the worker does waits for another
FairSpec == Spec /\ WF_vars(Worker)
=============================================================================
