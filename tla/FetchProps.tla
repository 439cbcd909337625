----------------------------- MODULE FetchProps -----------------------------
(***************************************************************************)
(* What a check and a download promise, as properties of Fetch.            *)
(***************************************************************************)
EXTENDS Fetch

Builds == 1 .. Len(ci.builds)
Downloading == {"artifact", "verify", "extract"} \cup Sidecars
Offered == Downloading \cup {"offered", "staged"}

CiTypeOK ==
  /\ ci = [builds |-> ci.builds, todo |-> ci.todo]
  /\ ci.builds \in Seq([version : Versions, until : Date])
  /\ ci.todo \subseteq Names /\ (ci.todo # {} => ci.builds # <<>>)
SiteTypeOK == site \in [files : [Versions -> [Names -> {0} \cup Builds]], listed : SUBSET Versions]
WorkerTypeOK ==
  /\ w \in [pc : Busy \cup {"idle", "offered", "staged", "upToDate", "failed"},
           hops : 0 .. MAX_REDIRECTS, version : {0} \cup Versions, names : SUBSET Names,
           body : [Names -> {0, Broken} \cup Builds], day : Int]
  /\ w.pc \notin {"idle", "list", "failed"} => w.version \in Versions

TypeOK ==
  /\ scene \in Scenes /\ clock \in Int /\ quiet \in BOOLEAN
  /\ CiTypeOK /\ SiteTypeOK /\ WorkerTypeOK
  /\ dir \in {Absent, Broken, 0} \cup Builds

\* What is offered was newer than all that ran or was applied, not below the
\* floor, and still valid by the calendar when it was offered; and what is
\* staged is the artifact of the build whose manifest made the offer, however
\* the release was rebuilt, replaced or withdrawn in between
\* (resolve_tier1_update, verify_artifact_bound_optional_sig).
StagedWasOffered ==
  /\ w.pc \in Offered =>
       /\ w.body["json"] \in Builds
       /\ LET manifest == ci.builds[w.body["json"]]
          IN /\ manifest.version > scene.run /\ manifest.version > scene.applied
             /\ scene.minimum <= scene.run /\ w.day <= UnixDay(manifest.until)
  /\ dir \in Builds \/ w.pc = "staged" => dir = w.body["json"]

\* A check of a release that is whole and still valid, which nothing disturbs,
\* finds it, and the download that follows stages it: no gate refuses an honest
\* update (resolve_tier1_update, confined_get_with, rfc3339_to_unix).
HonestUpdateArrives == quiet => w.pc \notin {"failed", "upToDate"}

\* A worker that was started comes to an end, whatever the network does
\* (confined_get_with, default_agent).
WorkerEnds == w.pc \in Busy ~> w.pc \notin Busy
=============================================================================
