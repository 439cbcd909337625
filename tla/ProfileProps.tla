---------------------------- MODULE ProfileProps ----------------------------
(***************************************************************************)
(* What the user's directory promises, as properties of Profile.           *)
(***************************************************************************)
EXTENDS Profile

Places == {"Down", "Gone", "AutoSend", "AutoRemove", "Open", "Create", "Write", "Rename",
           "Send", "Remove", "Decline"}

Instance ==
  [at : Places, config : Config, fontSave : BOOLEAN, failed : BOOLEAN,
   handle : {"none", "tmp", "file", "orphan"}, after : {"Open", "Send", "Decline", "Gone"},
   queue : SUBSET Nat, current : SUBSET Nat, drains : BOOLEAN, tried : SUBSET Nat]

Contents == Config \cup {Absent, Torn}

\* Whatever is found in the config file, an instance runs with a config.
ProfileOK ==
  /\ app \in [Procs -> Instance]
  /\ file \in Contents /\ tmp \in Contents
  /\ spool \subseteq Nat /\ captured \in Nat /\ sent \subseteq Nat /\ declined \subseteq Nat
  /\ trial \in Trials

\* A captured crash report stays in the spool until the server has it or the
\* user has refused to send it, whatever instances run, crash, or fail to send
\* (consent_and_send, auto_send_spooled_crashes).
ReportsKept == 1 .. captured \subseteq spool \cup sent \cup declined

\* The only instance there is: nothing in the code keeps a second one out.
Alone == \E p \in Procs : trial.procs = {p}

Untouched(a) == file \in {Absent, Torn} /\ a.config = Default
AtRest(a) == a.at = "Gone" \/ (a.at = "Open" /\ ~a.fontSave)

\* With one instance, the config file is always a whole config that the instance
\* had (a crash never leaves part of one), and whenever no font size waits to
\* be saved and no load or save has failed, it is the config the user sees or left.
SettingsOnDisk ==
  Alone =>
    /\ file \in Config \cup {trial.config}
    /\ \A p \in trial.procs :
         AtRest(app[p]) /\ ~app[p].failed => file = app[p].config \/ Untouched(app[p])

\* With one instance, when the auto-send has ended or the dialog has closed,
\* every report left in the spool is one that was tried and could not be sent.
EveryReportOffered ==
  Alone =>
    \A p \in trial.procs :
      app[p].at = "Open" /\ app[p].drains /\ app[p].current = {} => spool \subseteq app[p].tried
=============================================================================
