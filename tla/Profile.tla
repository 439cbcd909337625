------------------------------- MODULE Profile -------------------------------
(***************************************************************************)
(* What the instances of the terminal keep in the user's directory: the    *)
(* config file (config_load.rs, Config::save_to, atomic_write.rs) and the  *)
(* spool of crash reports that wait for the user's consent (reporting.rs,  *)
(* panic_hook.rs, app_report_ui.rs).                                       *)
(*                                                                         *)
(* Every access to a file is a step of its own; an instance may crash      *)
(* between any two.  Of the settings there are two: the mode of the crash  *)
(* reports, which decides what a launch does, and the size of the font,    *)
(* which is saved after a delay.  A report is a number, in the order of    *)
(* the crashes; its text, and the editing of it, are left out.             *)
(***************************************************************************)
EXTENDS Naturals

CONSTANTS
  Procs,       \* the instances
  Fonts, DefaultFont,
  Absent, Torn,       \* what may stand in for a config: no file, part of one
  MaxReports,  \* bound: crashes that leave a report
  Trials       \* who runs, and what may go wrong

Modes == {"Off", "AskEachTime", "Always"}
Config == [mode : Modes, font : Fonts]
Default == [mode |-> "Off", font |-> DefaultFont]

ASSUME FontAssumption == DefaultFont \in Fonts
ASSUME ContentsAssumption == Absent \notin Config /\ Torn \notin Config /\ Absent # Torn
ASSUME TrialAssumption ==
  \A s \in Trials :
    /\ s = [procs |-> s.procs, faults |-> s.faults, config |-> s.config,
            modes |-> s.modes, fonts |-> s.fonts]
    /\ s.procs \subseteq Procs /\ s.modes \subseteq Modes /\ s.fonts \subseteq Fonts
    /\ s.config \in Config \cup {Absent, Torn}

VARIABLES
  trial,      \* procs; faults; config, the file before the first launch;
              \* modes and fonts, the settings the user changes to
  app,        \* the instances
  file, tmp,  \* the contents of the config file and of its temporary sibling
  spool,      \* the reports in the spool
  captured,   \* history: how many reports were captured
  sent, declined      \* history: what the server has, what the user refused

profileVars == <<trial, app, file, tmp, spool, captured, sent, declined>>
onDisk == <<file, tmp>>
reports == <<spool, captured, sent, declined>>

Fresh == [at |-> "Down", config |-> Default, fontSave |-> FALSE, failed |-> FALSE,
          handle |-> "none", after |-> "Open", queue |-> {}, current |-> {},
          drains |-> FALSE, tried |-> {}]

ProfileInit ==
  /\ trial \in Trials
  /\ app = [p \in Procs |-> Fresh]
  /\ file = trial.config /\ tmp = Absent
  /\ spool = {} /\ captured = 0 /\ sent = {} /\ declined = {}

Becomes(p, a) == app' = [app EXCEPT ![p] = a] /\ UNCHANGED trial
Fault(f) == f \in trial.faults

-----------------------------------------------------------------------------
(* The spool.                                                              *)

Oldest(rs) == {r \in rs : \A s \in rs : r <= s}

AdvanceToLast(a, rs) ==                                           \* mutant
  IF a.queue = {} THEN {[a EXCEPT !.current = {}]}
  ELSE {[a EXCEPT !.queue = {}, !.current = {r} \cap rs] : r \in Oldest(a.queue)}

\* CrashConsentState::advance over the spool rs: a report that is no longer
\* there is not shown, and the one behind it has to wait for another advance
advance(a, rs) ==
  IF a.queue = {} THEN {[a EXCEPT !.current = {}]}
  ELSE {[a EXCEPT !.queue = @ \ {r}, !.current = {r} \cap rs] : r \in Oldest(a.queue)}

\* drain_crash_spool; the dialog's list and its first report are one step
drain_crash_spool(a) ==
  CASE a.config.mode = "Off"         -> {[a EXCEPT !.at = "Open"]}
    [] a.config.mode = "Always"      -> {[a EXCEPT !.at = "AutoSend", !.queue = spool]}
    [] a.config.mode = "AskEachTime" -> advance([a EXCEPT !.at = "Open", !.queue = spool], spool)

Defaults(told) == [Fresh EXCEPT !.failed = told]

\* a file that is there and cannot be read, or parsed, means the defaults and a
\* message; one that was cut may still parse, an empty one does
load_config_from(c) ==
  CASE c \in Config -> {[Fresh EXCEPT !.config = c]}
                       \cup {Defaults(TRUE) : f \in {"disk"} \cap trial.faults}
    [] c = Absent   -> {Defaults(FALSE)}
    [] c = Torn     -> {Defaults(FALSE), Defaults(TRUE)}

Launch(p) ==
  /\ app[p].at \in {"Down", "Gone"} /\ p \in trial.procs
  /\ \E a \in load_config_from(file) :
       \E b \in drain_crash_spool([a EXCEPT !.drains = a.config.mode # "Off"]) : Becomes(p, b)
  /\ UNCHANGED <<onDisk, reports>>

\* send_report: the server may have it, or not
Deliver(r, ok) ==
  /\ ok \/ Fault("network")
  /\ sent' = IF ok THEN sent \cup {r} ELSE sent

\* auto_send_spooled_crashes, one report
AutoSend(p) ==
  LET a == app[p] IN
  /\ a.at = "AutoSend"
  /\ \E r \in Oldest(a.queue) \cap spool, ok \in BOOLEAN :
       /\ Deliver(r, ok)
       /\ Becomes(p, [a EXCEPT !.tried = @ \cup {r}, !.queue = @ \ {r},
                               !.at = IF ok THEN "AutoRemove" ELSE "AutoSend",
                               !.current = IF ok THEN {r} ELSE {}])
  /\ UNCHANGED <<onDisk, spool, captured, declined>>

\* one that has gone since the list was made
AutoSkip(p) ==
  LET a == app[p] IN
  /\ a.at = "AutoSend"
  /\ \E r \in Oldest(a.queue) \ spool : Becomes(p, [a EXCEPT !.queue = @ \ {r}])
  /\ UNCHANGED <<onDisk, reports>>

AutoRemove(p) ==
  /\ app[p].at = "AutoRemove"
  /\ spool' = spool \ app[p].current
  /\ Becomes(p, [app[p] EXCEPT !.at = "AutoSend", !.current = {}])
  /\ UNCHANGED <<onDisk, captured, sent, declined>>

AutoEnds(p) ==
  /\ app[p].at = "AutoSend" /\ app[p].queue = {}
  /\ Becomes(p, [app[p] EXCEPT !.at = "Open"])
  /\ UNCHANGED <<onDisk, reports>>

-----------------------------------------------------------------------------
(* Saving the config: create or truncate the temporary, write it, rename   *)
(* it.  The name is the same for every instance; a handle follows its file *)
(* through the rename and outlives a removal.                              *)

Follow(a, was, now) == IF a.handle = was THEN [a EXCEPT !.handle = now] ELSE a

Saves(a, after) == [a EXCEPT !.at = "Create", !.after = after]

\* save_to has returned; the instance goes on, or ends with the config it had
Saved(a, ok) ==
  IF a.after = "Gone" THEN [Fresh EXCEPT !.at = "Gone", !.config = a.config, !.failed = ~ok]
  ELSE [a EXCEPT !.at = a.after, !.after = "Open", !.failed = ~ok, !.handle = "none"]

TruncateInPlace(p) ==                                             \* mutant
  /\ app[p].at = "Create"
  /\ file' = Torn /\ tmp' = Torn
  /\ Becomes(p, [app[p] EXCEPT !.at = "Write", !.handle = "tmp"])
  /\ UNCHANGED reports

\* File::create
Create(p) ==
  /\ app[p].at = "Create"
  /\ tmp' = Torn
  /\ Becomes(p, [app[p] EXCEPT !.at = "Write", !.handle = "tmp"])
  /\ UNCHANGED <<file, reports>>

\* what the file of a handle holds after the write: over another config that is
\* longer or shorter, perhaps a mixture
Mixed(old, new) == IF old \in Config \ {new} THEN {new, Torn} ELSE {new}

\* write_all, flush, sync_all
Write(p) ==
  LET a == app[p] IN
  /\ a.at = "Write"
  /\ tmp'  \in IF a.handle = "tmp" THEN Mixed(tmp, a.config) ELSE {tmp}
  /\ file' \in IF a.handle = "file" THEN Mixed(file, a.config) ELSE {file}
  /\ Becomes(p, [a EXCEPT !.at = "Rename", !.handle = "none"])
  /\ UNCHANGED reports

\* the rename, when the temporary is still there
Rename(p) ==
  /\ app[p].at = "Rename" /\ tmp # Absent
  /\ file' = tmp /\ tmp' = Absent
  /\ app' = [q \in Procs |->
       IF q = p THEN Saved(app[p], TRUE)
       ELSE Follow(Follow(app[q], "file", "orphan"), "tmp", "file")]
  /\ UNCHANGED <<trial, reports>>

\* any of the three fails: the temporary is removed; a write may have come in part
SaveFails(p) ==
  /\ app[p].at \in {"Create", "Write", "Rename"}
  /\ Fault("disk") \/ (app[p].at = "Rename" /\ tmp = Absent)
  /\ tmp' = IF app[p].at = "Create" THEN tmp ELSE Absent
  /\ file' = IF app[p].at = "Write" /\ app[p].handle = "file" THEN Torn ELSE file
  /\ app' = [q \in Procs |->
       IF q = p THEN Saved(app[p], FALSE)
       ELSE IF app[p].at = "Create" THEN app[q] ELSE Follow(app[q], "tmp", "orphan")]
  /\ UNCHANGED <<trial, reports>>

-----------------------------------------------------------------------------
(* The user.                                                               *)

IsOpen(p) == app[p].at = "Open"

\* settings_window, the view mode, persist_config_change: save at once
Change(p, mode) ==
  /\ IsOpen(p) /\ mode \in trial.modes \ {app[p].config.mode}
  /\ Becomes(p, Saves([app[p] EXCEPT !.config.mode = mode], "Open"))
  /\ UNCHANGED <<onDisk, reports>>

\* a font zoom is saved when it has come to rest
Zoom(p, font) ==
  /\ IsOpen(p) /\ font \in trial.fonts \ {app[p].config.font}
  /\ Becomes(p, [app[p] EXCEPT !.config.font = font, !.fontSave = TRUE])
  /\ UNCHANGED <<onDisk, reports>>

FlushFont(p) ==
  /\ IsOpen(p) /\ app[p].fontSave
  /\ Becomes(p, Saves([app[p] EXCEPT !.fontSave = FALSE], "Open"))
  /\ UNCHANGED <<onDisk, reports>>

\* apply_remember_choice, before the report is sent or thrown away
Answer(p, answer, remember) ==
  LET a == app[p]
  IN /\ IsOpen(p) /\ a.current # {}
     /\ Becomes(p, IF remember = "JustThisTime" THEN [a EXCEPT !.at = answer]
                   ELSE Saves([a EXCEPT !.config.mode = remember], answer))
     /\ UNCHANGED <<onDisk, reports>>

\* consent_and_send: keep what could not be sent
ConsentAndSend(p) ==
  LET a == [app[p] EXCEPT !.tried = @ \cup app[p].current] IN
  /\ a.at = "Send"
  /\ \E r \in a.current, ok \in BOOLEAN :
       /\ Deliver(r, ok)
       /\ IF ok THEN Becomes(p, [a EXCEPT !.at = "Remove"])
          ELSE \E b \in advance(a, spool) : Becomes(p, [b EXCEPT !.at = "Open"])
  /\ UNCHANGED <<onDisk, spool, captured, declined>>

RemoveUnsent(p) ==                                                \* mutant
  /\ app[p].at \in {"Remove", "Send"}
  /\ spool' = spool \ app[p].current
  /\ \E b \in advance(app[p], spool') : Becomes(p, [b EXCEPT !.at = "Open"])
  /\ UNCHANGED <<onDisk, captured, sent, declined>>

Remove(p) ==
  /\ app[p].at = "Remove"
  /\ spool' = spool \ app[p].current
  /\ \E b \in advance(app[p], spool') : Becomes(p, [b EXCEPT !.at = "Open"])
  /\ UNCHANGED <<onDisk, captured, sent, declined>>

\* decline_and_discard
Decline(p) ==
  /\ app[p].at = "Decline"
  /\ spool' = spool \ app[p].current
  /\ declined' = declined \cup app[p].current
  /\ \E b \in advance(app[p], spool') : Becomes(p, [b EXCEPT !.at = "Open"])
  /\ UNCHANGED <<onDisk, captured, sent>>

\* prepare_shutdown
Exit(p) ==
  /\ IsOpen(p)
  /\ Becomes(p, Saves(app[p], "Gone"))
  /\ UNCHANGED <<onDisk, reports>>

-----------------------------------------------------------------------------
(* The end of an instance that did not ask for it.                         *)

Running(p) == app[p].at \notin {"Down", "Gone"}

\* the panic hook captures a report whatever the mode; panics abort
Panic(p) ==
  /\ Running(p) /\ captured < MaxReports
  /\ captured' = captured + 1 /\ spool' = spool \cup {captured + 1}
  /\ Becomes(p, Fresh)
  /\ UNCHANGED <<onDisk, sent, declined>>

\* no report: a payload that is not static, a full disk, a power cut
Kill(p) ==
  /\ Running(p) /\ Fault("crash")
  /\ Becomes(p, Fresh)
  /\ UNCHANGED <<onDisk, reports>>

Saving(p) == Create(p) \/ Write(p) \/ Rename(p) \/ SaveFails(p)
Starting(p) == Launch(p) \/ AutoSend(p) \/ AutoSkip(p) \/ AutoRemove(p) \/ AutoEnds(p)
Answering(p) ==
  \/ \E answer \in {"Send", "Decline"},
        remember \in {"JustThisTime"} \cup (trial.modes \ {"AskEachTime"}) :
       Answer(p, answer, remember)
  \/ ConsentAndSend(p) \/ Remove(p) \/ Decline(p)
Setting(p) ==
  \/ \E mode \in Modes : Change(p, mode)
  \/ \E font \in Fonts : Zoom(p, font)
  \/ FlushFont(p)

ProfileNext == \E p \in Procs :
  Starting(p) \/ Saving(p) \/ Answering(p) \/ Setting(p) \/ Exit(p) \/ Panic(p) \/ Kill(p)

ProfileSpec == ProfileInit /\ [][ProfileNext]_profileVars
=============================================================================
