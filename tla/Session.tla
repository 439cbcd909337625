------------------------------ MODULE Session ------------------------------
(***************************************************************************)
(* One terminal session: the program on the far side of a PTY, the reader  *)
(* thread that parses its output (crates/core/src/session.rs), and the UI  *)
(* thread that answers, types, resizes and draws (egui_app/pane_term.rs,   *)
(* frame_tick in egui_app/mod.rs).  The two threads share the terminal,    *)
(* behind a mutex, and the slot of the wake callback.                      *)
(*                                                                         *)
(* What happens under the mutex is one step.  The program writes a script  *)
(* of bytes to a pipe that holds scene.out of them and reads from one that *)
(* holds InCap writes.  The UI sleeps between frames; a frame starts when  *)
(* a repaint was requested, and also at the idle tick or for any reason    *)
(* outside this session: at any time.                                      *)
(***************************************************************************)
EXTENDS ByteFilter

CONSTANTS
  READ_BUF,   \* the reader's buffer
  InCap,      \* what the input pipe holds, in writes
  Scenes      \* what program, user and window may do

ASSUME PipesAssumption == {READ_BUF, InCap} \subseteq Nat \ {0}

\* a write and the pipe have room for a byte
ASSUME ScenesAssumption ==
  \A s \in Scenes : s.script \in Seq(STRING) /\ {s.burst, s.out} \subseteq Nat \ {0}

VARIABLES
  scene,    \* script, length of a write, room of the pipe, sizes, operations
  prog,     \* the child: alive, bytes sent, bytes of the write it is in
  pty,      \* the PTY: its size, writes waiting for the child
  term,     \* the terminal's filter, parser and replies, behind its mutex
  grid,     \* the size of the terminal's grid, behind the same mutex
  reader,   \* the reader thread: place, bytes taken, bytes in its buffer
  wake,     \* the slot of the wake callback is set
  ui        \* the UI thread and its pane

vars == <<scene, prog, pty, term, grid, reader, wake, ui>>

May(op) == op \in scene.ops
Window == scene.sizes
Shorter(a, b) == IF a < b THEN a ELSE b

Init ==
  /\ scene \in Scenes
  /\ prog = [alive |-> FALSE, sent |-> 0, todo |-> 0]
  /\ pty = [size |-> 0, inp |-> 0]
  /\ term = Terminal_new
  /\ grid = 0
  /\ reader = [pc |-> "none", taken |-> 0, n |-> 0, sync_since |-> FALSE]
  /\ wake = FALSE
  /\ ui = [pc |-> "sleep", pane |-> "none", repaint |-> FALSE, reply |-> 0,
           size |-> 0, drawn |-> 0]

parsed == reader.taken - reader.n      \* bytes of the script the terminal has

-----------------------------------------------------------------------------
(* The program (external).                                                 *)

Program == UNCHANGED <<scene, term, grid, reader, wake, ui>>

StartsWrite ==
  /\ prog.alive /\ prog.todo = 0 /\ prog.sent < Len(scene.script)
  /\ prog' = [prog EXCEPT !.todo = Shorter(scene.burst, Len(scene.script) - prog.sent)]
  /\ UNCHANGED pty /\ Program

\* a write goes on as far as there is room, and blocks the program
Writes ==
  LET k == Shorter(prog.todo, scene.out - (prog.sent - reader.taken)) IN
  /\ prog.alive /\ k > 0
  /\ prog' = [prog EXCEPT !.sent = @ + k, !.todo = @ - k]
  /\ UNCHANGED pty /\ Program

Reads ==
  /\ prog.alive /\ prog.todo = 0 /\ pty.inp > 0
  /\ pty' = [pty EXCEPT !.inp = @ - 1]
  /\ UNCHANGED prog /\ Program

Exits ==
  /\ May("exit") /\ prog.alive /\ prog.todo = 0
  /\ prog' = [prog EXCEPT !.alive = FALSE]
  /\ UNCHANGED pty /\ Program

-----------------------------------------------------------------------------
(* The reader thread.                                                      *)

LockedWhileReplying == {"reply"}                                  \* mutant

\* the places where the UI thread waits and has the terminal locked: none, it
\* unlocks before it writes
LockedPlaces == {}

TerminalFree == ui.pc \notin LockedPlaces

Read ==
  /\ reader.pc = "read"
  /\ \E k \in 1 .. Shorter(READ_BUF, prog.sent - reader.taken) :
       reader' = [reader EXCEPT !.pc = "parse", !.taken = @ + k, !.n = k]
  /\ UNCHANGED <<scene, prog, pty, term, grid, wake, ui>>

\* the terminal after the chunk in the buffer
Advanced ==
  {advance(term, chunk) : chunk \in {SubSeq(scene.script, parsed + 1, reader.taken)}}

ParseReadsFlagFirst ==                                            \* mutant
  /\ reader.pc = "parse" /\ TerminalFree
  /\ \E t \in Advanced, expired \in BOOLEAN :
       LET held == term.sync_output /\ ~(reader.sync_since /\ expired) IN
       /\ term' = t
       /\ reader' = [reader EXCEPT !.pc = IF held THEN "read" ELSE "wake", !.n = 0,
                                   !.sync_since = term.sync_output]
  /\ UNCHANGED <<scene, prog, pty, grid, wake, ui>>

\* Parse a chunk, and hold the repaint while a synchronized update is open
\* and has not been for SYNC_OUTPUT_TIMEOUT (expired); the clock is looked at
\* when a chunk arrives, and starts at the first one.
Parse ==
  /\ reader.pc = "parse" /\ TerminalFree
  /\ \E t \in Advanced, expired \in BOOLEAN :
       LET held == t.sync_output /\ ~(reader.sync_since /\ expired) IN
       /\ term' = t
       /\ reader' = [reader EXCEPT !.pc = IF held THEN "read" ELSE "wake", !.n = 0,
                                   !.sync_since = t.sync_output]
  /\ UNCHANGED <<scene, prog, pty, grid, wake, ui>>

\* the callback is cloned out of its slot and called: request_repaint
Wake ==
  /\ reader.pc = "wake"
  /\ reader' = [reader EXCEPT !.pc = "read"]
  /\ ui' = [ui EXCEPT !.repaint = @ \/ wake]
  /\ UNCHANGED <<scene, prog, pty, term, grid, wake>>

IgnoresEof ==                                                     \* mutant
  /\ reader.pc = "read" /\ ~prog.alive /\ prog.sent = reader.taken
  /\ UNCHANGED vars

EofAtExit ==                                                      \* mutant
  /\ reader.pc = "read" /\ ~prog.alive
  /\ reader' = [reader EXCEPT !.pc = "ended"]
  /\ UNCHANGED <<scene, prog, pty, term, grid, wake, ui>>

\* the end of the output: the thread clears alive and ends
Eof ==
  /\ reader.pc = "read" /\ ~prog.alive /\ prog.sent = reader.taken
  /\ reader' = [reader EXCEPT !.pc = "ended"]
  /\ UNCHANGED <<scene, prog, pty, term, grid, wake, ui>>

is_alive == reader.pc # "ended"

-----------------------------------------------------------------------------
(* A frame of the UI thread.                                               *)

Frame ==
  /\ ui.pc = "sleep"
  /\ ui' = [ui EXCEPT !.pc = IF ui.pane = "open" THEN "pump" ELSE "size", !.repaint = FALSE]
  /\ UNCHANGED <<scene, prog, pty, term, grid, reader, wake>>

\* pump_host_effects takes the replies under the lock ...
pump_host_effects ==
  /\ ui.pc = "pump"
  /\ ui' = [ui EXCEPT !.pc = "reply", !.reply = term.replies]
  /\ term' = [term EXCEPT !.replies = 0]
  /\ UNCHANGED <<scene, prog, pty, grid, reader, wake>>

\* one write_all of the UI thread, which waits for room while the child lives
\* and fails when it does not; the failure is dropped (write_pty_logged)
write_input ==
  /\ prog.alive => pty.inp < InCap
  /\ pty' = [pty EXCEPT !.inp = IF prog.alive THEN @ + 1 ELSE @]

\* ... and writes them back after
WriteReply ==
  /\ ui.pc = "reply" /\ ui.reply > 0
  /\ write_input
  /\ ui' = [ui EXCEPT !.reply = IF prog.alive THEN @ - 1 ELSE 0]
  /\ UNCHANGED <<scene, prog, term, grid, reader, wake>>

\* the pane's wake callback is set in the first frame after its spawn
wire_wake ==
  /\ ui.pc = "reply" /\ ui.reply = 0
  /\ wake' = TRUE
  /\ ui' = [ui EXCEPT !.pc = "keys"]
  /\ UNCHANGED <<scene, prog, pty, term, grid, reader>>

\* the user does nothing, types into the pane, or closes it
Keys ==
  /\ ui.pc = "keys"
  /\ \E next \in {"size"} \cup {pc \in {"type", "close"} : May(pc)} :
       ui' = [ui EXCEPT !.pc = next]
  /\ UNCHANGED <<scene, prog, pty, term, grid, reader, wake>>

WriteKey ==
  /\ ui.pc = "type"
  /\ write_input
  /\ ui' = [ui EXCEPT !.pc = "size"]
  /\ UNCHANGED <<scene, prog, term, grid, reader, wake>>

\* a pane is spawned by the first frame that lays it out, at its size; then a
\* change of its size goes to the PTY first, which may refuse it
Spawn ==
  /\ ui.pc = "size" /\ ui.pane = "none"
  /\ \E s \in Window :
       /\ ui' = [ui EXCEPT !.pc = "draw", !.pane = "open", !.size = s]
       /\ pty' = [size |-> s, inp |-> 0]
       /\ grid' = s
  /\ prog' = [prog EXCEPT !.alive = TRUE]
  /\ reader' = [reader EXCEPT !.pc = "read"]
  /\ UNCHANGED <<scene, term, wake>>

ResizeIgnoresRefusal ==                                           \* mutant
  /\ ui.pc = "size" /\ ui.pane = "open"
  /\ \E s \in Window, refused \in {FALSE} \cup {r \in {TRUE} : May("refuse")} :
       /\ ui' = [ui EXCEPT !.size = s, !.pc = IF s = ui.size THEN "draw" ELSE "grid"]
       /\ pty' = IF s = ui.size \/ refused THEN pty ELSE [pty EXCEPT !.size = s]
  /\ UNCHANGED <<scene, prog, term, grid, reader, wake>>

\* PaneTerm::resize records the new size first, so that it asks once only;
\* Session::resize leaves the grid alone when the PTY refuses
resize ==
  /\ ui.pc = "size" /\ ui.pane = "open"
  /\ \E s \in Window, refused \in {FALSE} \cup {r \in {TRUE} : May("refuse")} :
       /\ ui' = [ui EXCEPT !.size = s, !.pc = IF s = ui.size \/ refused THEN "draw" ELSE "grid"]
       /\ pty' = IF s = ui.size \/ refused THEN pty ELSE [pty EXCEPT !.size = s]
  /\ UNCHANGED <<scene, prog, term, grid, reader, wake>>

ResizeGrid ==
  /\ ui.pc = "grid"
  /\ grid' = ui.size
  /\ ui' = [ui EXCEPT !.pc = "draw"]
  /\ UNCHANGED <<scene, prog, pty, term, reader, wake>>

\* grid_rows reads the grid under the lock; without a pane nothing is drawn
Draw ==
  /\ ui.pc = "draw"
  /\ ui' = [ui EXCEPT !.pc = "sleep", !.drawn = parsed]
  /\ UNCHANGED <<scene, prog, pty, term, grid, reader, wake>>

Blank ==
  /\ ui.pc = "size" /\ ui.pane = "closed"
  /\ ui' = [ui EXCEPT !.pc = "sleep"]
  /\ UNCHANGED <<scene, prog, pty, term, grid, reader, wake>>

-----------------------------------------------------------------------------
(* The pane is closed: Drop for Session, Drop for PtyProcess.              *)

\* the child is killed first, the reader is left to end by itself
KillChild ==
  /\ ui.pc = "close"
  /\ prog' = [prog EXCEPT !.alive = FALSE, !.todo = 0]
  /\ ui' = [ui EXCEPT !.pc = "master"]
  /\ UNCHANGED <<scene, pty, term, grid, reader, wake>>

\* closing the master waits for the child (ClosePseudoConsole)
CloseMaster ==
  /\ ui.pc = "master" /\ ~prog.alive
  /\ ui' = [ui EXCEPT !.pc = "size", !.pane = "closed"]
  /\ pty' = [pty EXCEPT !.inp = 0]
  /\ UNCHANGED <<scene, prog, term, grid, reader, wake>>

-----------------------------------------------------------------------------
UiStep ==
  \/ pump_host_effects \/ WriteReply \/ wire_wake \/ Keys \/ WriteKey
  \/ Spawn \/ resize \/ ResizeGrid \/ Draw \/ Blank \/ KillChild \/ CloseMaster

\* Parse, as the state of the reader alone shows it
LeavesParse ==
  /\ reader.pc = "parse" /\ TerminalFree
  /\ \E pc \in {"read", "wake"}, since \in BOOLEAN :
       reader' = [reader EXCEPT !.pc = pc, !.n = 0, !.sync_since = since]

Next ==
  \/ StartsWrite \/ Writes \/ Reads \/ Exits
  \/ Read \/ Parse \/ Wake \/ Eof
  \/ Frame \/ UiStep

Spec == Init /\ [][Next]_vars

\* Threads are scheduled; the idle tick starts frames (idle_repaint_interval);
\* the program reads its input when it is not blocked, and a write ends when
\* there is room; a closed PTY is at its end.
Fairness ==
  /\ WF_vars(Frame) /\ WF_vars(UiStep)
  /\ WF_vars(Read \/ Wake) /\ WF_reader(LeavesParse) /\ WF_vars(Eof /\ ui.pane = "closed")
  /\ WF_vars(Writes) /\ WF_vars(Reads)

FairSpec == Spec /\ Fairness
=============================================================================
