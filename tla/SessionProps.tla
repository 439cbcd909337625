---------------------------- MODULE SessionProps ----------------------------
(***************************************************************************)
(* What a session promises, as properties of Session.                      *)
(***************************************************************************)
EXTENDS Session

\* A sleeping UI has drawn all that the terminal has, unless it was asked to
\* repaint: no output is parsed between a frame and its wake-up without one.
\* Before the first frame of a pane has set its callback, and while a
\* synchronized update is open, it may lag (spawn_reader_thread).
NoLostWake ==
  /\ ui.pc = "sleep" /\ ~ui.repaint /\ ui.pane = "open" /\ wake
  /\ reader.pc = "read" /\ ~term.sync_output
  => ui.drawn = parsed

\* The terminal and the program agree on the size whenever the UI is not
\* between the two, also when the PTY refused it (Session::resize); and it is
\* the size of the pane where no size is refused (PaneTerm::resize).
SizesSettle ==
  ui.pane = "open" /\ ui.pc # "grid" =>
    pty.size = grid /\ (May("refuse") \/ grid = ui.size)

\* The output that is whole: what ends in the middle of a codepoint is not
Whole(s) ==
  LET Ends(k) == \A i \in 1 .. k : i + Needed(s[i]) - 1 <= k
  IN SubSeq(s, 1, Max({k \in 0 .. Len(s) : Ends(k)}))

\* The program writes text: the continuations of a codepoint follow its lead.
Text(s) ==
  \A i, j \in 1 .. Len(s) : i < j /\ j < i + Needed(s[i]) => IsCont(s[j])
WritesText == \A x \in Scenes : Text(x.script)

\* where the APC that begins with ESC _ ends, or 0
Terminators(s) ==
  {i \in 3 .. Len(s) : s[i] = "bel" \/ (s[i] = "\\" /\ i > 3 /\ s[i - 1] = "esc")}

Body(s) ==
  LET kept[i \in 0 .. Len(s)] ==
        IF i = 0 THEN <<>>
        ELSE IF s[i] = "esc" THEN kept[i - 1] ELSE Append(kept[i - 1], s[i])
  IN kept[Len(s)]
Capped(s) == SubSeq(s, 1, Shorter(Len(s), KITTY_APC_MAX_BYTES))

\* what an APC with this body gives the Kitty decoder
Decoded(body) ==
  IF body # <<>> /\ Head(body) = "G" THEN <<<<"kitty">> \o Capped(Body(body))>> ELSE <<>>

\* What is to become of the output s from its place i on, if later says it of the
\* places behind: Kitty bodies go to their decoder, other APCs nowhere, the rest
\* to the parser; what may still become an APC goes nowhere yet.
MeaningFrom(s, i, later) ==
  LET rest == SubSeq(s, i, Len(s)) IN
  IF rest = <<>> \/ rest = <<"esc">> THEN <<>>
  ELSE IF rest[1] # "esc" THEN <<<<rest[1]>>>> \o later[i + 1]
  ELSE IF rest[2] = "esc" THEN <<<<"esc">>>> \o later[i + 1]
  ELSE IF rest[2] # "_" THEN <<<<"esc">>, <<rest[2]>>>> \o later[i + 2]
  ELSE IF Terminators(rest) = {} THEN <<>>
  ELSE LET end == Min(Terminators(rest))
       IN Decoded(SubSeq(rest, 3, IF rest[end] = "\\" THEN end - 2 ELSE end - 1))
          \o later[i + end]

Meaning(s) ==
  LET from[i \in 1 .. Len(s) + 1] == MeaningFrom(s, i, from) IN from[1]

\* However the pipe and the reader cut the output, the parser and the Kitty
\* decoder get the same of it, in the same order (advance), and the parser
\* only ever sees whole codepoints (utf8_pending).
ChunksInvisible == ~term.split /\ term.log = Meaning(Whole(SubSeq(scene.script, 1, parsed)))

\* No thread is stuck.  The UI thread always comes back from a write or from
\* closing a pane, as long as the program reads when it is not blocked itself: it
\* never waits for a program that waits for a reader that waits for the UI thread.
\* And the thread of a closed pane ends: dropping a session leaks none.
NobodyStuck ==
  /\ ui.pc \in {"reply", "type", "master"} ~> ui.pc = "sleep"
  /\ ui.pane = "closed" ~> ~is_alive

\* The session implements the abstract display; DSafe is the part of it that
\* says what a step may do.
DisplayImpl == INSTANCE Display WITH
  said <- prog.sent, shown <- ui.drawn, open <- ui.pane # "closed"
ShowsAll == DisplayImpl!DSpec
=============================================================================
