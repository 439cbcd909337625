----------------------------- MODULE MCSession -----------------------------
(***************************************************************************)
(* Instances of Session for TLC: scripts that a chunk can cut in awkward   *)
(* places, and scripts that talk to the UI thread.                         *)
(***************************************************************************)
EXTENDS SessionProps

OneSize == {1}
TwoSizes == {1, 2}

\* written at once, to be cut by the reader, and only looked at
Cut(script) ==
  [script |-> script, burst |-> Len(script), out |-> Len(script), sizes |-> OneSize,
   ops |-> {}]

\* what a filter can mistake: codepoints of two and three bytes before and
\* after an APC, Kitty bodies too long, with an ESC inside, ended by BEL, an
\* APC that is not Kitty's, an ESC that turns out to be another sequence
CutScenes == {Cut(s) : s \in {
  <<"a", "lead2", "cont", "esc", "_", "G", "esc", "\\", "lead3", "cont", "cont">>,
  <<"esc", "_", "G", "a", "b", "bel", "a", "esc", "_", "b", "G", "esc", "\\">>,
  <<"a", "esc", "_", "G", "esc", "a", "bel", "esc", "esc", "_", "esc", "G", "bel">>,
  <<"lead3", "cont", "cont", "esc", "S", "a", "esc", "s", "esc", "?">> }}

\* short scripts with questions, to a user who types, closes and resizes
Talk(script, burst, ops) ==
  [script |-> script, burst |-> burst, out |-> 2, sizes |-> OneSize, ops |-> ops]

TalkScenes ==
  { Talk(<<"esc", "?", "a", "esc", "?", "a", "a">>, 3, {"type", "exit"}),
    Talk(<<"a", "esc", "?", "a">>, 4, {"type", "close"}),
    Talk(<<"a", "esc", "S", "a", "a", "esc", "s">>, 3, {"close", "exit"}),
    Talk(<<"esc", "S", "a", "a">>, 1, {"exit"}) }

SizeScenes ==
  {[script |-> <<"a", "esc", "?">>, burst |-> 3, out |-> 2, sizes |-> TwoSizes,
    ops |-> ops] : ops \in {{"refuse", "close", "exit"}, {"close"}}}

AllScenes == CutScenes \cup TalkScenes \cup SizeScenes

\* the programs of these scenes write text, as those do that the theorem about
\* ChunksInvisible is for
ASSUME ScenesAreText == WritesText
=============================================================================
