--------------------------- MODULE SessionProofs ---------------------------
(***************************************************************************)
(* Proofs about Session, for every script, buffer, pipe and size: no       *)
(* output is parsed without a frame to follow, the grid and the PTY agree, *)
(* and every step of a session is one of the abstract display.  For these  *)
(* the terminal is opaque: they hold whatever advance makes of a chunk.    *)
(*                                                                         *)
(* The rest is about that: however the output of a program that writes     *)
(* text is cut, the terminal makes the same of it.  First what output      *)
(* means, place by place; then the state of the filter, byte by byte       *)
(* (Good), and what a chunk does to it (Tracks); then the session.         *)
(***************************************************************************)
EXTENDS SessionProps, SequenceTheorems, Recursion

\* The shape of the state, without the terminal's: what a chunk is to the
\* terminal plays no part, and neither does the value of a size.
Shape ==
  /\ scene \in Scenes
  /\ prog \in [alive : BOOLEAN, sent : Nat, todo : Nat]
  /\ pty = [size |-> pty.size, inp |-> pty.inp]
  /\ reader = [pc |-> reader.pc, taken |-> reader.taken, n |-> reader.n,
               sync_since |-> reader.sync_since]
  /\ reader.taken \in Nat /\ reader.n \in Nat
  /\ wake \in BOOLEAN
  /\ ui = [pc |-> ui.pc, pane |-> ui.pane, repaint |-> ui.repaint, reply |-> ui.reply,
           size |-> ui.size, drawn |-> ui.drawn]
  /\ ui.drawn \in Nat /\ ui.repaint \in BOOLEAN

\* The bytes pass from the program to the reader, to the terminal and to the
\* picture in this order, and the reader has some in hand only to parse them.
BytesInOrder ==
  /\ reader.taken <= prog.sent
  /\ reader.n <= reader.taken
  /\ reader.pc # "parse" => reader.n = 0
  /\ ui.drawn <= parsed

\* The UI is at a place that needs a pane only while there is one, and only
\* a pane has a child; without a first one there is no reader.
PlacesFit ==
  /\ ui.pane = "none" => reader.pc = "none"
  /\ ui.pc \notin {"sleep", "size"} => ui.pane = "open"
  /\ prog.alive => ui.pane = "open"

\* SizesSettle, and what holds between the two halves of a resize.
SizesInv ==
  ui.pane = "open" =>
    /\ pty.size = IF ui.pc = "grid" THEN ui.size ELSE grid
    /\ May("refuse") \/ pty.size = ui.size

\* NoLostWake wherever the reader is: what the picture lacks is on its way to
\* a frame as long as the reader is about to call, or holds its call back.
WakeInv ==
  /\ ui.pc = "sleep" /\ ~ui.repaint /\ ui.pane = "open" /\ wake
  /\ reader.pc # "wake" /\ ~term.sync_output
  => ui.drawn = parsed

IInv == Shape /\ BytesInOrder /\ PlacesFit /\ SizesInv /\ WakeInv

-----------------------------------------------------------------------------
(* The initial state and the steps, by the thread that takes them.         *)

\* A session begins in the invariant.
LEMMA InitIInv == Init => IInv
<1> SUFFICES ASSUME Init PROVE IInv
  OBVIOUS
<1>1. Shape
  BY DEF Init, Shape
<1>2. BytesInOrder
  BY DEF Init, BytesInOrder, parsed
<1>3. PlacesFit /\ SizesInv /\ WakeInv
  BY DEF Init, PlacesFit, SizesInv, WakeInv
<1> QED BY <1>1, <1>2, <1>3 DEF IInv

\* The lesser of two numbers is one that neither exceeds.
LEMMA ShorterLeast ==
  ASSUME NEW a \in Int, NEW b \in Int
  PROVE Shorter(a, b) \in Int /\ Shorter(a, b) <= a /\ Shorter(a, b) <= b
  BY DEF Shorter

\* The scenes have a room that is a number.
LEMMA Rooms ==
  ASSUME IInv
  PROVE scene.burst \in Nat /\ scene.out \in Nat /\ Len(scene.script) \in Nat
  BY ScenesAssumption DEF IInv, Shape

\* The program only adds to what it has written.
LEMMA ProgramKeeps ==
  ASSUME IInv, StartsWrite \/ Writes \/ Reads \/ Exits
  PROVE IInv'
<1> USE DEF IInv, Shape, BytesInOrder, PlacesFit, SizesInv, WakeInv, parsed, Program, May
<1>1. CASE StartsWrite
  <2> DEFINE k == Shorter(scene.burst, Len(scene.script) - prog.sent)
  <2>1. k \in Nat
    BY <1>1, Rooms, ScenesAssumption DEF StartsWrite, Shorter
  <2> HIDE DEF k
  <2>2. prog' = [prog EXCEPT !.todo = k]
    BY <1>1 DEF StartsWrite, k
  <2> QED BY <1>1, <2>1, <2>2 DEF StartsWrite
<1>2. CASE Writes
  <2> DEFINE k == Shorter(prog.todo, scene.out - (prog.sent - reader.taken))
  <2>1. k \in Nat /\ k <= prog.todo
    BY <1>2, Rooms, ShorterLeast DEF Writes
  <2> HIDE DEF k
  <2>2. prog' = [prog EXCEPT !.sent = @ + k, !.todo = @ - k]
    BY <1>2 DEF Writes, k
  <2> DEFINE now == [alive |-> prog.alive, sent |-> prog.sent + k, todo |-> prog.todo - k]
  <2>5. prog' = now
    BY <2>2
  <2>6. now \in [alive : BOOLEAN, sent : Nat, todo : Nat] /\ prog.sent <= now.sent
    BY <2>1
  <2>3. /\ prog' \in [alive : BOOLEAN, sent : Nat, todo : Nat]
        /\ prog.sent <= prog'.sent /\ prog'.alive = prog.alive
    BY <2>5, <2>6
  <2>4. UNCHANGED <<scene, pty, term, grid, reader, wake, ui>>
    BY <1>2 DEF Writes
  <2> QED BY <2>3, <2>4
<1>3. CASE Reads
  BY <1>3 DEF Reads
<1>4. CASE Exits
  BY <1>4 DEF Exits
<1> QED BY <1>1, <1>2, <1>3, <1>4

\* The reader never takes what was not written, and after a chunk it either
\* calls or leaves a synchronized update open.
LEMMA ReaderKeeps ==
  ASSUME IInv, Read \/ Parse \/ Wake \/ Eof
  PROVE IInv'
<1> USE DEF IInv, Shape, BytesInOrder, PlacesFit, SizesInv, WakeInv, parsed, May
<1>1. CASE Read
  <2>1. PICK k \in 1 .. Shorter(READ_BUF, prog.sent - reader.taken) :
          reader' = [reader EXCEPT !.pc = "parse", !.taken = @ + k, !.n = k]
    BY <1>1 DEF Read
  <2>2. k \in Nat /\ reader.taken + k <= prog.sent
    BY ShorterLeast, PipesAssumption
  <2>3. reader' = [pc |-> "parse", taken |-> reader.taken + k, n |-> k,
                   sync_since |-> reader.sync_since]
    BY <2>1
  <2>4. reader.pc = "read" /\ UNCHANGED <<scene, prog, pty, term, grid, wake, ui>>
    BY <1>1 DEF Read
  <2>5. parsed' = parsed
    BY <2>2, <2>3, <2>4
  <2>6. Shape'
    BY <2>2, <2>3, <2>4
  <2>7. BytesInOrder'
    BY <2>2, <2>3, <2>4, <2>5
  <2> QED BY <2>3, <2>4, <2>5, <2>6, <2>7
<1>2. CASE Parse
  <2>1. PICK t \in Advanced, expired \in BOOLEAN :
          LET held == t.sync_output /\ ~(reader.sync_since /\ expired) IN
          /\ term' = t
          /\ reader' = [reader EXCEPT !.pc = IF held THEN "read" ELSE "wake", !.n = 0,
                                      !.sync_since = t.sync_output]
    BY <1>2 DEF Parse
  <2>2. reader'.pc = "read" => term'.sync_output
    BY <2>1
  <2>3. reader'.pc \in {"read", "wake"} /\ reader'.taken = reader.taken /\ reader'.n = 0
    BY <2>1
  <2>4. reader' = [pc |-> reader'.pc, taken |-> reader'.taken, n |-> reader'.n,
                   sync_since |-> reader'.sync_since]
    BY <2>1
  <2>5. parsed <= parsed' /\ parsed \in Nat /\ parsed' \in Nat
    BY <2>3
  <2>6. UNCHANGED <<scene, prog, pty, grid, wake, ui>>
    BY <1>2 DEF Parse
  <2>7. Shape'
    BY <2>3, <2>4, <2>6
  <2>8. BytesInOrder'
    BY <2>3, <2>5, <2>6
  <2>9. (PlacesFit /\ SizesInv)'
    BY <1>2, <2>6 DEF Parse
  <2>10. WakeInv'
    BY <2>2, <2>3
  <2> QED BY <2>7, <2>8, <2>9, <2>10
<1>3. CASE Wake
  BY <1>3 DEF Wake
<1>4. CASE Eof
  BY <1>4 DEF Eof
<1> QED BY <1>1, <1>2, <1>3, <1>4

\* The UI thread: a frame ends with a picture of all that was parsed, and a
\* resize leaves the PTY and the grid at one size.
LEMMA UiKeeps ==
  ASSUME IInv, Frame \/ UiStep
  PROVE IInv'
<1> USE DEF IInv, Shape, BytesInOrder, PlacesFit, SizesInv, WakeInv, parsed, May
<1>1. CASE Frame
  BY <1>1 DEF Frame
<1>2. CASE pump_host_effects
  BY <1>2 DEF pump_host_effects
<1>3. CASE WriteReply
  BY <1>3 DEF WriteReply, write_input
<1>4. CASE wire_wake
  BY <1>4 DEF wire_wake
<1>5. CASE Keys
  BY <1>5 DEF Keys
<1>6. CASE WriteKey
  BY <1>6 DEF WriteKey, write_input
<1>7. CASE Spawn
  <2>1. PICK s \in Window :
          /\ ui' = [ui EXCEPT !.pc = "draw", !.pane = "open", !.size = s]
          /\ pty' = [size |-> s, inp |-> 0]
          /\ grid' = s
    BY <1>7 DEF Spawn
  <2>2. /\ prog' = [prog EXCEPT !.alive = TRUE] /\ reader' = [reader EXCEPT !.pc = "read"]
        /\ ui.pc = "size" /\ UNCHANGED <<scene, term, wake>>
    BY <1>7 DEF Spawn
  <2>3. Shape'
    BY <2>1, <2>2
  <2>5. /\ reader.pc = "none" /\ reader'.taken = reader.taken /\ reader'.n = reader.n
        /\ ui'.drawn = ui.drawn /\ prog'.sent = prog.sent
    BY <1>7, <2>1, <2>2 DEF Spawn
  <2>4. BytesInOrder'
    BY <2>5
  <2> QED BY <2>1, <2>2, <2>3, <2>4
<1>8. CASE resize
  BY <1>8 DEF resize
<1>9. CASE ResizeGrid
  BY <1>9 DEF ResizeGrid
<1>10. CASE Draw
  <2>4. /\ ui' = [ui EXCEPT !.pc = "sleep", !.drawn = parsed]
        /\ parsed \in Nat /\ UNCHANGED <<scene, prog, pty, reader, wake>>
    BY <1>10 DEF Draw
  <2>1. Shape'
    <3> HIDE DEF parsed
    <3> QED BY <2>4
  <2>3. ui'.drawn = parsed /\ UNCHANGED <<prog, reader>>
    BY <1>10 DEF Draw
  <2>2. BytesInOrder'
    BY <2>3
  <2> QED BY <1>10, <2>1, <2>2 DEF Draw
<1>11. CASE Blank
  BY <1>11 DEF Blank
<1>12. CASE KillChild
  BY <1>12 DEF KillChild
<1>13. CASE CloseMaster
  BY <1>13 DEF CloseMaster
<1> QED BY <1>1, <1>2, <1>3, <1>4, <1>5, <1>6, <1>7, <1>8, <1>9, <1>10, <1>11, <1>12,
           <1>13 DEF UiStep

\* Every step keeps the invariant.
LEMMA NextIInv == IInv /\ [Next]_vars => IInv'
<1> SUFFICES ASSUME IInv, [Next]_vars PROVE IInv'
  OBVIOUS
<1>1. CASE UNCHANGED vars
  BY <1>1 DEF vars, IInv, Shape, BytesInOrder, PlacesFit, SizesInv, WakeInv, parsed, May
<1> QED BY <1>1, ProgramKeeps, ReaderKeeps, UiKeeps DEF Next

\* The invariant holds of every session.
THEOREM Invariant == Spec => []IInv
  BY InitIInv, NextIInv, PTL DEF Spec

\* A sleeping UI has drawn all that the terminal has, unless a repaint was
\* requested (spawn_reader_thread): the call of the reader is never lost
\* between a frame and its sleep.
THEOREM WakeNeverLost == Spec => []NoLostWake
<1>1. IInv => NoLostWake
  BY DEF IInv, WakeInv, NoLostWake
<1> QED BY <1>1, Invariant, PTL

\* The program and the grid agree on the size whenever the UI is not between
\* the two, also when the PTY refused a size (Session::resize), and with the
\* pane where none is refused.
THEOREM SizesAgree == Spec => []SizesSettle
<1>1. IInv => SizesSettle
  BY DEF IInv, SizesInv, SizesSettle, May
<1> QED BY <1>1, Invariant, PTL

-----------------------------------------------------------------------------
(* Session implements Display, step by step.                               *)

\* A step that changes neither what was said, what is shown nor whether the
\* pane is there is none of the display's.
LEMMA Unseen ==
  ASSUME prog'.sent = prog.sent, ui'.drawn = ui.drawn, ui'.pane = ui.pane
  PROVE UNCHANGED DisplayImpl!dvars
  BY DEF DisplayImpl!dvars

\* The program says more by what gets into the pipe, and only under a pane.
LEMMA WritesSays ==
  ASSUME IInv, Writes
  PROVE DisplayImpl!Say
<1> DEFINE k == Shorter(prog.todo, scene.out - (prog.sent - reader.taken))
<1>1. k \in Nat /\ k > 0
  BY Rooms, ShorterLeast DEF Writes, IInv, Shape
<1> HIDE DEF k
<1>2. prog' = [prog EXCEPT !.sent = @ + k, !.todo = @ - k]
  BY DEF Writes, k
<1>3. prog'.sent = prog.sent + k
  BY <1>2 DEF IInv, Shape
<1>4. ui.pane = "open" /\ UNCHANGED ui
  BY DEF Writes, Program, IInv, PlacesFit
<1>5. prog.sent \in Nat
  BY DEF IInv, Shape
<1> QED BY <1>1, <1>3, <1>4, <1>5 DEF DisplayImpl!Say

\* A frame shows more or the same, and never more than was said.
LEMMA DrawShows ==
  ASSUME IInv, Draw
  PROVE [DisplayImpl!Show]_(DisplayImpl!dvars)
<1>1. ui'.drawn = parsed /\ ui'.pane = ui.pane /\ UNCHANGED prog
  BY DEF Draw, IInv, Shape
<1>2. ui.pane = "open"
  BY DEF Draw, IInv, PlacesFit
<1>3. ui.drawn <= parsed /\ parsed <= prog.sent /\ {ui.drawn, parsed, prog.sent} \subseteq Nat
  BY DEF IInv, Shape, BytesInOrder, parsed
<1>4. CASE ui.drawn = parsed
  BY <1>1, <1>4, Unseen
<1>5. CASE ui.drawn # parsed
  <2>1. ui'.drawn \in ui.drawn + 1 .. prog.sent
    BY <1>1, <1>3, <1>5
  <2> QED BY <1>1, <1>2, <2>1 DEF DisplayImpl!Show
<1> QED BY <1>4, <1>5

\* What the reader does is not seen before a frame.
LEMMA ReaderUnseen ==
  ASSUME IInv, Read \/ Parse \/ Wake \/ Eof
  PROVE UNCHANGED DisplayImpl!dvars
<1>1. UNCHANGED prog /\ ui'.drawn = ui.drawn /\ ui'.pane = ui.pane
  BY DEF IInv, Shape, Read, Parse, Wake, Eof
<1> QED BY <1>1, Unseen

\* Of the UI thread, a picture and the end of the pane are seen.
LEMMA UiSeen ==
  ASSUME IInv, Frame \/ UiStep
  PROVE [DisplayImpl!DNext]_(DisplayImpl!dvars)
<1>1. CASE Draw
  BY <1>1, DrawShows DEF DisplayImpl!DNext
<1>2. CASE CloseMaster
  <2>1. ui.pane = "open" /\ ui'.pane = "closed" /\ ui'.drawn = ui.drawn /\ UNCHANGED prog
    BY <1>2 DEF CloseMaster, IInv, Shape, PlacesFit
  <2> QED BY <2>1 DEF DisplayImpl!DNext, DisplayImpl!Close
<1>3. CASE Spawn
  <2>1. /\ ui.pane = "none" /\ ui'.pane = "open" /\ ui'.drawn = ui.drawn
        /\ prog'.sent = prog.sent
    BY <1>3 DEF Spawn, IInv, Shape
  <2> QED BY <2>1 DEF DisplayImpl!dvars
<1>4. CASE KillChild
  <2>1. ui'.pane = ui.pane /\ ui'.drawn = ui.drawn /\ prog'.sent = prog.sent
    BY <1>4 DEF KillChild, IInv, Shape
  <2> QED BY <2>1, Unseen
<1>5. CASE \/ Frame \/ pump_host_effects \/ WriteReply \/ wire_wake \/ Keys \/ WriteKey
           \/ resize \/ ResizeGrid \/ Blank
  <2>1. UNCHANGED prog /\ ui'.drawn = ui.drawn /\ ui'.pane = ui.pane
    BY <1>5 DEF Frame, pump_host_effects, WriteReply, wire_wake, Keys, WriteKey, resize,
                ResizeGrid, Blank, IInv, Shape
  <2> QED BY <2>1, Unseen
<1> QED BY <1>1, <1>2, <1>3, <1>4, <1>5 DEF UiStep

\* The other steps of the program are not seen at all.
LEMMA ProgramSeen ==
  ASSUME IInv, StartsWrite \/ Writes \/ Reads \/ Exits
  PROVE [DisplayImpl!DNext]_(DisplayImpl!dvars)
<1>1. CASE Writes
  BY <1>1, WritesSays DEF DisplayImpl!DNext
<1>2. CASE StartsWrite \/ Reads \/ Exits
  <2>1. prog'.sent = prog.sent /\ UNCHANGED ui
    BY <1>2 DEF StartsWrite, Reads, Exits, Program, IInv, Shape
  <2> QED BY <2>1, Unseen
<1> QED BY <1>1, <1>2

\* The session implements the steps of the abstract display: what is shown was
\* written, is never lost from sight, and nothing is shown of a closed pane.
\* (That all of it is shown in the end needs fairness, and is checked.)
THEOREM ImplementsDisplay == Spec => DisplayImpl!DSafe
<1>1. Init => DisplayImpl!DInit
  BY DEF Init, DisplayImpl!DInit
<1>2. IInv /\ [Next]_vars => [DisplayImpl!DNext]_(DisplayImpl!dvars)
  <2> SUFFICES ASSUME IInv, [Next]_vars PROVE [DisplayImpl!DNext]_(DisplayImpl!dvars)
    OBVIOUS
  <2>1. CASE UNCHANGED vars
    BY <2>1, Unseen DEF vars
  <2> QED BY <2>1, ProgramSeen, ReaderUnseen, UiSeen DEF Next
<1> QED BY <1>1, <1>2, Invariant, PTL DEF Spec, DisplayImpl!DSafe

-----------------------------------------------------------------------------
(* Parts of the output, and what they mean.                                *)

\* the provers do not know that a literal is a string
Byte == STRING \cup {"esc", "kitty"}
Out == Seq(Seq(Byte))

\* an APC that begins at i ends at e
Closes(s, i, e) == s[e] = "bel" \/ (s[e] = "\\" /\ e > i + 2 /\ s[e - 1] = "esc")
Open(s, i, n) == \A e \in i + 2 .. n : ~Closes(s, i, e)

\* A part of a sequence, by its places.
LEMMA Part ==
  ASSUME NEW S, NEW s \in Seq(S), NEW i \in 1 .. Len(s) + 1, NEW n \in Nat, n <= Len(s)
  PROVE  /\ SubSeq(s, i, n) \in Seq(S)
         /\ Len(SubSeq(s, i, n)) = IF i <= n THEN n - i + 1 ELSE 0
         /\ \A k \in 1 .. n - i + 1 : SubSeq(s, i, n)[k] = s[i + k - 1]
<1>1. \A k \in i .. n : s[k] \in S
  BY ElementOfSeq
<1>2. i \in Int /\ n \in Int
  OBVIOUS
<1> QED BY <1>1, <1>2, SubSeqProperties

\* A part of a part is a part of the whole.
LEMMA PartOfPart ==
  ASSUME NEW S, NEW s \in Seq(S), NEW i \in 1 .. Len(s) + 1, NEW n \in Nat, n <= Len(s),
         NEW a \in Nat \ {0}, NEW b \in Nat, i + b <= n + 1, i + a <= n + 2
  PROVE  SubSeq(SubSeq(s, i, n), a, b) = SubSeq(s, i + a - 1, i + b - 1)
<1> DEFINE p == SubSeq(s, i, n)
           u == SubSeq(p, a, b)
           v == SubSeq(s, i + a - 1, i + b - 1)
<1>1. /\ p \in Seq(S) /\ Len(p) = n - i + 1
      /\ \A k \in 1 .. n - i + 1 : p[k] = s[i + k - 1]
  BY Part
<1> HIDE DEF p
<1>2. /\ u \in Seq(S) /\ Len(u) = IF a <= b THEN b - a + 1 ELSE 0
      /\ \A k \in 1 .. b - a + 1 : u[k] = p[a + k - 1]
  <2>1. a \in 1 .. Len(p) + 1 /\ b <= Len(p)
    BY <1>1
  <2>2. p \in Seq(S) /\ b \in Nat
    BY <1>1
  <2> HIDE DEF u
  <2>3. /\ SubSeq(p, a, b) \in Seq(S) /\ Len(SubSeq(p, a, b)) = IF a <= b THEN b - a + 1 ELSE 0
        /\ \A k \in 1 .. b - a + 1 : SubSeq(p, a, b)[k] = p[a + k - 1]
    BY <2>1, <2>2, Part
  <2> QED BY <2>3 DEF u
<1>3. /\ v \in Seq(S) /\ Len(v) = IF a <= b THEN b - a + 1 ELSE 0
      /\ \A k \in 1 .. b - a + 1 : v[k] = s[i + a - 1 + k - 1]
  <2>1. i + a - 1 \in 1 .. Len(s) + 1 /\ i + b - 1 <= Len(s) /\ i + b - 1 \in Nat
    BY <1>1
  <2>2. (i + b - 1) - (i + a - 1) + 1 = b - a + 1 /\ (i + a - 1 <= i + b - 1 <=> a <= b)
    OBVIOUS
  <2> QED BY <2>1, <2>2, Part
<1> HIDE DEF u, v
<1>4. ASSUME NEW k \in 1 .. Len(u) PROVE u[k] = v[k]
  <2>1. k \in 1 .. b - a + 1
    BY <1>2
  <2>2. a + k - 1 \in 1 .. n - i + 1
    BY <2>1
  <2>3. p[a + k - 1] = s[i + (a + k - 1) - 1]
    BY <1>1, <2>2
  <2>4. i + (a + k - 1) - 1 = i + a - 1 + k - 1
    BY <2>1
  <2> QED BY <1>2, <1>3, <2>1, <2>3, <2>4
<1> QED BY <1>2, <1>3, <1>4, SeqEqual DEF u, v, p

\* m is what the first n bytes of s mean from i on, if later says it of the
\* places behind: by what is at i
MeansAt(s, n, i, m, later) ==
  /\ i = n + 1 => m = <<>>
  /\ i = n /\ s[i] = "esc" => m = <<>>
  /\ i <= n /\ s[i] # "esc" => m = <<<<s[i]>>>> \o later[i + 1]
  /\ i < n /\ s[i] = "esc" /\ s[i + 1] = "esc" => m = <<<<"esc">>>> \o later[i + 1]
  /\ i < n /\ s[i] = "esc" /\ s[i + 1] \notin {"esc", "_"} =>
       m = <<<<"esc">>, <<s[i + 1]>>>> \o later[i + 2]
  /\ i < n /\ s[i] = "esc" /\ s[i + 1] = "_" /\ Open(s, i, n) => m = <<>>
  /\ \A e \in i + 2 .. n :
       s[i] = "esc" /\ s[i + 1] = "_" /\ Closes(s, i, e) /\ Open(s, i, e - 1) =>
         m = Decoded(SubSeq(s, i + 2, IF s[e] = "\\" THEN e - 2 ELSE e - 1)) \o later[e + 1]

\* MeaningFrom, told by what stands at the place.
LEMMA MeaningCases ==
  ASSUME NEW s \in Seq(Byte), NEW i \in 1 .. Len(s) + 1, NEW later
  PROVE  MeansAt(s, Len(s), i, MeaningFrom(s, i, later), later)
<1> DEFINE n == Len(s)
           rest == SubSeq(s, i, n)
           m == MeaningFrom(s, i, later)
<1>0. n \in Nat /\ i \in 1 .. n + 1
  OBVIOUS
<1>1. /\ rest \in Seq(Byte) /\ Len(rest) = n - i + 1
      /\ \A k \in 1 .. n - i + 1 : rest[k] = s[i + k - 1]
  BY Part
<1>2. m = IF rest = <<>> \/ rest = <<"esc">> THEN <<>>
          ELSE IF rest[1] # "esc" THEN <<<<rest[1]>>>> \o later[i + 1]
          ELSE IF rest[2] = "esc" THEN <<<<"esc">>>> \o later[i + 1]
          ELSE IF rest[2] # "_" THEN <<<<"esc">>, <<rest[2]>>>> \o later[i + 2]
          ELSE IF Terminators(rest) = {} THEN <<>>
          ELSE LET end == Min(Terminators(rest))
               IN Decoded(SubSeq(rest, 3, IF rest[end] = "\\" THEN end - 2 ELSE end - 1))
                  \o later[i + end]
  BY DEF MeaningFrom
<1>3. Terminators(rest) = {k \in 3 .. n - i + 1 : Closes(s, i, i + k - 1)}
  <2>1. ASSUME NEW k \in 3 .. n - i + 1
        PROVE  (rest[k] = "bel" \/ (rest[k] = "\\" /\ k > 3 /\ rest[k - 1] = "esc"))
                 <=> Closes(s, i, i + k - 1)
    <3>1. rest[k] = s[i + k - 1] /\ rest[k - 1] = s[i + (k - 1) - 1]
      BY <1>1
    <3>2. i + (k - 1) - 1 = (i + k - 1) - 1 /\ (k > 3 <=> i + k - 1 > i + 2)
      OBVIOUS
    <3> HIDE DEF rest
    <3> QED BY <3>1, <3>2 DEF Closes
  <2> HIDE DEF rest
  <2> QED BY <1>1, <2>1 DEF Terminators
<1> HIDE DEF rest, m, n
<1>5. i <= n => rest[1] = s[i]
  <2>1. i <= n => 1 \in 1 .. n - i + 1 /\ i + 1 - 1 = i
    BY <1>0
  <2> QED BY <1>1, <2>1
<1>6. i < n => rest[2] = s[i + 1]
  <2>1. i < n => 2 \in 1 .. n - i + 1 /\ i + 2 - 1 = i + 1
    BY <1>0
  <2> QED BY <1>1, <2>1
<1>4. /\ rest = <<>> <=> i = n + 1
      /\ rest = <<"esc">> => i = n /\ s[i] = "esc"
      /\ i = n /\ s[i] = "esc" => rest = <<"esc">>
  <2>1. rest = <<>> <=> i = n + 1
    BY <1>0, <1>1, EmptySeq DEF n
  <2>2. ASSUME rest = <<"esc">> PROVE i = n /\ s[i] = "esc"
    <3>1. Len(rest) = 1 /\ rest[1] = "esc"
      BY <2>2
    <3>2. i = n
      <4>1. Len(rest) = n - i + 1
        BY <1>1
      <4>2. n - i + 1 = 1
        BY <3>1, <4>1
      <4> QED BY <1>0, <4>2
    <3> QED BY <1>5, <3>1, <3>2
  <2>3. ASSUME i = n, s[i] = "esc" PROVE rest = <<"esc">>
    <3> DEFINE esc == <<"esc">>
    <3>1. Len(rest) = 1 /\ rest[1] = "esc"
      BY <1>0, <1>1, <1>5, <2>3
    <3>2. esc \in Seq(Byte) /\ Len(esc) = 1 /\ esc[1] = "esc"
      <4>1. Len(esc) = 1
        OBVIOUS
      <4>2. esc[1] = "esc"
        OBVIOUS
      <4>3. esc \in Seq(Byte)
        BY DEF Byte
      <4> QED BY <4>1, <4>2, <4>3
    <3> HIDE DEF esc
    <3>3. \A k \in 1 .. Len(rest) : rest[k] = esc[k]
      BY <3>1, <3>2
    <3>4. rest = esc
      BY <1>1, <3>1, <3>2, <3>3, SeqEqual
    <3> QED BY <3>4 DEF esc
  <2> QED BY <2>1, <2>2, <2>3
<1>7. i = n + 1 => m = <<>>
  BY <1>2, <1>4
<1>8. i = n /\ s[i] = "esc" => m = <<>>
  BY <1>2, <1>4
<1>9. i <= n /\ s[i] # "esc" => m = <<<<s[i]>>>> \o later[i + 1]
  <2> SUFFICES ASSUME i <= n, s[i] # "esc" PROVE m = <<<<s[i]>>>> \o later[i + 1]
    OBVIOUS
  <2>1. i # n + 1
    BY <1>0
  <2>2. rest # <<>> /\ rest # <<"esc">> /\ rest[1] = s[i]
    BY <1>4, <1>5, <2>1
  <2> QED BY <1>2, <2>2
<1>10. i < n /\ s[i] = "esc" => rest # <<>> /\ rest # <<"esc">> /\ rest[1] = "esc" /\ rest[2] = s[i + 1]
  BY <1>0, <1>4, <1>5, <1>6
<1>11. i < n /\ s[i] = "esc" /\ s[i + 1] = "esc" => m = <<<<"esc">>>> \o later[i + 1]
  BY <1>2, <1>10
<1>12. i < n /\ s[i] = "esc" /\ s[i + 1] \notin {"esc", "_"} =>
         m = <<<<"esc">>, <<s[i + 1]>>>> \o later[i + 2]
  BY <1>2, <1>10
<1>13. ASSUME i < n, s[i] = "esc", s[i + 1] = "_", Open(s, i, n) PROVE m = <<>>
  <2>1. Terminators(rest) = {}
    <3>1. \A k \in 3 .. n - i + 1 : i + k - 1 \in i + 2 .. n
      BY <1>0
    <3> QED BY <1>3, <1>13, <3>1 DEF Open
  <2>2. rest[2] = "_" /\ rest[1] = "esc" /\ rest # <<>> /\ rest # <<"esc">>
    BY <1>10, <1>13
  <2> QED BY <1>2, <2>1, <2>2
<1>14. ASSUME NEW e \in i + 2 .. n,
              s[i] = "esc", s[i + 1] = "_", Closes(s, i, e), Open(s, i, e - 1)
       PROVE  m = Decoded(SubSeq(s, i + 2, IF s[e] = "\\" THEN e - 2 ELSE e - 1))
                    \o later[e + 1]
  <2> DEFINE k == e - i + 1
             T == Terminators(rest)
  <2>1. k \in 3 .. n - i + 1 /\ i + k - 1 = e /\ i < n
    BY <1>0
  <2>2. k \in T
    BY <1>3, <1>14, <2>1
  <2>3. \A j \in T : k <= j
    <3> TAKE j \in T
    <3>1. j \in 3 .. n - i + 1 /\ Closes(s, i, i + j - 1)
      BY <1>3
    <3>2. i + j - 1 \notin i + 2 .. e - 1
      BY <1>14, <3>1 DEF Open
    <3> HIDE DEF T
    <3> QED BY <1>0, <3>1, <3>2
  <2>4. Min(T) = k
    <3>1. T \subseteq Nat
      BY <1>0, <1>3
    <3> HIDE DEF T, k
    <3>2. \E x \in T : \A y \in T : x <= y
      BY <2>2, <2>3
    <3>3. Min(T) \in T /\ \A y \in T : Min(T) <= y
      BY <3>2 DEF Min
    <3>4. Min(T) <= k /\ k <= Min(T) /\ k \in Nat /\ Min(T) \in Nat
      BY <2>2, <2>3, <3>1, <3>3
    <3> QED BY <3>4
  <2>5. rest[k] = s[e]
    BY <1>1, <2>1 DEF n
  <2>6. SubSeq(rest, 3, IF rest[k] = "\\" THEN k - 2 ELSE k - 1)
          = SubSeq(s, i + 2, IF s[e] = "\\" THEN e - 2 ELSE e - 1)
    <3>1. ASSUME NEW b \in {k - 2, k - 1} PROVE SubSeq(rest, 3, b) = SubSeq(s, i + 2, i + b - 1)
      <4>1. b \in Nat /\ i + b <= n + 1 /\ i + 3 <= n + 2
        BY <2>1, <1>0
      <4>2. i + 3 - 1 = i + 2
        OBVIOUS
      <4> HIDE DEF k
      <4>3. SubSeq(SubSeq(s, i, n), 3, b) = SubSeq(s, i + 3 - 1, i + b - 1)
        BY <1>0, <4>1, PartOfPart DEF n
      <4> QED BY <4>2, <4>3 DEF rest
    <3>2. i + (k - 2) - 1 = e - 2 /\ i + (k - 1) - 1 = e - 1
      OBVIOUS
    <3>3. CASE s[e] = "\\"
      BY <2>5, <3>1, <3>2, <3>3
    <3>4. CASE s[e] # "\\"
      BY <2>5, <3>1, <3>2, <3>4
    <3> QED BY <3>3, <3>4
  <2>7. i + k = e + 1
    OBVIOUS
  <2>8. rest[2] = "_" /\ rest[1] = "esc" /\ rest # <<>> /\ rest # <<"esc">>
    BY <1>10, <1>14, <2>1
  <2> HIDE DEF k
  <2> QED BY <1>2, <2>2, <2>4, <2>6, <2>7, <2>8
<1> QED BY <1>7, <1>8, <1>9, <1>11, <1>12, <1>13, <1>14 DEF m, n, MeansAt

\* An APC that ends has a first end.
LEMMA FirstClose ==
  ASSUME NEW s, NEW i \in Nat, NEW n \in Nat, ~Open(s, i, n)
  PROVE  \E e \in i + 2 .. n : Closes(s, i, e) /\ Open(s, i, e - 1)
<1> DEFINE T == {e \in i + 2 .. n : Closes(s, i, e)}
<1>1. T \subseteq Nat /\ T # {}
  BY DEF Open
<1>2. PICK e \in T : \A k \in T : e <= k
  <2> HIDE DEF T
  <2> QED BY <1>1, LeastNat
<1>3. Open(s, i, e - 1)
  <2> SUFFICES ASSUME NEW k \in i + 2 .. e - 1, Closes(s, i, k) PROVE FALSE
    BY DEF Open
  <2>1. k \in T
    BY <1>2
  <2> QED BY <1>1, <1>2, <2>1
<1> QED BY <1>2, <1>3

\* f keeps what is not an ESC of q up to each place
Keeps(f, q) == /\ f \in [0 .. Len(q) -> Seq(Byte)] /\ f[0] = <<>>
               /\ \A i \in 1 .. Len(q) :
                    f[i] = IF q[i] = "esc" THEN f[i - 1] ELSE Append(f[i - 1], q[i])

\* Body is the last of a run over the sequence.
LEMMA BodyKeeps ==
  ASSUME NEW q \in Seq(Byte)
  PROVE  \E f : Keeps(f, q) /\ Body(q) = f[Len(q)]
<1> DEFINE X == Seq(Byte)
           next(x, i) == IF q[i] = "esc" THEN x ELSE Append(x, q[i])
           Eq(f) == f = [i \in 0 .. Len(q) |->
                           IF i = 0 THEN <<>>
                           ELSE IF q[i] = "esc" THEN f[i - 1] ELSE Append(f[i - 1], q[i])]
           F == CHOOSE f : Eq(f)
           g == [p \in X \X Nat |-> IF p[2] \in DOMAIN q THEN next(p[1], p[2]) ELSE p[1]]
<1>1. Len(q) \in Nat /\ DOMAIN q = 1 .. Len(q)
  OBVIOUS
<1>2. ASSUME NEW x \in X, NEW i \in DOMAIN q PROVE next(x, i) \in X
  <2>1. q[i] \in Byte
    BY <1>1
  <2> QED BY <2>1, AppendProperties
<1>3. ASSUME NEW x \in X, NEW i \in Nat
      PROVE  /\ g[<<x, i>>] \in X
             /\ i \in DOMAIN q => g[<<x, i>>] = next(x, i)
  <2>1. <<x, i>> \in X \X Nat
    OBVIOUS
  <2>2. g[<<x, i>>] = IF i \in DOMAIN q THEN next(x, i) ELSE x
    BY <2>1
  <2> HIDE DEF g, next, X
  <2> QED BY <1>2, <2>2
<1> HIDE DEF g
<1>4. PICK f \in [0 .. Len(q) -> X] : Iterate(f, <<>>, g, Len(q))
  <2>1. <<>> \in X /\ StaysIn(g, X)
    BY <1>3, EmptySeq DEF StaysIn
  <2> HIDE DEF X
  <2> QED BY <1>1, <2>1, Iterates
<1>5. f[0] = <<>> /\ \A i \in 1 .. Len(q) : f[i] = next(f[i - 1], i)
  <2>1. \A i \in 1 .. Len(q) : f[i - 1] \in X /\ i \in DOMAIN q /\ i \in Nat
    BY <1>1, <1>4
  <2> HIDE DEF next, X
  <2> QED BY <1>3, <1>4, <2>1 DEF Iterate
<1>6. Eq(f)
  <2>1. ASSUME NEW i \in 0 .. Len(q)
        PROVE  f[i] = IF i = 0 THEN <<>>
                      ELSE IF q[i] = "esc" THEN f[i - 1] ELSE Append(f[i - 1], q[i])
    <3>1. CASE i = 0
      BY <1>5, <3>1
    <3>2. CASE i # 0
      <4>1. i \in 1 .. Len(q)
        BY <1>1, <3>2
      <4> QED BY <1>5, <3>2, <4>1
    <3> QED BY <3>1, <3>2
  <2>2. DOMAIN f = 0 .. Len(q) /\ f = [i \in DOMAIN f |-> f[i]]
    BY <1>4
  <2> QED BY <2>1, <2>2
<1>7. Body(q) = F[Len(q)]
  BY ZenonT(60) DEF Body
<1>8. Eq(F)
  <2> HIDE DEF Eq
  <2> QED BY <1>6
<1>9. \A i \in 0 .. Len(q) : F[i] = IF i = 0 THEN <<>> ELSE next(F[i - 1], i)
  <2> HIDE DEF F
  <2> QED BY <1>8
<1> HIDE DEF F
<1>10. \A i \in Nat : i <= Len(q) => F[i] \in X
  <2> DEFINE S == {i \in Nat : i <= Len(q) => F[i] \in X}
  <2>1. 0 \in S
    <3>1. F[0] = <<>>
      BY <1>1, <1>9
    <3> QED BY <3>1, EmptySeq
  <2>2. ASSUME NEW i \in Nat, i \in S PROVE i + 1 \in S
    <3> SUFFICES ASSUME i + 1 <= Len(q) PROVE F[i + 1] \in X
      OBVIOUS
    <3>1. F[i] \in X /\ i + 1 \in DOMAIN q /\ i + 1 \in 0 .. Len(q) /\ i + 1 # 0 /\ (i + 1) - 1 = i
      BY <1>1, <2>2
    <3>2. F[i + 1] = next(F[i], i + 1)
      BY <1>9, <3>1
    <3> HIDE DEF next, X
    <3> QED BY <1>2, <3>1, <3>2
  <2> HIDE DEF S
  <2>3. Nat \subseteq S
    BY <2>1, <2>2, SetInduction
  <2> QED BY <2>3 DEF S
<1>11. Keeps(F, q)
  <2>1. F = [i \in 0 .. Len(q) |-> F[i]]
    BY <1>8
  <2>2. F \in [0 .. Len(q) -> X]
    BY <1>1, <1>10, <2>1
  <2>3. F[0] = <<>> /\ \A i \in 1 .. Len(q) : F[i] = next(F[i - 1], i)
    BY <1>1, <1>9
  <2> QED BY <2>2, <2>3 DEF Keeps
<1> QED BY <1>7, <1>11

\* Body, byte by byte: an ESC is left out.
LEMMA BodyGrows ==
  ASSUME NEW q \in Seq(Byte), NEW b \in Byte
  PROVE  /\ Body(q) \in Seq(Byte)
         /\ Body(<<>>) = <<>>
         /\ Body(Append(q, b)) = IF b = "esc" THEN Body(q) ELSE Append(Body(q), b)
<1> DEFINE r == Append(q, b)
<1>1. /\ r \in Seq(Byte) /\ Len(r) = Len(q) + 1 /\ Len(q) \in Nat
      /\ \A i \in 1 .. Len(q) : r[i] = q[i]
      /\ r[Len(q) + 1] = b
  BY AppendProperties
<1> HIDE DEF r
<1>2. PICK f : Keeps(f, q) /\ Body(q) = f[Len(q)]
  BY BodyKeeps
<1>3. PICK h : Keeps(h, r) /\ Body(r) = h[Len(r)]
  BY <1>1, BodyKeeps
<1>4. PICK e : Keeps(e, <<>>) /\ Body(<<>>) = e[0]
  <2>1. <<>> \in Seq(Byte) /\ Len(<<>>) = 0
    BY EmptySeq
  <2> QED BY <2>1, BodyKeeps
<1>5. \A i \in Nat : i <= Len(q) => f[i] = h[i]
  <2> DEFINE S == {i \in Nat : i <= Len(q) => f[i] = h[i]}
  <2>1. 0 \in S
    BY <1>2, <1>3 DEF Keeps
  <2>2. ASSUME NEW i \in Nat, i \in S PROVE i + 1 \in S
    <3> SUFFICES ASSUME i + 1 <= Len(q) PROVE f[i + 1] = h[i + 1]
      OBVIOUS
    <3>1. f[i] = h[i] /\ i + 1 \in 1 .. Len(q) /\ i + 1 \in 1 .. Len(r) /\ (i + 1) - 1 = i
      BY <1>1, <2>2
    <3>2. r[i + 1] = q[i + 1]
      BY <1>1, <3>1
    <3> QED BY <1>2, <1>3, <3>1, <3>2 DEF Keeps
  <2> HIDE DEF S
  <2>3. Nat \subseteq S
    BY <2>1, <2>2, SetInduction
  <2> QED BY <2>3 DEF S
<1>6. Body(q) \in Seq(Byte)
  BY <1>1, <1>2 DEF Keeps
<1>7. Body(r) = IF b = "esc" THEN Body(q) ELSE Append(Body(q), b)
  <2>1. Len(r) \in 1 .. Len(r) /\ Len(r) - 1 = Len(q) /\ r[Len(r)] = b
    BY <1>1
  <2>2. h[Len(r)] = IF r[Len(r)] = "esc" THEN h[Len(r) - 1] ELSE Append(h[Len(r) - 1], r[Len(r)])
    BY <1>3, <2>1 DEF Keeps
  <2>3. h[Len(q)] = f[Len(q)]
    BY <1>1, <1>5
  <2> QED BY <1>2, <1>3, <2>1, <2>2, <2>3
<1> QED BY <1>4, <1>6, <1>7 DEF Keeps, r

\* What the limit leaves of a body.
LEMMA CappedIs ==
  ASSUME NEW q \in Seq(Byte)
  PROVE  /\ Capped(q) \in Seq(Byte)
         /\ Len(q) <= KITTY_APC_MAX_BYTES => Capped(q) = q
         /\ Len(Capped(q)) = Shorter(Len(q), KITTY_APC_MAX_BYTES)
         /\ \A i \in 1 .. Len(Capped(q)) : Capped(q)[i] = q[i]
<1> DEFINE m == Shorter(Len(q), KITTY_APC_MAX_BYTES)
<1>1. m \in Nat /\ m <= Len(q) /\ (Len(q) <= KITTY_APC_MAX_BYTES => m = Len(q))
  BY LimitsAssumption DEF Shorter
<1> HIDE DEF m
<1>2. /\ SubSeq(q, 1, m) \in Seq(Byte)
      /\ Len(SubSeq(q, 1, m)) = m
      /\ \A k \in 1 .. m : SubSeq(q, 1, m)[k] = q[k]
  <2>1. 1 \in 1 .. Len(q) + 1 /\ m - 1 + 1 = m /\ (1 <= m \/ m = 0)
    BY <1>1
  <2>2. /\ SubSeq(q, 1, m) \in Seq(Byte)
        /\ Len(SubSeq(q, 1, m)) = IF 1 <= m THEN m - 1 + 1 ELSE 0
        /\ \A k \in 1 .. m - 1 + 1 : SubSeq(q, 1, m)[k] = q[1 + k - 1]
    BY <1>1, <2>1, Part
  <2>3. \A k \in 1 .. m : 1 + k - 1 = k
    OBVIOUS
  <2> QED BY <2>1, <2>2, <2>3
<1>3. Len(q) <= KITTY_APC_MAX_BYTES => SubSeq(q, 1, m) = q
  BY <1>1, SubSeqFull
<1> QED BY <1>2, <1>3 DEF Capped, m

\* What an APC becomes is output.
LEMMA DecodedIn ==
  ASSUME NEW body \in Seq(Byte)
  PROVE  Decoded(body) \in Out
<1>1. Body(body) \in Seq(Byte)
  <2>1. "esc" \in Byte
    BY DEF Byte
  <2> QED BY <2>1, BodyGrows
<1>2. Capped(Body(body)) \in Seq(Byte)
  BY <1>1, CappedIs
<1>3. <<"kitty">> \in Seq(Byte)
  BY DEF Byte
<1> DEFINE one == <<"kitty">> \o Capped(Body(body))
<1>4. one \in Seq(Byte)
  BY <1>2, <1>3, ConcatProperties
<1> HIDE DEF one
<1>5. <<one>> \in Out /\ <<>> \in Out
  BY <1>4 DEF Out
<1> QED BY <1>5 DEF Decoded, one

\* What a place means is a meaning, and is made of what later ones mean.
LEMMA MeaningLocal ==
  ASSUME NEW s \in Seq(Byte), NEW i \in 1 .. Len(s) + 1,
         NEW h, NEW k, \A j \in i + 1 .. Len(s) + 1 : h[j] \in Out /\ h[j] = k[j]
  PROVE  MeaningFrom(s, i, h) \in Out /\ MeaningFrom(s, i, h) = MeaningFrom(s, i, k)
<1> DEFINE n == Len(s)
           m(l) == MeaningFrom(s, i, l)
<1>0. n \in Nat /\ i \in 1 .. n + 1 /\ (i <= n => s[i] \in Byte) /\ (i < n => s[i + 1] \in Byte)
  BY ElementOfSeq
<1>1. <<>> \in Out
  BY DEF Out
<1>2. ASSUME NEW x \in Out, NEW j \in i + 1 .. n + 1
      PROVE  x \o h[j] \in Out /\ h[j] = k[j]
  <2>1. h[j] \in Out /\ h[j] = k[j]
    BY <1>0, <1>2
  <2> QED BY <2>1, ConcatProperties DEF Out
<1>10. MeansAt(s, n, i, m(h), h) /\ MeansAt(s, n, i, m(k), k)
  BY MeaningCases
<1> SUFFICES m(h) \in Out /\ m(h) = m(k)
  OBVIOUS
<1> HIDE DEF m
<1>3. CASE i = n + 1
  BY <1>1, <1>3, <1>10 DEF MeansAt
<1>4. CASE i = n /\ s[i] = "esc"
  BY <1>1, <1>4, <1>10 DEF MeansAt
<1>5. CASE i <= n /\ s[i] # "esc"
  <2>1. <<<<s[i]>>>> \in Out
    BY <1>0, <1>5 DEF Out
  <2>2. i + 1 \in i + 1 .. n + 1
    BY <1>0, <1>5
  <2>3. m(h) = <<<<s[i]>>>> \o h[i + 1] /\ m(k) = <<<<s[i]>>>> \o k[i + 1]
    BY <1>5, <1>10 DEF MeansAt
  <2> QED BY <1>2, <2>1, <2>2, <2>3
<1>6. CASE i < n /\ s[i] = "esc" /\ s[i + 1] = "esc"
  <2>1. <<<<"esc">>>> \in Out
    BY DEF Out, Byte
  <2>2. i + 1 \in i + 1 .. n + 1
    BY <1>0, <1>6
  <2>3. m(h) = <<<<"esc">>>> \o h[i + 1] /\ m(k) = <<<<"esc">>>> \o k[i + 1]
    BY <1>6, <1>10 DEF MeansAt
  <2> QED BY <1>2, <2>1, <2>2, <2>3
<1>7. CASE i < n /\ s[i] = "esc" /\ s[i + 1] \notin {"esc", "_"}
  <2> DEFINE x == <<<<"esc">>, <<s[i + 1]>>>>
  <2>0. i < n
    BY <1>7
  <2>1. x \in Out
    <3>1. s[i + 1] \in Byte
      BY <1>0, <2>0
    <3>2. <<"esc">> \in Seq(Byte)
      BY DEF Byte
    <3>3. <<s[i + 1]>> \in Seq(Byte)
      BY <3>1
    <3> QED BY <3>2, <3>3 DEF Out
  <2>2. i + 2 \in i + 1 .. n + 1
    BY <1>0, <2>0
  <2>3. m(h) = x \o h[i + 2] /\ m(k) = x \o k[i + 2]
    BY <1>7, <1>10 DEF MeansAt
  <2> HIDE DEF x
  <2> QED BY <1>2, <2>1, <2>2, <2>3
<1>8. CASE i < n /\ s[i] = "esc" /\ s[i + 1] = "_" /\ Open(s, i, n)
  BY <1>1, <1>8, <1>10 DEF MeansAt
<1>9. CASE i < n /\ s[i] = "esc" /\ s[i + 1] = "_" /\ ~Open(s, i, n)
  <2>0. i < n
    BY <1>9
  <2>01. i \in Nat /\ n \in Nat
    BY <1>0
  <2>1. PICK e \in i + 2 .. n : Closes(s, i, e) /\ Open(s, i, e - 1)
    BY <1>9, <2>01, FirstClose
  <2> DEFINE b == IF s[e] = "\\" THEN e - 2 ELSE e - 1
             x == Decoded(SubSeq(s, i + 2, b))
  <2>2. x \in Out
    <3>1. i + 2 \in 1 .. Len(s) + 1 /\ b \in Nat /\ b <= Len(s)
      <4>1. e - 2 \in Nat /\ e - 1 \in Nat /\ e - 2 <= n /\ e - 1 <= n
        BY <2>01
      <4> QED BY <2>0, <2>01, <4>1
    <3>2. SubSeq(s, i + 2, b) \in Seq(Byte)
      <4> HIDE DEF b
      <4> QED BY <3>1, Part
    <3> QED BY <3>2, DecodedIn
  <2>3. e + 1 \in i + 1 .. n + 1
    BY <1>0
  <2>4. m(h) = x \o h[e + 1] /\ m(k) = x \o k[e + 1]
    BY <1>9, <1>10, <2>1 DEF MeansAt
  <2> HIDE DEF x
  <2> QED BY <1>2, <2>2, <2>3, <2>4
<1>11. i = n + 1 \/ i = n \/ i < n
  BY <1>0
<1>12. CASE i < n /\ s[i] = "esc"
  BY <1>6, <1>7, <1>8, <1>9, <1>12, Zenon
<1>13. i < n => i <= n
  BY <1>0
<1>14. CASE i < n
  BY <1>5, <1>12, <1>13, <1>14, Zenon
<1>15. CASE i = n
  <2>1. i <= n
    BY <1>0, <1>15
  <2> QED BY <1>4, <1>5, <1>15, <2>1, Zenon
<1> QED BY <1>3, <1>11, <1>14, <1>15, Zenon

\* f says of every place of s what the rest from there means
Means(f, s) == /\ f \in [1 .. Len(s) + 1 -> Out]
               /\ \A i \in 1 .. Len(s) + 1 : f[i] = MeaningFrom(s, i, f)

\* Meaning is what is said of the first place.  (A recursive function that refers
\* to later places: it exists because each is settled by those behind it.)
LEMMA MeaningIs ==
  ASSUME NEW s \in Seq(Byte)
  PROVE  \E f : Means(f, s) /\ Meaning(s) = f[1]
<1> DEFINE n == Len(s) + 1
           X == [1 .. n -> Out]
           Eq(f) == f = [i \in 1 .. Len(s) + 1 |-> MeaningFrom(s, i, f)]
           F == CHOOSE f : Eq(f)
           g == [p \in X \X (1 .. n) |-> MeaningFrom(s, p[2], p[1])]
<1>1. n \in Nat
  OBVIOUS
<1>2. \A h \in X, i \in 1 .. n : g[<<h, i>>] = MeaningFrom(s, i, h)
  <2> TAKE h \in X, i \in 1 .. n
  <2>1. <<h, i>> \in X \X (1 .. n)
    OBVIOUS
  <2> QED BY <2>1
<1> HIDE DEF g
<1>3. DescendsIn(g, Out, n)
  <2>1. ASSUME NEW h \in X, NEW i \in 1 .. n PROVE g[<<h, i>>] \in Out
    <3>1. \A j \in i + 1 .. n : h[j] \in Out /\ h[j] = h[j]
      BY <1>1
    <3> HIDE DEF X
    <3> QED BY <1>2, <3>1, MeaningLocal
  <2>2. ASSUME NEW h \in X, NEW k \in X, NEW i \in 1 .. n,
               \A j \in i + 1 .. n : h[j] = k[j]
        PROVE  g[<<h, i>>] = g[<<k, i>>]
    <3>1. \A j \in i + 1 .. n : h[j] \in Out /\ h[j] = k[j]
      BY <1>1, <2>2
    <3> HIDE DEF X
    <3> QED BY ZenonT(30), <1>2, <3>1, MeaningLocal
  <2> QED BY <2>1, <2>2 DEF DescendsIn
<1>4. PICK f \in X : \A i \in 1 .. n : f[i] = g[<<f, i>>]
  <2>1. <<>> \in Out
    BY DEF Out
  <2> HIDE DEF n
  <2> QED BY <1>1, <1>3, <2>1, Descends
<1>5. \A i \in 1 .. n : f[i] = MeaningFrom(s, i, f)
  BY <1>2, <1>4
<1>6. Eq(f)
  <2>1. DOMAIN f = 1 .. n /\ f = [i \in DOMAIN f |-> f[i]]
    BY <1>4
  <2> QED BY <1>5, <2>1
<1>7. Meaning(s) = F[1]
  BY ZenonT(60) DEF Meaning
<1>8. Eq(F)
  <2> HIDE DEF Eq
  <2> QED BY <1>6
<1> HIDE DEF F
<1>9. F = [i \in 1 .. n |-> F[i]] /\ \A i \in 1 .. n : F[i] = MeaningFrom(s, i, F)
  BY <1>8
<1>10. \A k \in Nat : k <= n => \A j \in n - k + 1 .. n : F[j] = f[j]
  <2> DEFINE S == {k \in Nat : k <= n => \A j \in n - k + 1 .. n : F[j] = f[j]}
  <2>1. 0 \in S
    BY <1>1
  <2>2. ASSUME NEW k \in Nat, k \in S PROVE k + 1 \in S
    <3> SUFFICES ASSUME k + 1 <= n, NEW j \in n - (k + 1) + 1 .. n PROVE F[j] = f[j]
      OBVIOUS
    <3>1. \A i \in n - k + 1 .. n : F[i] = f[i]
      BY <1>1, <2>2
    <3>2. j \in 1 .. n /\ j + 1 >= n - k + 1
      BY <1>1
    <3>3. \A i \in j + 1 .. n : i \in n - k + 1 .. n /\ i \in 1 .. n
      BY <1>1, <3>2
    <3>4. \A i \in j + 1 .. n : f[i] \in Out /\ f[i] = F[i]
      BY <1>4, <3>1, <3>3
    <3>5. MeaningFrom(s, j, f) = MeaningFrom(s, j, F)
      BY <3>2, <3>4, MeaningLocal
    <3> QED BY <1>5, <1>9, <3>2, <3>5
  <2> HIDE DEF S
  <2>3. Nat \subseteq S
    BY <2>1, <2>2, SetInduction
  <2> QED BY <2>3 DEF S
<1>11. \A i \in 1 .. n : F[i] = f[i]
  <2>1. n - n + 1 = 1
    BY <1>1
  <2> QED BY <1>1, <1>10, <2>1
<1>12. Means(F, s)
  BY <1>4, <1>9, <1>11 DEF Means
<1> QED BY <1>7, <1>12

\* f says of the places of s what its first n bytes mean from there
MeansTo(f, s, n) == Means(f, SubSeq(s, 1, n))

\* What the first n bytes of s mean can be read in s itself.
LEMMA PrefixMeans ==
  ASSUME NEW s \in Seq(Byte), NEW n \in Nat, n <= Len(s), NEW f, MeansTo(f, s, n),
         NEW i \in 1 .. n + 1
  PROVE  f[i] \in Out /\ MeansAt(s, n, i, f[i], f)
<1> DEFINE p == SubSeq(s, 1, n)
<1>1. /\ p \in Seq(Byte) /\ Len(p) = n
      /\ \A k \in 1 .. n : p[k] = s[k]
  <2>1. 1 \in 1 .. Len(s) + 1 /\ n - 1 + 1 = n /\ (1 <= n \/ n = 0)
    OBVIOUS
  <2>2. /\ p \in Seq(Byte)
        /\ Len(p) = IF 1 <= n THEN n - 1 + 1 ELSE 0
        /\ \A k \in 1 .. n - 1 + 1 : p[k] = s[1 + k - 1]
    BY <2>1, Part
  <2>3. \A k \in 1 .. n : 1 + k - 1 = k
    OBVIOUS
  <2> QED BY <2>1, <2>2, <2>3
<1>2. Means(f, p)
  BY DEF MeansTo
<1>0. \A a, b \in Nat : 1 <= a /\ b <= n /\ a <= n + 1 => SubSeq(p, a, b) = SubSeq(s, a, b)
  <2> TAKE a, b \in Nat
  <2> HAVE 1 <= a /\ b <= n /\ a <= n + 1
  <2>1. 1 \in 1 .. Len(s) + 1 /\ a \in Nat \ {0} /\ 1 + b <= n + 1 /\ 1 + a <= n + 2
    OBVIOUS
  <2>2. SubSeq(p, a, b) = SubSeq(s, 1 + a - 1, 1 + b - 1)
    BY <2>1, PartOfPart
  <2>3. 1 + a - 1 = a /\ 1 + b - 1 = b
    OBVIOUS
  <2> QED BY <2>2, <2>3
<1> HIDE DEF p
<1>3. f[i] \in Out /\ f[i] = MeaningFrom(p, i, f)
  BY <1>1, <1>2 DEF Means
<1>4. MeansAt(p, n, i, f[i], f)
  <2>1. i \in 1 .. Len(p) + 1
    BY <1>1
  <2> QED BY <1>1, <1>3, <2>1, MeaningCases
<1>5. \A k \in Nat : 1 <= k /\ k <= n => p[k] = s[k]
  BY <1>1
<1>50. i \in Nat /\ n \in Nat /\ 1 <= i /\ i <= n + 1 /\ i + 1 \in Nat
  OBVIOUS
<1>51. i <= n => p[i] = s[i]
  BY <1>5, <1>50
<1>52. i < n => p[i + 1] = s[i + 1]
  BY <1>5, <1>50
<1>53. i < n => i <= n
  BY <1>50
<1>54. i = n => i <= n
  BY <1>50
<1>6. \A e \in i + 2 .. n : Closes(p, i, e) <=> Closes(s, i, e)
  <2> TAKE e \in i + 2 .. n
  <2>1. e \in Nat /\ e - 1 \in Nat /\ 1 <= e /\ e <= n /\ e - 1 <= n /\ 1 <= e - 1
    BY <1>50
  <2>2. p[e] = s[e] /\ p[e - 1] = s[e - 1]
    BY <1>5, <2>1
  <2> QED BY <2>2 DEF Closes
<1>7. \A m \in Nat : m <= n => (Open(p, i, m) <=> Open(s, i, m))
  <2> TAKE m \in Nat
  <2> HAVE m <= n
  <2>1. \A e \in i + 2 .. m : e \in i + 2 .. n
    BY <1>50
  <2> QED BY <1>6, <2>1 DEF Open
<1>70. \A e \in i + 2 .. n :
         /\ e \in Nat /\ e - 1 \in Nat /\ e - 2 \in Nat /\ 1 <= e /\ e <= n /\ e - 1 <= n /\ e - 2 <= n
         /\ i < n /\ i + 2 \in Nat /\ 1 <= i + 2 /\ i + 2 <= n + 1
  BY <1>50
<1>8. \A e \in i + 2 .. n :
        s[i] = "esc" /\ s[i + 1] = "_" /\ Closes(s, i, e) /\ Open(s, i, e - 1) =>
          f[i] = Decoded(SubSeq(s, i + 2, IF s[e] = "\\" THEN e - 2 ELSE e - 1)) \o f[e + 1]
  <2> SUFFICES ASSUME NEW e \in i + 2 .. n, s[i] = "esc", s[i + 1] = "_", Closes(s, i, e),
                      Open(s, i, e - 1)
               PROVE f[i] = Decoded(SubSeq(s, i + 2, IF s[e] = "\\" THEN e - 2 ELSE e - 1)) \o f[e + 1]
    OBVIOUS
  <2>1. /\ e \in Nat /\ e - 1 \in Nat /\ e - 2 \in Nat /\ 1 <= e /\ e <= n /\ e - 1 <= n /\ e - 2 <= n
        /\ i < n /\ i + 2 \in Nat /\ 1 <= i + 2 /\ i + 2 <= n + 1
    BY <1>70
  <2>2. p[i] = "esc" /\ p[i + 1] = "_" /\ p[e] = s[e]
    BY <1>5, <1>51, <1>52, <1>53, <2>1
  <2>3. Closes(p, i, e) /\ Open(p, i, e - 1)
    BY <1>6, <1>7, <2>1
  <2>4. f[i] = Decoded(SubSeq(p, i + 2, IF p[e] = "\\" THEN e - 2 ELSE e - 1)) \o f[e + 1]
    BY <1>4, <2>2, <2>3 DEF MeansAt
  <2>5. SubSeq(p, i + 2, IF p[e] = "\\" THEN e - 2 ELSE e - 1)
          = SubSeq(s, i + 2, IF s[e] = "\\" THEN e - 2 ELSE e - 1)
    BY <1>0, <2>1, <2>2
  <2> QED BY <2>4, <2>5
<1>9. Open(p, i, n) <=> Open(s, i, n)
  BY <1>7, <1>50
<1>10. i = n + 1 => f[i] = <<>>
  BY <1>4 DEF MeansAt
<1>11. i = n /\ s[i] = "esc" => f[i] = <<>>
  BY <1>4, <1>51, <1>54 DEF MeansAt
<1>12. i <= n /\ s[i] # "esc" => f[i] = <<<<s[i]>>>> \o f[i + 1]
  BY <1>4, <1>51 DEF MeansAt
<1>13. i < n /\ s[i] = "esc" /\ s[i + 1] = "esc" => f[i] = <<<<"esc">>>> \o f[i + 1]
  BY <1>4, <1>51, <1>52, <1>53 DEF MeansAt
<1>14. i < n /\ s[i] = "esc" /\ s[i + 1] \notin {"esc", "_"} =>
         f[i] = <<<<"esc">>, <<s[i + 1]>>>> \o f[i + 2]
  BY <1>4, <1>51, <1>52, <1>53 DEF MeansAt
<1>15. i < n /\ s[i] = "esc" /\ s[i + 1] = "_" /\ Open(s, i, n) => f[i] = <<>>
  BY <1>4, <1>9, <1>51, <1>52, <1>53 DEF MeansAt
<1> QED BY <1>3, <1>8, <1>10, <1>11, <1>12, <1>13, <1>14, <1>15 DEF MeansAt

-----------------------------------------------------------------------------
(* The terminal, one byte after the other.                                 *)

\* what the parser makes of a batch: every byte once
Singles(q) == [i \in 1 .. Len(q) |-> <<q[i]>>]

\* A batch, byte by byte.
LEMMA SinglesIs ==
  ASSUME NEW q \in Seq(Byte)
  PROVE  /\ Singles(q) \in Out
         /\ Singles(<<>>) = <<>>
         /\ \A b \in Byte : Singles(Append(q, b)) = Singles(q) \o <<<<b>>>>
<1>1. ASSUME NEW r \in Seq(Byte)
      PROVE Singles(r) \in Out /\ Len(Singles(r)) = Len(r) /\ \A i \in 1 .. Len(r) : Singles(r)[i] = <<r[i]>>
  <2>1. \A i \in 1 .. Len(r) : <<r[i]>> \in Seq(Byte)
    <3> TAKE i \in 1 .. Len(r)
    <3>1. r[i] \in Byte
      BY ElementOfSeq
    <3> QED BY <3>1
  <2>2. Len(r) \in Nat
    OBVIOUS
  <2> QED BY <2>1, <2>2, IsASeq DEF Singles, Out
<1>2. Singles(<<>>) = <<>>
  <2>1. <<>> \in Seq(Byte) /\ Len(<<>>) = 0
    BY EmptySeq
  <2>2. Singles(<<>>) \in Seq(Seq(Byte)) /\ Len(Singles(<<>>)) = 0
    BY <1>1, <2>1 DEF Out
  <2> QED BY <2>2, EmptySeq
<1>3. ASSUME NEW b \in Byte PROVE Singles(Append(q, b)) = Singles(q) \o <<<<b>>>>
  <2> DEFINE r == Append(q, b)
             u == Singles(r)
             one == <<<<b>>>>
             v == Singles(q) \o one
  <2>1. /\ r \in Seq(Byte) /\ Len(r) = Len(q) + 1 /\ Len(q) \in Nat
        /\ \A i \in 1 .. Len(q) : r[i] = q[i]
        /\ r[Len(q) + 1] = b
    BY AppendProperties
  <2>2. one \in Out /\ Len(one) = 1 /\ one[1] = <<b>>
    BY DEF Out
  <2> HIDE DEF r, one
  <2>3. u \in Out /\ Len(u) = Len(r) /\ \A i \in 1 .. Len(r) : u[i] = <<r[i]>>
    BY <1>1, <2>1
  <2>4. Singles(q) \in Out /\ Len(Singles(q)) = Len(q) /\ \A i \in 1 .. Len(q) : Singles(q)[i] = <<q[i]>>
    BY <1>1
  <2>5. /\ v \in Out /\ Len(v) = Len(q) + 1
        /\ \A i \in 1 .. Len(q) + 1 : v[i] = IF i <= Len(q) THEN Singles(q)[i] ELSE one[i - Len(q)]
    <3>1. Singles(q) \in Seq(Seq(Byte)) /\ one \in Seq(Seq(Byte))
      BY <2>2, <2>4 DEF Out
    <3>2. /\ v \in Seq(Seq(Byte)) /\ Len(v) = Len(Singles(q)) + Len(one)
          /\ \A i \in 1 .. Len(Singles(q)) + Len(one) :
               v[i] = IF i <= Len(Singles(q)) THEN Singles(q)[i] ELSE one[i - Len(Singles(q))]
      BY <3>1, ConcatProperties
    <3>3. v \in Out
      BY <3>2 DEF Out
    <3> HIDE DEF v
    <3> QED BY <2>2, <2>4, <3>2, <3>3
  <2> HIDE DEF u, v
  <2>6. ASSUME NEW i \in 1 .. Len(u) PROVE u[i] = v[i]
    <3>1. i \in 1 .. Len(q) + 1
      BY <2>1, <2>3
    <3>2. CASE i <= Len(q)
      <4>1. i \in 1 .. Len(q)
        BY <3>1, <3>2
      <4>2. u[i] = <<r[i]>> /\ r[i] = q[i] /\ Singles(q)[i] = <<q[i]>> /\ v[i] = Singles(q)[i]
        BY <2>1, <2>3, <2>4, <2>5, <3>1, <3>2, <4>1
      <4> QED BY <4>2
    <3>3. CASE i = Len(q) + 1
      <4>1. ~(i <= Len(q)) /\ i - Len(q) = 1
        BY <2>1, <3>3
      <4>2. v[i] = one[1]
        BY <2>5, <3>1, <4>1
      <4>3. u[i] = <<b>>
        BY <2>1, <2>3, <3>3
      <4> QED BY <2>2, <4>2, <4>3
    <3> QED BY <2>1, <3>1, <3>2, <3>3
  <2>7. u = v
    <3>1. u \in Out /\ v \in Out /\ Len(u) = Len(v)
      BY <2>1, <2>3, <2>5
    <3>2. u \in Seq(Seq(Byte)) /\ v \in Seq(Seq(Byte))
      BY <3>1 DEF Out
    <3> QED BY <2>6, <3>1, <3>2, SeqEqual
  <2> QED BY <2>7 DEF u, v, r, one
<1> QED BY <1>1, <1>2, <1>3

\* A part that is one place longer.
LEMMA PartGrows ==
  ASSUME NEW S, NEW s \in Seq(S), NEW a \in Nat \ {0}, NEW i \in Nat, a <= i + 1, i + 1 <= Len(s)
  PROVE  SubSeq(s, a, i + 1) = Append(SubSeq(s, a, i), s[i + 1])
<1> DEFINE u == SubSeq(s, a, i + 1)
           p == SubSeq(s, a, i)
           v == Append(p, s[i + 1])
<1>0. a \in 1 .. Len(s) + 1 /\ i + 1 \in Nat /\ i <= Len(s) /\ Len(s) \in Nat
  OBVIOUS
<1>1. /\ u \in Seq(S) /\ Len(u) = i + 1 - a + 1
      /\ \A k \in 1 .. i + 1 - a + 1 : u[k] = s[a + k - 1]
  BY <1>0, Part
<1>2. /\ p \in Seq(S) /\ Len(p) = i - a + 1
      /\ \A k \in 1 .. i - a + 1 : p[k] = s[a + k - 1]
  <2>1. /\ p \in Seq(S) /\ Len(p) = IF a <= i THEN i - a + 1 ELSE 0
        /\ \A k \in 1 .. i - a + 1 : p[k] = s[a + k - 1]
    BY <1>0, Part
  <2>2. (IF a <= i THEN i - a + 1 ELSE 0) = i - a + 1
    BY <1>0
  <2> QED BY <2>1, <2>2
<1> HIDE DEF p
<1>3. s[i + 1] \in S
  BY <1>0, ElementOfSeq
<1> DEFINE x == s[i + 1]
<1> HIDE DEF x
<1>30. x \in S
  BY <1>3 DEF x
<1>4. /\ Append(p, x) \in Seq(S) /\ Len(Append(p, x)) = Len(p) + 1
      /\ \A k \in 1 .. Len(p) : Append(p, x)[k] = p[k]
      /\ Append(p, x)[Len(p) + 1] = x
  <2>1. p \in Seq(S) /\ x \in S
    BY <1>2, <1>30
  <2> QED BY <2>1, AppendProperties
<1>40. v = Append(p, x) /\ x = s[i + 1]
  BY DEF x
<1>41. /\ v \in Seq(S) /\ Len(v) = Len(p) + 1
       /\ \A k \in 1 .. Len(p) : v[k] = p[k]
       /\ v[Len(p) + 1] = s[i + 1]
  <2> HIDE DEF v
  <2> QED BY <1>4, <1>40
<1> HIDE DEF u, v
<1>5. ASSUME NEW k \in 1 .. Len(u) PROVE u[k] = v[k]
  <2>1. k \in 1 .. i + 1 - a + 1
    BY <1>1
  <2>2. u[k] = s[a + k - 1]
    BY <1>1, <2>1
  <2>3. CASE k = i - a + 2
    <3>1. a + k - 1 = i + 1 /\ k = Len(p) + 1
      BY <1>0, <1>2, <2>3
    <3>2. v[k] = s[i + 1]
      BY <1>41, <3>1
    <3> QED BY <2>2, <3>1, <3>2
  <2>4. CASE k # i - a + 2
    <3>1. k \in 1 .. i - a + 1 /\ k \in 1 .. Len(p)
      BY <1>0, <1>2, <2>1, <2>4
    <3>2. p[k] = s[a + k - 1]
      BY <1>2, <3>1
    <3>3. v[k] = p[k]
      BY <1>41, <3>1
    <3> QED BY <2>2, <3>2, <3>3
  <2> QED BY <2>3, <2>4, Zenon
<1>6. Len(u) = Len(v)
  BY <1>0, <1>1, <1>2, <1>41
<1>7. u = v
  BY <1>1, <1>41, <1>5, <1>6, SeqEqual
<1> QED BY <1>7 DEF u, v, p

\* the terminals, with a log that is output
Terms ==
  [utf8_pending : Seq(Byte), apc_state : {"Normal", "Esc", "Apc", "ApcEsc"},
   is_kitty : BOOLEAN, seen_first : BOOLEAN, apc_accum : Seq(Byte),
   passthrough : Seq(Byte), vteEsc : BOOLEAN, sync_output : BOOLEAN,
   replies : Nat, log : Out, split : BOOLEAN]

\* u differs from t in what the parser does only
SameFilter(t, u) ==
  /\ u.utf8_pending = t.utf8_pending /\ u.apc_state = t.apc_state
  /\ u.is_kitty = t.is_kitty /\ u.seen_first = t.seen_first
  /\ u.apc_accum = t.apc_accum

\* One element more.
LEMMA AppendIn ==
  ASSUME NEW S, NEW q \in Seq(S), NEW x \in S
  PROVE  Append(q, x) \in Seq(S) /\ Append(q, x) = q \o <<x>>
  OBVIOUS

\* The parser takes a byte: the log has it, the filter is as before.
LEMMA ParserTakes ==
  ASSUME NEW t \in Terms, NEW b \in Byte
  PROVE  /\ ParserByte(t, b) \in Terms
         /\ ParserByte(t, b).log = t.log \o <<<<b>>>>
         /\ SameFilter(t, ParserByte(t, b))
         /\ ParserByte(t, b).passthrough = t.passthrough
         /\ ParserByte(t, b).split = t.split
<1> DEFINE l == Append(t.log, <<b>>)
           e == (b = "esc")
           u == [t EXCEPT !.log = l, !.vteEsc = e]
           Logged(v) == /\ v \in Terms /\ v.log = l /\ SameFilter(t, v)
                        /\ v.passthrough = t.passthrough /\ v.split = t.split
<1>1. t.log \in Out /\ <<b>> \in Seq(Byte)
  BY DEF Terms
<1>2. l \in Out /\ l = t.log \o <<<<b>>>>
  BY <1>1, AppendIn DEF Out
<1>3. e \in BOOLEAN
  OBVIOUS
<1>4. ParserByte(t, b) =
        CASE t.vteEsc /\ b = "S" -> [u EXCEPT !.sync_output = TRUE]
          [] t.vteEsc /\ b = "s" -> [u EXCEPT !.sync_output = FALSE]
          [] t.vteEsc /\ b = "?" -> push_pty_response(u)
          [] OTHER -> u
  BY DEF ParserByte
<1> HIDE DEF l, e
<1>5. Logged(u)
  BY <1>2, <1>3 DEF Terms, SameFilter
<1>6. Logged([u EXCEPT !.sync_output = TRUE]) /\ Logged([u EXCEPT !.sync_output = FALSE])
  BY <1>2, <1>3 DEF Terms, SameFilter
<1>7. Logged(push_pty_response(u))
  <2>1. u.replies \in Nat
    BY <1>5 DEF Terms
  <2>3. ASSUME NEW k \in Nat PROVE Logged([u EXCEPT !.replies = k])
    BY <1>2, <1>3 DEF Terms, SameFilter
  <2>4. u.replies + 1 \in Nat
    BY <2>1
  <2>2. Logged([u EXCEPT !.replies = @ + 1])
    <3> HIDE DEF Logged, u
    <3> QED BY <2>3, <2>4
  <2> HIDE DEF Logged, u
  <2> QED BY <1>5, <2>2 DEF push_pty_response
<1> HIDE DEF u
<1>8. \/ ParserByte(t, b) = [u EXCEPT !.sync_output = TRUE]
      \/ ParserByte(t, b) = [u EXCEPT !.sync_output = FALSE]
      \/ ParserByte(t, b) = push_pty_response(u)
      \/ ParserByte(t, b) = u
  BY <1>4
<1>9. Logged(ParserByte(t, b))
  <2> HIDE DEF Logged
  <2> QED BY <1>5, <1>6, <1>7, <1>8
<1> QED BY <1>2, <1>9

\* Outputs can be joined,
LEMMA Joined ==
  ASSUME NEW x \in Out, NEW y \in Out
  PROVE  x \o y \in Out
<1>1. x \in Seq(Seq(Byte)) /\ y \in Seq(Seq(Byte))
  BY DEF Out
<1> QED BY <1>1, ConcatProperties DEF Out

\* in any grouping,
LEMMA JoinedAnyway ==
  ASSUME NEW x \in Out, NEW y \in Out, NEW z \in Out
  PROVE  (x \o y) \o z = x \o (y \o z)
<1>1. x \in Seq(Seq(Byte)) /\ y \in Seq(Seq(Byte)) /\ z \in Seq(Seq(Byte))
  BY DEF Out
<1> QED BY SMTT(30), <1>1, ConcatAssociative

\* and nothing adds nothing.
LEMMA JoinedNothing ==
  ASSUME NEW x \in Out
  PROVE  x \o <<>> = x
<1>1. x \in Seq(Seq(Byte))
  BY DEF Out
<1> QED BY <1>1, ConcatEmptySeq

\* one call of the parser
LEMMA FlushIs ==
  ASSUME NEW t \in Terms
  PROVE  /\ Flushed(t) \in Terms
         /\ Flushed(t).log = t.log \o Singles(t.passthrough)
         /\ SameFilter(t, Flushed(t))
         /\ Flushed(t).passthrough = <<>>
         /\ Flushed(t).split <=> t.split \/ EndsInside(t.passthrough)
<1> DEFINE q == t.passthrough
           X == Terms
           next(x, i) == ParserByte(x, q[i])
           Eq(f) == f = [i \in 0 .. Len(q) |->
                           IF i = 0 THEN t ELSE ValueOf({ParserByte(u, q[i]) : u \in {f[i - 1]}})]
           F == CHOOSE f : Eq(f)
           g == [p \in X \X Nat |-> IF p[2] \in DOMAIN q THEN next(p[1], p[2]) ELSE p[1]]
<1>0. q \in Seq(Byte)
  BY DEF Terms
<1>1. Len(q) \in Nat /\ DOMAIN q = 1 .. Len(q) /\ \A i \in 1 .. Len(q) : q[i] \in Byte
  BY <1>0, ElementOfSeq
<1> HIDE DEF q
<1>2. ASSUME NEW x \in X, NEW i \in DOMAIN q PROVE next(x, i) \in X
  <2>1. q[i] \in Byte
    BY <1>1
  <2> QED BY <2>1, ParserTakes
<1>3. ASSUME NEW x \in X, NEW i \in Nat
      PROVE  /\ g[<<x, i>>] \in X
             /\ i \in DOMAIN q => g[<<x, i>>] = next(x, i)
  <2>1. <<x, i>> \in X \X Nat
    OBVIOUS
  <2>2. g[<<x, i>>] = IF i \in DOMAIN q THEN next(x, i) ELSE x
    BY <2>1
  <2> HIDE DEF g, next, X
  <2> QED BY <1>2, <2>2
<1> HIDE DEF g
<1>4. PICK f \in [0 .. Len(q) -> X] : Iterate(f, t, g, Len(q))
  <2>1. t \in X /\ StaysIn(g, X)
    BY <1>3 DEF StaysIn
  <2> HIDE DEF X
  <2> QED BY <1>1, <2>1, Iterates
<1>5. f[0] = t /\ \A i \in 1 .. Len(q) : f[i] = next(f[i - 1], i)
  <2>1. \A i \in 1 .. Len(q) : f[i - 1] \in X /\ i \in DOMAIN q /\ i \in Nat
    BY <1>1, <1>4
  <2> HIDE DEF next, X
  <2> QED BY <1>3, <1>4, <2>1 DEF Iterate
<1>50. \A u, i : ValueOf({ParserByte(v, q[i]) : v \in {u}}) = next(u, i)
  BY DEF ValueOf
<1>6. Eq(f)
  <2>1. ASSUME NEW i \in 0 .. Len(q)
        PROVE  f[i] = IF i = 0 THEN t ELSE ValueOf({ParserByte(u, q[i]) : u \in {f[i - 1]}})
    <3>1. CASE i = 0
      BY <1>5, <3>1
    <3>2. CASE i # 0
      <4>1. i \in 1 .. Len(q)
        BY <1>1, <3>2
      <4> HIDE DEF next
      <4> QED BY <1>5, <1>50, <3>2, <4>1
    <3> QED BY <3>1, <3>2
  <2>2. DOMAIN f = 0 .. Len(q) /\ f = [i \in DOMAIN f |-> f[i]]
    BY <1>4
  <2> QED BY <2>1, <2>2
<1>7. OnEach(ParserByte, t, q) = F[Len(q)]
  BY ZenonT(60) DEF OnEach
<1>8. Eq(F)
  <2> HIDE DEF Eq
  <2> QED BY <1>6
<1> HIDE DEF F
<1>9. \A i \in 0 .. Len(q) : F[i] = IF i = 0 THEN t ELSE next(F[i - 1], i)
  <2>1. \A i \in 0 .. Len(q) :
          F[i] = IF i = 0 THEN t ELSE ValueOf({ParserByte(u, q[i]) : u \in {F[i - 1]}})
    BY <1>8
  <2> HIDE DEF next
  <2> QED BY <1>50, <2>1
<1> DEFINE Done(i) == /\ F[i] \in Terms
                      /\ F[i].log = t.log \o Singles(SubSeq(q, 1, i))
                      /\ SameFilter(t, F[i]) /\ F[i].split = t.split
           S == {i \in Nat : i <= Len(q) => Done(i)}
<1>10. 0 \in S
  <2>1. F[0] = t
    BY <1>1, <1>9
  <2>2. SubSeq(q, 1, 0) = <<>>
    <3>1. 1 \in 1 .. Len(q) + 1 /\ 0 \in Nat /\ 0 <= Len(q) /\ ~(1 <= 0)
      BY <1>1
    <3>2. SubSeq(q, 1, 0) \in Seq(Byte) /\ Len(SubSeq(q, 1, 0)) = IF 1 <= 0 THEN 0 - 1 + 1 ELSE 0
      BY <1>0, <3>1, Part
    <3> QED BY <3>1, <3>2, EmptySeq
  <2>3. Singles(<<>>) = <<>>
    BY <1>0, SinglesIs
  <2>4. t.log \o <<>> = t.log
    <3>1. t.log \in Seq(Seq(Byte))
      BY DEF Terms, Out
    <3> QED BY <3>1, ConcatEmptySeq
  <2>5. Done(0)
    BY <2>1, <2>2, <2>3, <2>4 DEF SameFilter
  <2> QED BY <2>5
<1>11. ASSUME NEW i \in Nat, i \in S PROVE i + 1 \in S
  <2> SUFFICES ASSUME i + 1 <= Len(q) PROVE Done(i + 1)
    OBVIOUS
  <2>0. i <= Len(q) /\ i + 1 \in 1 .. Len(q) /\ i + 1 \in 0 .. Len(q) /\ i + 1 # 0 /\ (i + 1) - 1 = i
    BY <1>1
  <2>10. Done(i)
    <3> HIDE DEF Done
    <3> QED BY <1>11, <2>0
  <2>1. Done(i) /\ i + 1 \in 1 .. Len(q) /\ i + 1 \in 0 .. Len(q) /\ i + 1 # 0 /\ (i + 1) - 1 = i
    BY <2>0, <2>10
  <2> DEFINE b == q[i + 1]
             p == SubSeq(q, 1, i)
  <2>2. F[i + 1] = ParserByte(F[i], b) /\ b \in Byte
    BY <1>1, <1>9, <2>1
  <2>3. p \in Seq(Byte)
    <3>1. 1 \in 1 .. Len(q) + 1 /\ i <= Len(q)
      BY <1>1
    <3> QED BY <1>0, <3>1, Part
  <2>4. SubSeq(q, 1, i + 1) = Append(p, b)
    <3>1. 1 \in Nat \ {0} /\ 1 <= i + 1
      OBVIOUS
    <3> QED BY <1>0, <3>1, PartGrows
  <2> HIDE DEF p, b
  <2>5. Singles(SubSeq(q, 1, i + 1)) = Singles(p) \o <<<<b>>>>
    BY <2>2, <2>3, <2>4, SinglesIs
  <2>6. /\ F[i + 1] \in Terms /\ F[i + 1].log = F[i].log \o <<<<b>>>>
        /\ SameFilter(F[i], F[i + 1]) /\ F[i + 1].split = F[i].split
    BY ZenonT(30), <2>1, <2>2, ParserTakes
  <2>7. F[i].log = t.log \o Singles(p)
    BY <2>1 DEF p
  <2>8. (t.log \o Singles(p)) \o <<<<b>>>> = t.log \o (Singles(p) \o <<<<b>>>>)
    <3>1. t.log \in Out
      BY DEF Terms
    <3>2. Singles(p) \in Out
      BY <2>3, SinglesIs
    <3>3. <<<<b>>>> \in Out
      BY <2>2 DEF Out
    <3> DEFINE x == t.log
               y == Singles(p)
               z == <<<<b>>>>
    <3>4. x \in Out /\ y \in Out /\ z \in Out
      BY <3>1, <3>2, <3>3
    <3> HIDE DEF x, y, z
    <3>5. (x \o y) \o z = x \o (y \o z)
      BY <3>4, JoinedAnyway
    <3> QED BY <3>5, Zenon DEF x, y, z
  <2>9. SameFilter(t, F[i + 1]) /\ F[i + 1].split = t.split
    BY <2>1, <2>6 DEF SameFilter
  <2> QED BY <2>5, <2>6, <2>7, <2>8, <2>9
<1> HIDE DEF S
<1>120. Nat \subseteq S
  BY <1>10, <1>11, SetInduction
<1>12. Len(q) \in S
  BY <1>1, <1>120
<1>121. \A i \in S : i <= Len(q) => Done(i)
  <2> HIDE DEF Done
  <2> QED BY DEF S
<1>13. Done(Len(q))
  <2> HIDE DEF Done
  <2> QED BY <1>1, <1>12, <1>121
<1>14. SubSeq(q, 1, Len(q)) = q
  BY <1>0, SubSeqFull
<1> DEFINE e == EndsInside(q)
           v == F[Len(q)]
<1>15. Flushed(t) = [v EXCEPT !.passthrough = <<>>, !.split = @ \/ e]
  BY <1>7 DEF Flushed, q
<1>16. <<>> \in Seq(Byte)
  BY EmptySeq
<1>17. e \in BOOLEAN
  BY DEF EndsInside
<1>18. v \in Terms /\ v.log = t.log \o Singles(q) /\ SameFilter(t, v) /\ v.split = t.split
  BY <1>13, <1>14
<1> HIDE DEF e, v
<1>19. v.split \/ e \in BOOLEAN
  BY SMTT(30)
<1>20. \A k \in BOOLEAN : LET u == [v EXCEPT !.passthrough = <<>>, !.split = k] IN
         u \in Terms /\ u.log = v.log /\ SameFilter(v, u) /\ u.passthrough = <<>> /\ u.split = k
  BY <1>16, <1>18 DEF Terms, SameFilter
<1> DEFINE k == v.split \/ e
<1>26. v.split \in BOOLEAN
  BY <1>18 DEF Terms
<1>27. k \in BOOLEAN
  OBVIOUS
<1>21. Flushed(t) = [v EXCEPT !.passthrough = <<>>, !.split = k]
  BY <1>15, Zenon
<1>22. k <=> t.split \/ EndsInside(t.passthrough)
  BY <1>18 DEF e, q
<1> HIDE DEF k
<1>23. /\ Flushed(t) \in Terms /\ Flushed(t).log = v.log /\ SameFilter(v, Flushed(t))
       /\ Flushed(t).passthrough = <<>> /\ Flushed(t).split = k
  BY <1>20, <1>21, <1>27
<1>24. SameFilter(t, Flushed(t))
  BY <1>18, <1>23 DEF SameFilter
<1>25. Flushed(t).log = t.log \o Singles(t.passthrough)
  BY <1>18, <1>23 DEF q
<1> QED BY <1>22, <1>23, <1>24, <1>25

\* what has been handed on, and is about to be
Outcome(t) == t.log \o Singles(t.passthrough)

\* behind the first k bytes, what s means is in Outcome up to its place i
Goes(t, s, k, i) ==
  \A n \in Nat : \A f : k <= n /\ n <= Len(s) /\ MeansTo(f, s, n) => Outcome(t) \o f[i] = f[1]

\* the APC that began at i is Kitty's, as far as the first k bytes tell
Kitty(s, i, k) == k >= i + 2 /\ s[i + 2] = "G"

\* a codepoint that the batch ends in is one that the bytes end in
Dangling(t, s, k) ==
  \A i \in 1 .. Len(t.passthrough) :
    LET j == k - (Len(t.passthrough) - i) IN
    i + Needed(t.passthrough[i]) - 1 > Len(t.passthrough) =>
      t.apc_state = "Normal" /\ j >= 1 /\ s[j] = t.passthrough[i]

\* the filter is in an APC that began at i
ApcFrom(t, s, k, i) ==
  /\ i \in 1 .. k - 1 /\ s[i] = "esc" /\ s[i + 1] = "_" /\ Open(s, i, k) /\ Goes(t, s, k, i)
  /\ t.passthrough = <<>>
  /\ t.apc_accum = IF Kitty(s, i, k) THEN Capped(Body(SubSeq(s, i + 2, k))) ELSE <<>>
  /\ Kitty(s, i, k) => t.apc_accum # <<>> /\ Head(t.apc_accum) = "G"
  /\ t.apc_state = "Apc" => /\ t.seen_first <=> k > i + 1
                            /\ t.is_kitty <=> Kitty(s, i, k)
                            /\ k > i + 1 => s[k] # "esc"
  /\ t.apc_state = "ApcEsc" => k > i + 1 /\ s[k] = "esc"

\* the filter after the first k bytes of s
Good(t, s, k) ==
  /\ t \in Terms /\ ~t.split /\ Dangling(t, s, k)
  /\ t.apc_state = "Normal" => Goes(t, s, k, k + 1)
  /\ t.apc_state = "Esc" => k >= 1 /\ s[k] = "esc" /\ Goes(t, s, k, k)
  /\ t.apc_state \in {"Apc", "ApcEsc"} => \E i : ApcFrom(t, s, k, i)

\* What has been handed on and is about to be is output.
LEMMA OutcomeIn ==
  ASSUME NEW t \in Terms
  PROVE  Outcome(t) \in Out /\ (t.passthrough = <<>> => Outcome(t) = t.log)
<1>1. t.log \in Out /\ t.passthrough \in Seq(Byte)
  BY DEF Terms
<1>2. Singles(t.passthrough) \in Out /\ Singles(<<>>) = <<>>
  BY <1>1, SinglesIs
<1> QED BY <1>1, <1>2, Joined, JoinedNothing DEF Outcome

\* A byte that is only remembered: the outcome and its place stay.
LEMMA Stays ==
  ASSUME NEW t, NEW u, NEW s, NEW k \in Nat, NEW i, Goes(t, s, k, i), Outcome(u) = Outcome(t)
  PROVE  Goes(u, s, k + 1, i)
<1> SUFFICES ASSUME NEW n \in Nat, NEW f, k + 1 <= n, n <= Len(s), MeansTo(f, s, n)
             PROVE  Outcome(u) \o f[i] = f[1]
  BY DEF Goes
<1>1. k <= n
  OBVIOUS
<1> QED BY <1>1 DEF Goes

\* A byte, or several, whose meaning is settled: the outcome grows by it.
LEMMA Moves ==
  ASSUME NEW s \in Seq(Byte), NEW k \in Nat, NEW t \in Terms, NEW u, NEW i, NEW j, NEW x \in Out,
         Goes(t, s, k, i), Outcome(u) = Outcome(t) \o x,
         \A n \in Nat : \A f : k + 1 <= n /\ n <= Len(s) /\ MeansTo(f, s, n) =>
           j \in 1 .. n + 1 /\ f[i] = x \o f[j]
  PROVE  Goes(u, s, k + 1, j)
<1> SUFFICES ASSUME NEW n \in Nat, NEW f, k + 1 <= n, n <= Len(s), MeansTo(f, s, n)
             PROVE  Outcome(u) \o f[j] = f[1]
  BY DEF Goes
<1>1. k <= n
  OBVIOUS
<1>2. Outcome(t) \o f[i] = f[1]
  BY <1>1 DEF Goes
<1>3. j \in 1 .. n + 1 /\ f[i] = x \o f[j]
  OBVIOUS
<1>4. f[j] \in Out
  BY <1>3, PrefixMeans
<1>5. (Outcome(t) \o x) \o f[j] = Outcome(t) \o (x \o f[j])
  BY <1>4, OutcomeIn, JoinedAnyway
<1> QED BY <1>2, <1>3, <1>5

\* the batch gets one byte more
LEMMA Batched ==
  ASSUME NEW t \in Terms, NEW b \in Byte, NEW u \in Terms,
         u.log = t.log, u.passthrough = Append(t.passthrough, b)
  PROVE  Outcome(u) = Outcome(t) \o <<<<b>>>>
<1>1. t.log \in Out /\ t.passthrough \in Seq(Byte)
  BY DEF Terms
<1>2. Singles(u.passthrough) = Singles(t.passthrough) \o <<<<b>>>> /\ Singles(t.passthrough) \in Out
  BY <1>1, SinglesIs
<1>3. <<<<b>>>> \in Out
  BY DEF Out
<1> DEFINE x == t.log
           y == Singles(t.passthrough)
           z == <<<<b>>>>
<1>4. x \in Out /\ y \in Out /\ z \in Out
  BY <1>1, <1>2, <1>3
<1> HIDE DEF x, y, z
<1>5. (x \o y) \o z = x \o (y \o z)
  BY <1>4, JoinedAnyway
<1> QED BY <1>2, <1>5 DEF x, y, z, Outcome

\* Places of the batch and of the script, one byte later.
LEMMA Shift ==
  ASSUME NEW k \in Nat, NEW m \in Nat, NEW i \in 1 .. m, NEW w \in Nat
  PROVE  LET j == k - (m - i)
         IN  /\ (k + 1) - ((m + 1) - i) = j
             /\ j >= 1 => j \in Nat /\ j < k + 1
             /\ i + w - 1 > m => k + 1 < j + w
             /\ i + w - 1 > m + 1 => i + w - 1 > m
  OBVIOUS

\* A byte outside of any sequence: text, or an ESC that is remembered.
LEMMA NormalStep ==
  ASSUME NEW s \in Seq(Byte), Text(s), NEW k \in Nat, k < Len(s), NEW t, Good(t, s, k),
         t.apc_state = "Normal"
  PROVE  Good(FilterByte(t, s[k + 1]), s, k + 1)
<1> DEFINE b == s[k + 1]
           u == FilterByte(t, b)
           q == t.passthrough
           m == Len(q)
<1>1. t \in Terms /\ ~t.split /\ Dangling(t, s, k) /\ Goes(t, s, k, k + 1)
  BY DEF Good
<1>2. b \in Byte /\ k + 1 \in 1 .. Len(s) /\ Len(s) \in Nat
  BY ElementOfSeq
<1>3. u = IF b = "esc" THEN [t EXCEPT !.apc_state = "Esc"]
          ELSE [t EXCEPT !.passthrough = Append(@, b)]
  BY DEF FilterByte, InNormal
<1>4. q \in Seq(Byte) /\ m \in Nat
  BY <1>1 DEF Terms
<1>5. /\ Append(q, b) \in Seq(Byte) /\ Len(Append(q, b)) = m + 1
      /\ \A i \in 1 .. m : Append(q, b)[i] = q[i]
      /\ Append(q, b)[m + 1] = b
  BY <1>2, <1>4, AppendProperties
<1>6. \A x : Needed(x) \in 1 .. 3 /\ (Needed("esc") = 1)
  BY DEF Needed
<1>7. CASE b = "esc"
  <2>1. /\ u \in Terms /\ u.apc_state = "Esc" /\ u.log = t.log /\ u.passthrough = q /\ ~u.split
    BY <1>1, <1>3, <1>7 DEF Terms
  <2>2. Outcome(u) = Outcome(t)
    BY <2>1 DEF Outcome
  <2>3. Goes(u, s, k + 1, k + 1)
    BY <1>1, <2>2, Stays
  <2>4. Dangling(u, s, k + 1)
    <3> SUFFICES ASSUME NEW i \in 1 .. m, i + Needed(q[i]) - 1 > m PROVE FALSE
      BY <2>1 DEF Dangling
    <3> DEFINE j == k - (m - i)
    <3>1. j >= 1 /\ s[j] = q[i]
      BY <1>1 DEF Dangling
    <3> DEFINE w == Needed(q[i])
    <3>30. w \in Nat /\ i + w - 1 > m
      BY <1>6
    <3> HIDE DEF w
    <3>20. m \in Nat /\ j >= 1
      BY <1>4, <3>1
    <3> HIDE DEF m
    <3>21. /\ j >= 1 => j \in Nat /\ j < k + 1
           /\ i + w - 1 > m => k + 1 < j + w
      BY <3>20, <3>30, Shift
    <3>2. j \in Nat /\ j < k + 1
      BY <3>20, <3>21
    <3>3. k + 1 < j + Needed(s[j])
      BY <3>1, <3>21, <3>30 DEF w
    <3> HIDE DEF j
    <3>4. j \in 1 .. Len(s)
      BY <1>2, <3>1, <3>2
    <3>5. IsCont(b)
      BY <1>2, <3>2, <3>3, <3>4 DEF Text
    <3> QED BY <1>7, <3>5 DEF IsCont
  <2> QED BY <1>7, <2>1, <2>3, <2>4 DEF Good
<1>8. CASE b # "esc"
  <2> DEFINE a == Append(q, b)
  <2>10. a \in Seq(Byte) /\ u = [t EXCEPT !.passthrough = a]
    BY <1>3, <1>5, <1>8
  <2> HIDE DEF a
  <2>11. /\ u \in Terms /\ u.apc_state = "Normal" /\ u.log = t.log
         /\ u.passthrough = a /\ ~u.split
    <3> HIDE DEF u
    <3> QED BY <1>1, <2>10 DEF Terms
  <2>1. /\ u \in Terms /\ u.apc_state = "Normal" /\ u.log = t.log
        /\ u.passthrough = Append(q, b) /\ ~u.split
    BY <2>11 DEF a
  <2>2. Outcome(u) = Outcome(t) \o <<<<b>>>>
    BY <1>1, <1>2, <2>1, Batched
  <2> DEFINE x == <<<<b>>>>
  <2>3. x \in Out
    BY <1>2 DEF Out
  <2>4. ASSUME NEW n \in Nat, NEW f, k + 1 <= n, n <= Len(s), MeansTo(f, s, n)
        PROVE  (k + 1) + 1 \in 1 .. n + 1 /\ f[k + 1] = x \o f[(k + 1) + 1]
    <3>1. k + 1 \in 1 .. n + 1 /\ k + 1 <= n
      BY <2>4
    <3>2. MeansAt(s, n, k + 1, f[k + 1], f)
      BY <2>4, <3>1, PrefixMeans
    <3>3. f[k + 1] = x \o f[(k + 1) + 1]
      BY <1>8, <3>1, <3>2 DEF MeansAt
    <3>4. (k + 1) + 1 \in 1 .. n + 1
      BY <2>4
    <3> QED BY <3>3, <3>4
  <2> HIDE DEF x, u
  <2>5. Outcome(u) = Outcome(t) \o x
    BY <2>2 DEF x
  <2>6. Goes(u, s, k + 1, (k + 1) + 1)
    BY <1>1, <2>3, <2>4, <2>5, Moves
  <2>7. Dangling(u, s, k + 1)
    <3> DEFINE r == u.passthrough
    <3> SUFFICES ASSUME NEW i \in 1 .. Len(r), i + Needed(r[i]) - 1 > Len(r)
                 PROVE  (k + 1) - (Len(r) - i) >= 1 /\ s[(k + 1) - (Len(r) - i)] = r[i]
      BY <2>1 DEF Dangling
    <3>0. r = Append(q, b)
      BY <2>1
    <3>1. Len(r) = m + 1 /\ i \in 1 .. m + 1
      BY <1>5, <3>0
    <3>2. CASE i = m + 1
      <4>1. (k + 1) - (Len(r) - i) = k + 1
        BY <1>4, <3>1, <3>2
      <4>2. r[i] = b
        BY <1>5, <3>0, <3>2
      <4> HIDE DEF r
      <4> QED BY <4>1, <4>2
    <3>3. CASE i <= m
      <4>1. i \in 1 .. m /\ r[i] = q[i]
        BY <1>5, <3>0, <3>3
      <4> DEFINE w == Needed(q[i])
      <4>5. i + w - 1 > m + 1 /\ w \in Nat
        BY <1>6, <3>1, <4>1
      <4> HIDE DEF w
      <4>6. /\ i + w - 1 > m + 1 => i + w - 1 > m
            /\ (k + 1) - ((m + 1) - i) = k - (m - i)
        <5>1. m \in Nat /\ i \in 1 .. m
          BY <1>4, <4>1
        <5> HIDE DEF m
        <5> QED BY <4>5, <5>1, Shift
      <4>2. i + Needed(q[i]) - 1 > m
        BY <4>5, <4>6 DEF w
      <4>3. k - (m - i) >= 1 /\ s[k - (m - i)] = q[i]
        BY <1>1, <4>1, <4>2 DEF Dangling
      <4>4. (k + 1) - (Len(r) - i) = k - (m - i)
        BY <3>1, <4>6
      <4> DEFINE j == k - (m - i)
                 l == (k + 1) - (Len(r) - i)
      <4>7. l = j /\ j >= 1 /\ s[j] = q[i] /\ r[i] = q[i]
        BY <4>1, <4>3, <4>4
      <4> HIDE DEF j, l, r, q
      <4>8. l >= 1 /\ s[l] = r[i]
        BY <4>7
      <4> QED BY <4>8 DEF l, r
    <3>4. i = m + 1 \/ i <= m
      BY <1>4, <3>1
    <3> QED BY <3>2, <3>3, <3>4, Zenon
  <2>8. u.apc_state # "Esc" /\ u.apc_state \notin {"Apc", "ApcEsc"}
    BY <2>1
  <2>9. Good(u, s, k + 1)
    BY <2>1, <2>6, <2>7, <2>8 DEF Good
  <2> QED BY <2>9 DEF u
<1> QED BY <1>7, <1>8

\* A codepoint has one byte to three; an ESC is whole.
LEMMA NeededIs == \A x : Needed(x) \in 1 .. 3 /\ Needed("esc") = 1
  BY DEF Needed

\* Two elements are one and one.
LEMMA Pair ==
  ASSUME NEW S, NEW a \in S, NEW b \in S
  PROVE  <<a>> \o <<b>> = <<a, b>>
<1> DEFINE x == <<a>>
           y == <<b>>
           z == <<a, b>>
           v == x \o y
<1>1. x \in Seq(S) /\ Len(x) = 1 /\ x[1] = a
  OBVIOUS
<1>2. y \in Seq(S) /\ Len(y) = 1 /\ y[1] = b
  OBVIOUS
<1>3. z \in Seq(S) /\ Len(z) = 2 /\ z[1] = a /\ z[2] = b
  OBVIOUS
<1> HIDE DEF x, y, z
<1>4. /\ v \in Seq(S) /\ Len(v) = 2
      /\ \A i \in 1 .. 2 : v[i] = IF i <= 1 THEN x[i] ELSE y[i - 1]
  <2>1. /\ v \in Seq(S) /\ Len(v) = Len(x) + Len(y)
        /\ \A i \in 1 .. Len(x) + Len(y) : v[i] = IF i <= Len(x) THEN x[i] ELSE y[i - Len(x)]
    BY <1>1, <1>2, ConcatProperties
  <2> HIDE DEF v
  <2> QED BY <1>1, <1>2, <2>1
<1> HIDE DEF v
<1>5. v[1] = a /\ v[2] = b
  BY <1>1, <1>2, <1>4
<1>6. \A i \in 1 .. Len(v) : v[i] = z[i]
  BY <1>3, <1>4, <1>5
<1>7. v = z
  BY <1>3, <1>4, <1>6, SeqEqual
<1> QED BY <1>7 DEF v, x, y, z

\* Two elements more.
LEMMA AppendTwo ==
  ASSUME NEW S, NEW q \in Seq(S), NEW a \in S, NEW b \in S
  PROVE  Append(Append(q, a), b) = q \o <<a, b>>
<1> DEFINE x == <<a>>
           y == <<b>>
           e == Append(q, a)
<1>1. e \in Seq(S) /\ e = q \o x
  BY AppendIn
<1>2. x \in Seq(S) /\ y \in Seq(S)
  OBVIOUS
<1> HIDE DEF e
<1>3. Append(e, b) = e \o y
  BY <1>1, AppendIn
<1> HIDE DEF x, y
<1>4. (q \o x) \o y = q \o (x \o y)
  BY <1>2, ConcatAssociative
<1>5. x \o y = <<a, b>>
  BY Pair DEF x, y
<1> QED BY <1>1, <1>3, <1>4, <1>5 DEF e

\* A byte after an ESC: an APC begins, or the ESC was another sequence's.
LEMMA EscStep ==
  ASSUME NEW s \in Seq(Byte), NEW k \in Nat, k < Len(s), NEW t, Good(t, s, k),
         t.apc_state = "Esc"
  PROVE  Good(FilterByte(t, s[k + 1]), s, k + 1)
<1> DEFINE b == s[k + 1]
           u == FilterByte(t, b)
           q == t.passthrough
           m == Len(q)
           esc == Append(q, "esc")
<1>1. t \in Terms /\ ~t.split /\ k >= 1 /\ s[k] = "esc" /\ Goes(t, s, k, k)
  BY DEF Good
<1>2. b \in Byte /\ k + 1 \in 1 .. Len(s) /\ Len(s) \in Nat
  BY ElementOfSeq
<1>3. u = IF b = "_" THEN [Flushed(t) EXCEPT !.apc_accum = <<>>, !.apc_state = "Apc",
                                     !.is_kitty = FALSE, !.seen_first = FALSE]
          ELSE IF b = "esc" THEN [t EXCEPT !.passthrough = Append(@, "esc")]
          ELSE [t EXCEPT !.passthrough = @ \o <<"esc", b>>, !.apc_state = "Normal"]
  BY DEF FilterByte, InEsc
<1>4. q \in Seq(Byte) /\ m \in Nat
  BY <1>1 DEF Terms
<1>40. "esc" \in Byte
  BY DEF Byte
<1>5. /\ esc \in Seq(Byte) /\ Len(esc) = m + 1
      /\ \A i \in 1 .. m : esc[i] = q[i]
      /\ esc[m + 1] = "esc"
  BY <1>4, <1>40, AppendProperties
<1>6. \A i \in 1 .. m : ~(i + Needed(q[i]) - 1 > m)
  BY DEF Good, Dangling
<1>60. \A i \in 1 .. m + 1 : ~(i + Needed(esc[i]) - 1 > m + 1)
  <2> SUFFICES ASSUME NEW i \in 1 .. m + 1 PROVE ~(i + Needed(esc[i]) - 1 > m + 1)
    OBVIOUS
  <2>1. CASE i = m + 1
    <3>1. Needed(esc[i]) = 1
      BY <1>5, <2>1, NeededIs
    <3> QED BY <1>4, <2>1, <3>1
  <2>2. CASE i <= m
    <3> DEFINE w == Needed(q[i])
    <3>1. i \in 1 .. m /\ esc[i] = q[i]
      BY <1>4, <1>5, <2>2
    <3>2. w \in Nat /\ ~(i + w - 1 > m)
      BY <1>6, <3>1, NeededIs
    <3> HIDE DEF w, m
    <3>3. ~(i + w - 1 > m + 1)
      BY <1>4, <3>1, <3>2
    <3> QED BY <3>1, <3>3 DEF w
  <2>3. i = m + 1 \/ i <= m
    BY <1>4
  <2> QED BY <2>1, <2>2, <2>3, Zenon
<1>7. CASE b = "_"
  <2> DEFINE v == Flushed(t)
  <2>1. /\ v \in Terms /\ v.log = Outcome(t) /\ v.passthrough = <<>>
        /\ (v.split <=> t.split \/ EndsInside(q))
    BY <1>1, FlushIs DEF Outcome
  <2>2. ~EndsInside(q)
    BY <1>6 DEF EndsInside
  <2> HIDE DEF v
  <2>30. <<>> \in Seq(Byte)
    BY EmptySeq
  <2>31. u = [v EXCEPT !.apc_accum = <<>>, !.apc_state = "Apc", !.is_kitty = FALSE, !.seen_first = FALSE]
    BY <1>3, <1>7 DEF v
  <2> HIDE DEF u
  <2>3. /\ u \in Terms /\ ~u.split /\ u.apc_state = "Apc" /\ u.log = Outcome(t)
        /\ u.passthrough = <<>> /\ u.apc_accum = <<>> /\ ~u.is_kitty /\ ~u.seen_first
    BY <1>1, <2>1, <2>2, <2>30, <2>31 DEF Terms
  <2>4. Outcome(u) = Outcome(t)
    BY <2>3, OutcomeIn
  <2>5. Goes(u, s, k + 1, k)
    BY <1>1, <2>4, Stays
  <2>6. Dangling(u, s, k + 1)
    BY <2>3 DEF Dangling
  <2>7. ~(k + 1 >= k + 2) /\ ~(k + 1 > k + 1) /\ k \in 1 .. (k + 1) - 1
    BY <1>1
  <2>8. Open(s, k, k + 1)
    BY <2>7 DEF Open
  <2>9. ~Kitty(s, k, k + 1)
    BY <2>7 DEF Kitty
  <2>10. ApcFrom(u, s, k + 1, k)
    BY <1>1, <1>7, <2>3, <2>5, <2>7, <2>8, <2>9 DEF ApcFrom
  <2>11. Good(u, s, k + 1)
    BY <2>3, <2>6, <2>10 DEF Good
  <2> QED BY <2>11 DEF u
<1>8. CASE b = "esc"
  <2>1. u = [t EXCEPT !.passthrough = esc]
    BY <1>3, <1>8
  <2> HIDE DEF esc, u
  <2>2. /\ u \in Terms /\ u.apc_state = "Esc" /\ u.log = t.log
        /\ u.passthrough = esc /\ ~u.split
    BY <1>1, <1>5, <2>1 DEF Terms
  <2> DEFINE x == <<<<"esc">>>>
  <2>3. Outcome(u) = Outcome(t) \o x
    BY <1>1, <1>40, <2>2, Batched DEF esc
  <2>4. x \in Out
    BY <1>40 DEF Out
  <2>5. ASSUME NEW n \in Nat, NEW f, k + 1 <= n, n <= Len(s), MeansTo(f, s, n)
        PROVE  k + 1 \in 1 .. n + 1 /\ f[k] = x \o f[k + 1]
    <3>1. k \in 1 .. n + 1 /\ k < n /\ k + 1 \in 1 .. n + 1
      BY <1>1, <2>5
    <3>2. MeansAt(s, n, k, f[k], f)
      BY <2>5, <3>1, PrefixMeans
    <3>3. f[k] = x \o f[k + 1]
      BY <1>1, <1>8, <3>1, <3>2 DEF MeansAt
    <3> QED BY <3>1, <3>3
  <2> HIDE DEF x
  <2>6. Goes(u, s, k + 1, k + 1)
    BY <1>1, <2>3, <2>4, <2>5, Moves
  <2>7. Dangling(u, s, k + 1)
    BY <1>5, <1>60, <2>2 DEF Dangling
  <2>8. k + 1 >= 1
    OBVIOUS
  <2>9. Good(u, s, k + 1)
    BY <1>8, <2>2, <2>6, <2>7, <2>8 DEF Good
  <2> QED BY <2>9 DEF u
<1>9. CASE b \notin {"_", "esc"}
  <2> DEFINE c == Append(esc, b)
  <2>1. /\ c \in Seq(Byte) /\ Len(c) = (m + 1) + 1
        /\ \A i \in 1 .. m + 1 : c[i] = esc[i]
        /\ c[(m + 1) + 1] = b
    <3> HIDE DEF esc
    <3>1. esc \in Seq(Byte) /\ Len(esc) = m + 1
      BY <1>5
    <3>2. /\ c \in Seq(Byte) /\ Len(c) = Len(esc) + 1
          /\ \A i \in 1 .. Len(esc) : c[i] = esc[i]
          /\ c[Len(esc) + 1] = b
      BY <1>2, <3>1, AppendProperties
    <3> QED BY <3>1, <3>2
  <2>2. c = q \o <<"esc", b>>
    BY <1>2, <1>4, <1>40, AppendTwo
  <2>3. u = [t EXCEPT !.passthrough = c, !.apc_state = "Normal"]
    BY <1>3, <1>9, <2>2
  <2> HIDE DEF esc, u
  <2> DEFINE v == [t EXCEPT !.passthrough = esc]
  <2>4. v \in Terms /\ v.log = t.log /\ v.passthrough = esc
    BY <1>1, <1>5 DEF Terms
  <2>5. Outcome(v) = Outcome(t) \o <<<<"esc">>>>
    <3> HIDE DEF v
    <3> QED BY <1>1, <1>40, <2>4, Batched DEF esc
  <2> HIDE DEF c
  <2>6. /\ u \in Terms /\ u.log = v.log /\ u.passthrough = c /\ ~u.split
        /\ u.apc_state = "Normal"
    BY <1>1, <2>1, <2>3 DEF Terms
  <2> HIDE DEF v
  <2>7. Outcome(u) = Outcome(v) \o <<<<b>>>>
    <3>1. u.passthrough = Append(v.passthrough, b)
      BY <2>4, <2>6 DEF c
    <3> QED BY <1>2, <2>4, <2>6, <3>1, Batched
  <2> DEFINE y == <<<<"esc">>>>
             z == <<<<b>>>>
             x == <<<<"esc">>, <<b>>>>
  <2>8. y \in Out /\ z \in Out /\ x \in Out
    BY <1>2, <1>40 DEF Out
  <2>9. y \o z = x
    <3>1. <<"esc">> \in Seq(Byte) /\ <<b>> \in Seq(Byte)
      BY <1>2, <1>40
    <3> QED BY <3>1, Pair
  <2> HIDE DEF x, y, z
  <2>10. Outcome(u) = Outcome(t) \o x
    <3>1. (Outcome(t) \o y) \o z = Outcome(t) \o (y \o z)
      BY <1>1, <2>8, OutcomeIn, JoinedAnyway
    <3> QED BY <2>5, <2>7, <2>9, <3>1 DEF y, z
  <2>11. ASSUME NEW n \in Nat, NEW f, k + 1 <= n, n <= Len(s), MeansTo(f, s, n)
         PROVE  (k + 1) + 1 \in 1 .. n + 1 /\ f[k] = x \o f[(k + 1) + 1]
    <3>1. k \in 1 .. n + 1 /\ k < n /\ (k + 1) + 1 \in 1 .. n + 1 /\ k + 2 = (k + 1) + 1
      BY <1>1, <2>11
    <3>2. MeansAt(s, n, k, f[k], f)
      BY <2>11, <3>1, PrefixMeans
    <3>3. f[k] = x \o f[k + 2]
      BY <1>1, <1>9, <3>1, <3>2 DEF MeansAt, x
    <3> QED BY <3>1, <3>3
  <2>12. Goes(u, s, k + 1, (k + 1) + 1)
    BY <1>1, <2>8, <2>10, <2>11, Moves
  <2>13. Dangling(u, s, k + 1)
    <3> SUFFICES ASSUME NEW i \in 1 .. Len(c), i + Needed(c[i]) - 1 > Len(c)
                 PROVE  (k + 1) - (Len(c) - i) >= 1 /\ s[(k + 1) - (Len(c) - i)] = c[i]
      BY <2>6 DEF Dangling
    <3>0. i = m + 2 \/ i \in 1 .. m + 1
      BY <1>4, <2>1
    <3>1. CASE i = m + 2
      <4>1. (k + 1) - (Len(c) - i) = k + 1
        BY <1>4, <2>1, <3>1
      <4>2. c[i] = b /\ k + 1 >= 1
        BY <1>4, <2>1, <3>1
      <4> QED BY <4>1, <4>2
    <3>2. CASE i \in 1 .. m + 1
      <4> DEFINE w == Needed(esc[i])
      <4>1. c[i] = esc[i]
        BY <2>1, <3>2
      <4>2. w \in Nat /\ ~(i + w - 1 > m + 1) /\ i + w - 1 > (m + 1) + 1
        BY <1>60, <2>1, <3>2, <4>1, NeededIs
      <4> HIDE DEF w, m
      <4> QED BY <1>4, <3>2, <4>2
    <3> QED BY <3>0, <3>1, <3>2, Zenon
  <2>14. u.apc_state # "Esc" /\ u.apc_state \notin {"Apc", "ApcEsc"}
    BY <2>6
  <2>15. Good(u, s, k + 1)
    BY <2>6, <2>12, <2>13, <2>14 DEF Good
  <2> QED BY <2>15 DEF u
<1> QED BY <1>7, <1>8, <1>9

\* The limit, byte by byte.
LEMMA CappedGrows ==
  ASSUME NEW q \in Seq(Byte), NEW b \in Byte
  PROVE  Capped(Append(q, b)) = IF Len(Capped(q)) < KITTY_APC_MAX_BYTES
                                THEN Append(Capped(q), b) ELSE Capped(q)
<1> DEFINE r == Append(q, b)
           M == KITTY_APC_MAX_BYTES
<1>0. M \in Nat
  BY LimitsAssumption
<1>1. /\ r \in Seq(Byte) /\ Len(r) = Len(q) + 1 /\ Len(q) \in Nat
      /\ \A i \in 1 .. Len(q) : r[i] = q[i]
  BY AppendProperties
<1> HIDE DEF r
<1>2. /\ Len(q) <= M => Capped(q) = q
      /\ Len(Capped(q)) = Shorter(Len(q), M) /\ Capped(q) \in Seq(Byte)
      /\ \A i \in 1 .. Len(Capped(q)) : Capped(q)[i] = q[i]
  BY CappedIs
<1>3. /\ Len(r) <= M => Capped(r) = r
      /\ Len(Capped(r)) = Shorter(Len(r), M) /\ Capped(r) \in Seq(Byte)
      /\ \A i \in 1 .. Len(Capped(r)) : Capped(r)[i] = r[i]
  BY <1>1, CappedIs
<1>4. CASE Len(q) < M
  <2>1. Len(q) <= M /\ Len(r) <= M
    BY <1>0, <1>1, <1>4
  <2>2. Capped(q) = q /\ Capped(r) = r
    BY <1>2, <1>3, <2>1
  <2> QED BY <1>4, <2>2 DEF r
<1>5. CASE ~(Len(q) < M)
  <2>1. Shorter(Len(q), M) = M /\ Shorter(Len(r), M) = M
    BY <1>0, <1>1, <1>5 DEF Shorter
  <2>2. Len(Capped(q)) = M /\ Len(Capped(r)) = M /\ M <= Len(q)
    BY <1>0, <1>1, <1>2, <1>3, <1>5, <2>1
  <2>3. \A i \in 1 .. M : Capped(q)[i] = q[i] /\ Capped(r)[i] = r[i] /\ r[i] = q[i]
    <3>1. \A i \in 1 .. M : i \in 1 .. Len(q)
      BY <1>0, <1>1, <2>2
    <3> QED BY <1>1, <1>2, <1>3, <2>2, <3>1
  <2>4. \A i \in 1 .. Len(Capped(r)) : Capped(r)[i] = Capped(q)[i]
    BY <2>2, <2>3
  <2>5. Capped(r) = Capped(q)
    BY <1>2, <1>3, <2>2, <2>4, SeqEqual
  <2>6. ~(Len(Capped(q)) < M)
    BY <1>0, <2>2
  <2> QED BY <2>5, <2>6 DEF r
<1> QED BY <1>4, <1>5

\* A byte of a Kitty body is kept up to the limit.
LEMMA KeptIs ==
  ASSUME NEW t \in Terms, NEW q \in Seq(Byte), NEW b \in Byte, t.apc_accum = Capped(q)
  PROVE  Kept(t, b) = [t EXCEPT !.apc_accum = Capped(Append(q, b))]
<1> DEFINE a == t.apc_accum
           c == Capped(Append(q, b))
<1>1. c = IF Len(a) < KITTY_APC_MAX_BYTES THEN Append(a, b) ELSE a
  BY CappedGrows
<1>2. CASE Len(a) < KITTY_APC_MAX_BYTES
  <2>1. Kept(t, b) = [t EXCEPT !.apc_accum = Append(@, b)] /\ c = Append(a, b)
    BY <1>1, <1>2 DEF Kept
  <2> HIDE DEF c
  <2>2. Kept(t, b) = [t EXCEPT !.apc_accum = c]
    BY <2>1
  <2> QED BY <2>2 DEF c
<1>3. CASE ~(Len(a) < KITTY_APC_MAX_BYTES)
  <2>1. Kept(t, b) = t /\ c = a
    BY <1>1, <1>3 DEF Kept
  <2> HIDE DEF c
  <2>2. t = [t EXCEPT !.apc_accum = c]
    BY <2>1 DEF Terms
  <2> QED BY <2>1, <2>2 DEF c
<1> QED BY <1>2, <1>3

\* what is known in an APC, before its next byte
LEMMA InApcFacts ==
  ASSUME NEW s \in Seq(Byte), NEW k \in Nat, k < Len(s), NEW t, Good(t, s, k), NEW i,
         ApcFrom(t, s, k, i)
  PROVE  /\ t \in Terms /\ ~t.split /\ t.passthrough = <<>> /\ Outcome(t) = t.log
         /\ i \in Nat \ {0} /\ i < k /\ s[k + 1] \in Byte
         /\ SubSeq(s, i + 2, k) \in Seq(Byte)
         /\ SubSeq(s, i + 2, k + 1) = Append(SubSeq(s, i + 2, k), s[k + 1])
         /\ k = i + 1 => SubSeq(s, i + 2, k) = <<>>
<1>1. t \in Terms /\ ~t.split /\ t.passthrough = <<>>
  BY DEF Good, ApcFrom
<1>2. i \in Nat \ {0} /\ i < k
  <2>1. i \in 1 .. k - 1
    BY DEF ApcFrom
  <2> QED BY <2>1
<1>3. s[k + 1] \in Byte
  BY ElementOfSeq
<1>4. i + 2 \in Nat \ {0} /\ i + 2 \in 1 .. Len(s) + 1 /\ i + 2 <= k + 1 /\ k + 1 <= Len(s) /\ k <= Len(s)
  BY <1>2
<1>5. SubSeq(s, i + 2, k + 1) = Append(SubSeq(s, i + 2, k), s[k + 1])
  BY <1>4, PartGrows
<1>6. /\ SubSeq(s, i + 2, k) \in Seq(Byte)
      /\ Len(SubSeq(s, i + 2, k)) = IF i + 2 <= k THEN k - (i + 2) + 1 ELSE 0
  BY <1>4, Part
<1>7. k = i + 1 => SubSeq(s, i + 2, k) = <<>>
  <2>1. k = i + 1 => ~(i + 2 <= k)
    BY <1>2
  <2> QED BY <1>6, <2>1, EmptySeq
<1> QED BY <1>1, <1>2, <1>3, <1>5, <1>6, <1>7, OutcomeIn

\* an ESC in an APC
LEMMA ApcEscape ==
  ASSUME NEW s \in Seq(Byte), NEW k \in Nat, k < Len(s), NEW t, Good(t, s, k), NEW i,
         ApcFrom(t, s, k, i), s[k + 1] = "esc",
         NEW u, u = [t EXCEPT !.apc_state = "ApcEsc"]
  PROVE  Good(u, s, k + 1)
<1> DEFINE p == SubSeq(s, i + 2, k)
           p1 == SubSeq(s, i + 2, k + 1)
<1>1. /\ t \in Terms /\ ~t.split /\ t.passthrough = <<>>
      /\ i \in Nat \ {0} /\ i < k
      /\ p \in Seq(Byte) /\ p1 = Append(p, "esc")
  BY InApcFacts
<1> HIDE DEF p, p1
<1>2. /\ u \in Terms /\ ~u.split /\ u.apc_state = "ApcEsc" /\ u.passthrough = <<>>
      /\ u.log = t.log /\ u.apc_accum = t.apc_accum
  BY <1>1 DEF Terms
<1>3. Body(p1) = Body(p)
  <2>1. "esc" \in Byte
    BY DEF Byte
  <2> QED BY <1>1, <2>1, BodyGrows
<1>4. Kitty(s, i, k + 1) <=> Kitty(s, i, k)
  <2>1. CASE k = i + 1
    <3>0. k + 1 = i + 2
      BY <1>1, <2>1
    <3>2. s[i + 2] # "G"
      BY <3>0
    <3>1. s[i + 2] # "G" /\ ~(k >= i + 2)
      BY <1>1, <2>1, <3>2
    <3> QED BY <3>1 DEF Kitty
  <2>2. CASE k # i + 1
    <3>1. k >= i + 2 /\ k + 1 >= i + 2
      BY <1>1, <2>2
    <3> QED BY <3>1 DEF Kitty
  <2> QED BY <2>1, <2>2
<1>5. Goes(u, s, k + 1, i)
  <2>1. Outcome(u) = Outcome(t) /\ Goes(t, s, k, i)
    BY <1>1, <1>2 DEF Outcome, ApcFrom
  <2> QED BY <2>1, Stays
<1>6. Open(s, i, k + 1)
  <2> SUFFICES ASSUME NEW e \in i + 2 .. k + 1, Closes(s, i, e) PROVE FALSE
    BY DEF Open
  <2>1. e # k + 1
    BY DEF Closes
  <2>2. e \in i + 2 .. k
    BY <1>1, <2>1
  <2> QED BY <2>2 DEF ApcFrom, Open
<1>7. i \in 1 .. (k + 1) - 1 /\ k + 1 > i + 1
  BY <1>1
<1>8. t.apc_accum = (IF Kitty(s, i, k) THEN Capped(Body(p)) ELSE <<>>)
  BY DEF ApcFrom, p
<1>9. u.apc_accum = (IF Kitty(s, i, k + 1) THEN Capped(Body(p1)) ELSE <<>>)
  BY <1>2, <1>3, <1>4, <1>8
<1>10. s[i] = "esc" /\ s[i + 1] = "_" /\ (Kitty(s, i, k) => t.apc_accum # <<>> /\ Head(t.apc_accum) = "G")
  BY DEF ApcFrom
<1>11. ApcFrom(u, s, k + 1, i)
  BY <1>2, <1>4, <1>5, <1>6, <1>7, <1>9, <1>10 DEF ApcFrom, p1
<1>12. Dangling(u, s, k + 1)
  BY <1>2 DEF Dangling
<1> QED BY <1>2, <1>11, <1>12 DEF Good

\* a byte of the body
LEMMA ApcText ==
  ASSUME NEW s \in Seq(Byte), NEW k \in Nat, k < Len(s), NEW t, Good(t, s, k), NEW i,
         ApcFrom(t, s, k, i), s[k + 1] # "esc", ~Closes(s, i, k + 1),
         NEW K \in BOOLEAN, K <=> Kitty(s, i, k + 1),
         NEW u, u = [(IF K THEN Kept(t, s[k + 1]) ELSE t)
                       EXCEPT !.apc_state = "Apc", !.is_kitty = K, !.seen_first = TRUE]
  PROVE  Good(u, s, k + 1)
<1> DEFINE b == s[k + 1]
           p == SubSeq(s, i + 2, k)
           p1 == SubSeq(s, i + 2, k + 1)
           a == Capped(Body(p1))
<1>1. /\ t \in Terms /\ ~t.split /\ t.passthrough = <<>>
      /\ i \in Nat \ {0} /\ i < k /\ b \in Byte
      /\ p \in Seq(Byte) /\ p1 = Append(p, b)
      /\ k = i + 1 => p = <<>>
  <2>1. /\ t \in Terms /\ ~t.split /\ t.passthrough = <<>>
        /\ i \in Nat \ {0} /\ i < k /\ b \in Byte
    BY InApcFacts
  <2>2. p \in Seq(Byte) /\ p1 = Append(p, b)
    BY InApcFacts
  <2>3. k = i + 1 => p = <<>>
    BY InApcFacts
  <2> QED BY <2>1, <2>2, <2>3, Zenon
<1>20. "esc" \in Byte
  BY DEF Byte
<1> HIDE DEF p, p1
<1>2. Body(p) \in Seq(Byte) /\ Body(p1) = Append(Body(p), b) /\ Body(<<>>) = <<>>
  BY <1>1, BodyGrows
<1>3. a = Capped(Append(Body(p), b))
  BY <1>2
<1>30. a \in Seq(Byte)
  <2>1. p1 \in Seq(Byte)
    BY <1>1, AppendIn
  <2>2. Body(p1) \in Seq(Byte)
    BY <1>20, <2>1, BodyGrows
  <2> QED BY <2>2, CappedIs
<1>4. t.apc_accum = (IF Kitty(s, i, k) THEN Capped(Body(p)) ELSE <<>>)
  BY DEF ApcFrom, p
<1>5. s[i] = "esc" /\ s[i + 1] = "_" /\ (Kitty(s, i, k) => t.apc_accum # <<>> /\ Head(t.apc_accum) = "G")
  BY DEF ApcFrom
<1>6. /\ k = i + 1 => ~Kitty(s, i, k) /\ (K <=> b = "G")
      /\ k # i + 1 => (K <=> Kitty(s, i, k))
  <2>1. CASE k = i + 1
    <3>1. k + 1 = i + 2 /\ ~(k >= i + 2) /\ k + 1 >= i + 2
      BY <1>1, <2>1
    <3> QED BY <2>1, <3>1 DEF Kitty
  <2>2. CASE k # i + 1
    <3>1. k >= i + 2 /\ k + 1 >= i + 2
      BY <1>1, <2>2
    <3> QED BY <2>2, <3>1 DEF Kitty
  <2> QED BY <2>1, <2>2
<1>7. K => t.apc_accum = Capped(Body(p))
  <2>1. CASE k = i + 1
    <3>1. Body(p) = <<>>
      BY <1>1, <1>2, <2>1
    <3>2. Capped(<<>>) = <<>>
      <4>1. <<>> \in Seq(Byte) /\ Len(<<>>) = 0 /\ 0 <= KITTY_APC_MAX_BYTES
        BY EmptySeq, LimitsAssumption
      <4> QED BY <4>1, CappedIs
    <3> QED BY <1>4, <1>6, <2>1, <3>1, <3>2
  <2>2. CASE k # i + 1
    BY <1>4, <1>6, <2>2
  <2> QED BY <2>1, <2>2
<1>8. K => a # <<>> /\ Head(a) = "G"
  <2> SUFFICES ASSUME K PROVE a # <<>> /\ Head(a) = "G"
    OBVIOUS
  <2> DEFINE c == t.apc_accum
  <2>1. a = IF Len(c) < KITTY_APC_MAX_BYTES THEN Append(c, b) ELSE c
    <3> HIDE DEF a
    <3> QED BY <1>1, <1>2, <1>3, <1>7, CappedGrows
  <2>2. c \in Seq(Byte)
    BY <1>1 DEF Terms
  <2> HIDE DEF a
  <2>3. CASE k = i + 1
    <3>1. c = <<>> /\ b = "G"
      BY <1>4, <1>6, <2>3
    <3>2. a = Append(<<>>, b)
      <4>1. Len(<<>>) < KITTY_APC_MAX_BYTES
        BY LimitsAssumption
      <4> HIDE DEF c, b
      <4> QED BY <2>1, <3>1, <4>1
    <3>3. a = <<b>>
      BY <3>2
    <3> HIDE DEF b
    <3> QED BY <3>1, <3>3
  <2>4. CASE k # i + 1
    <3>1. c # <<>> /\ Head(c) = "G"
      BY <1>5, <1>6, <2>4
    <3>2. Append(c, b) # <<>> /\ Head(Append(c, b)) = "G"
      <4>1. /\ Append(c, b) \in Seq(Byte) /\ Len(Append(c, b)) = Len(c) + 1
            /\ \A j \in 1 .. Len(c) : Append(c, b)[j] = c[j]
        BY <1>1, <2>2, AppendProperties
      <4>2. Len(c) \in Nat /\ Len(c) # 0
        BY <2>2, <3>1, EmptySeq
      <4>3. Append(c, b)[1] = c[1] /\ Len(Append(c, b)) # 0
        BY <4>1, <4>2
      <4> HIDE DEF c
      <4>4. c[1] = "G"
        BY <2>2, <3>1
      <4> DEFINE g == Append(c, b)
      <4>5. g \in Seq(Byte) /\ g[1] = "G" /\ Len(g) # 0
        BY <4>1, <4>3, <4>4
      <4> HIDE DEF g
      <4>6. g # <<>> /\ Head(g) = "G"
        BY <4>5, EmptySeq
      <4> QED BY <4>6 DEF g
    <3> QED BY <2>1, <3>1, <3>2
  <2> QED BY <2>3, <2>4
<1>9. K => Kept(t, b) = [t EXCEPT !.apc_accum = a]
  BY <1>1, <1>2, <1>3, <1>7, KeptIs
<1> DEFINE d == IF K THEN a ELSE <<>>
           v == IF K THEN Kept(t, b) ELSE t
<1>10. d \in Seq(Byte)
  BY <1>30, EmptySeq
<1>11. v = [t EXCEPT !.apc_accum = d]
  <2>1. CASE K
    BY <1>9, <2>1
  <2>2. CASE ~K
    <3>1. t.apc_accum = <<>> /\ d = <<>> /\ v = t
      BY <1>4, <1>6, <2>2
    <3> HIDE DEF d, v
    <3> QED BY <1>1, <3>1 DEF Terms
  <2> QED BY <2>1, <2>2
<1>12. u = [v EXCEPT !.apc_state = "Apc", !.is_kitty = K, !.seen_first = TRUE]
  OBVIOUS
<1> HIDE DEF v, d
<1>13. /\ u \in Terms /\ ~u.split /\ u.apc_state = "Apc" /\ u.passthrough = <<>>
       /\ u.log = t.log /\ u.apc_accum = d /\ u.is_kitty = K /\ u.seen_first
  BY <1>1, <1>10, <1>11, <1>12 DEF Terms
<1>14. Goes(u, s, k + 1, i)
  <2>1. Outcome(u) = Outcome(t) /\ Goes(t, s, k, i)
    BY <1>1, <1>13 DEF Outcome, ApcFrom
  <2> QED BY <2>1, Stays
<1>15. Open(s, i, k + 1)
  <2> SUFFICES ASSUME NEW e \in i + 2 .. k + 1, Closes(s, i, e) PROVE FALSE
    BY DEF Open
  <2>1. e # k + 1
    OBVIOUS
  <2>2. e \in i + 2 .. k
    BY <1>1, <2>1
  <2> QED BY <2>2 DEF ApcFrom, Open
<1>16. i \in 1 .. (k + 1) - 1 /\ k + 1 > i + 1
  BY <1>1
<1>17. u.apc_accum = (IF Kitty(s, i, k + 1) THEN Capped(Body(p1)) ELSE <<>>)
  BY <1>13 DEF d
<1>18. Kitty(s, i, k + 1) => u.apc_accum # <<>> /\ Head(u.apc_accum) = "G"
  BY <1>8, <1>13 DEF d
<1>19. ApcFrom(u, s, k + 1, i)
  BY <1>5, <1>13, <1>14, <1>15, <1>16, <1>17, <1>18 DEF ApcFrom, p1
<1>21. Dangling(u, s, k + 1)
  BY <1>13 DEF Dangling
<1> QED BY <1>13, <1>19, <1>21 DEF Good

\* What the filter has kept of an APC is what it means.
LEMMA DecodedIs ==
  ASSUME NEW s \in Seq(Byte), NEW k \in Nat, k < Len(s), NEW t, Good(t, s, k), NEW i,
         ApcFrom(t, s, k, i), NEW e \in {k, k - 1}, e = k - 1 => k >= i + 2 /\ s[k] = "esc"
  PROVE  Decoded(SubSeq(s, i + 2, e))
           = IF Kitty(s, i, k) THEN <<<<"kitty">> \o t.apc_accum>> ELSE <<>>
<1> DEFINE p == SubSeq(s, i + 2, k)
           q == SubSeq(s, i + 2, e)
<1>1. i \in Nat \ {0} /\ i < k /\ t.apc_accum = (IF Kitty(s, i, k) THEN Capped(Body(p)) ELSE <<>>)
  <2>1. i \in 1 .. k - 1
    BY DEF ApcFrom
  <2>2. i \in Nat \ {0} /\ i < k
    BY <2>1
  <2>3. t.apc_accum = (IF Kitty(s, i, k) THEN Capped(Body(p)) ELSE <<>>)
    BY DEF ApcFrom
  <2> HIDE DEF p
  <2> QED BY <2>2, <2>3
<1>2. i + 2 \in Nat \ {0} /\ i + 2 \in 1 .. Len(s) + 1 /\ k <= Len(s) /\ e \in Nat /\ e <= Len(s)
  BY <1>1
<1>3. /\ q \in Seq(Byte) /\ Len(q) = (IF i + 2 <= e THEN e - (i + 2) + 1 ELSE 0)
      /\ \A j \in 1 .. e - (i + 2) + 1 : q[j] = s[i + 2 + j - 1]
  BY SMTT(30), <1>2, Part
<1>4. Body(p) = Body(q)
  <2>1. CASE e = k
    BY <2>1
  <2>2. CASE e = k - 1
    <3>1. k >= i + 2 /\ s[k] = "esc" /\ e + 1 = k /\ i + 2 <= e + 1
      BY <1>1, <2>2
    <3>2. SubSeq(s, i + 2, e + 1) = Append(q, s[e + 1])
      BY <1>2, <3>1, PartGrows
    <3>3. p = Append(q, "esc")
      BY <3>1, <3>2
    <3>4. "esc" \in Byte
      BY DEF Byte
    <3> HIDE DEF p, q
    <3> QED BY <1>3, <3>3, <3>4, BodyGrows
  <2> QED BY <2>1, <2>2
<1>5. q # <<>> /\ Head(q) = "G" <=> Kitty(s, i, k)
  <2>1. CASE i + 2 <= e
    <3>1. k >= i + 2
      BY <1>2, <2>1
    <3>2. 1 \in 1 .. e - (i + 2) + 1 /\ i + 2 + 1 - 1 = i + 2 /\ Len(q) # 0
      BY <1>1, <1>2, <1>3, <2>1
    <3>3. q[1] = s[i + 2] /\ Len(q) # 0
      BY <1>3, <3>2
    <3> HIDE DEF q
    <3>4. q # <<>> /\ Head(q) = s[i + 2]
      BY <1>3, <3>3, EmptySeq
    <3> QED BY <3>1, <3>4 DEF Kitty
  <2>2. CASE ~(i + 2 <= e)
    <3>1. q = <<>>
      BY <1>3, <2>2, EmptySeq
    <3>2. ~Kitty(s, i, k)
      <4>1. CASE e = k
        <5>1. ~(k >= i + 2)
          BY <1>1, <2>2, <4>1
        <5> QED BY <5>1 DEF Kitty
      <4>2. CASE e = k - 1
        <5>1. k = i + 2
          BY <1>1, <2>2, <4>2
        <5>2. s[i + 2] = "esc"
          BY <4>2, <5>1
        <5> QED BY <5>2 DEF Kitty
      <4> QED BY <4>1, <4>2
    <3> QED BY <3>1, <3>2
  <2> QED BY <2>1, <2>2
<1> HIDE DEF p, q
<1>6. Decoded(q) = IF Kitty(s, i, k) THEN <<<<"kitty">> \o Capped(Body(p))>> ELSE <<>>
  BY <1>4, <1>5 DEF Decoded
<1>7. CASE Kitty(s, i, k)
  <2>1. t.apc_accum = Capped(Body(p))
    BY <1>1, <1>7
  <2> QED BY <1>6, <1>7, <2>1 DEF q
<1>8. CASE ~Kitty(s, i, k)
  BY <1>6, <1>8 DEF q
<1> QED BY <1>7, <1>8

\* The end of an APC, by BEL or by ESC \.
LEMMA ApcEnd ==
  ASSUME NEW s \in Seq(Byte), NEW k \in Nat, k < Len(s), NEW t, Good(t, s, k), NEW i,
         ApcFrom(t, s, k, i), Closes(s, i, k + 1),
         NEW K \in BOOLEAN, K <=> Kitty(s, i, k),
         NEW u, u = finish_apc(t, K)
  PROVE  Good(u, s, k + 1)
<1> DEFINE e == IF s[k + 1] = "\\" THEN k - 1 ELSE k
           x == Decoded(SubSeq(s, i + 2, e))
           y == <<"kitty">> \o t.apc_accum
<1>1. t \in Terms /\ ~t.split /\ t.passthrough = <<>> /\ Outcome(t) = t.log
  BY InApcFacts
<1>2. i \in Nat \ {0} /\ i < k
  BY InApcFacts
<1>3. e \in {k, k - 1} /\ (e = k - 1 => k >= i + 2 /\ s[k] = "esc")
  <2>1. CASE s[k + 1] = "\\"
    <3>1. k + 1 > i + 2 /\ s[(k + 1) - 1] = "esc" /\ (k + 1) - 1 = k
      BY <2>1 DEF Closes
    <3> QED BY <1>2, <2>1, <3>1
  <2>2. CASE s[k + 1] # "\\"
    BY <2>2
  <2> QED BY <2>1, <2>2
<1>4. e \in Nat /\ e <= Len(s) /\ i + 2 \in 1 .. Len(s) + 1
  BY <1>2, <1>3
<1> HIDE DEF e
<1>5. x = IF K THEN <<y>> ELSE <<>>
  BY <1>3, DecodedIs
<1>6. x \in Out
  <2>1. SubSeq(s, i + 2, e) \in Seq(Byte)
    BY <1>4, Part
  <2> QED BY <2>1, DecodedIn
<1>7. y \in Seq(Byte)
  <2>1. t.apc_accum \in Seq(Byte)
    BY <1>1 DEF Terms
  <2>2. <<"kitty">> \in Seq(Byte)
    BY DEF Byte
  <2> QED BY <2>1, <2>2, ConcatProperties
<1> HIDE DEF x, y
<1> DEFINE l == IF K THEN Append(t.log, y) ELSE t.log
<1>8. u = [t EXCEPT !.apc_accum = <<>>, !.apc_state = "Normal", !.log = l]
  <2>1. u = [t EXCEPT !.apc_accum = <<>>, !.apc_state = "Normal",
                      !.log = IF K THEN Append(@, <<"kitty">> \o t.apc_accum) ELSE @]
    BY DEF finish_apc
  <2> QED BY <2>1 DEF y
<1>9. l \in Out /\ l = t.log \o x
  <2>1. t.log \in Out
    BY <1>1 DEF Terms
  <2>2. CASE K
    <3>1. Append(t.log, y) \in Out /\ Append(t.log, y) = t.log \o <<y>>
      BY <1>7, <2>1, AppendIn DEF Out
    <3> QED BY <1>5, <2>2, <3>1
  <2>3. CASE ~K
    <3>1. t.log \o <<>> = t.log
      BY <2>1, JoinedNothing
    <3> QED BY <1>5, <2>1, <2>3, <3>1
  <2> QED BY <2>2, <2>3
<1> HIDE DEF l
<1>10. /\ u \in Terms /\ ~u.split /\ u.apc_state = "Normal" /\ u.passthrough = <<>> /\ u.log = l
  <2>1. <<>> \in Seq(Byte)
    BY EmptySeq
  <2> QED BY <1>1, <1>8, <1>9, <2>1 DEF Terms
<1>11. Outcome(u) = Outcome(t) \o x
  <2>1. Outcome(u) = u.log
    BY <1>10, OutcomeIn
  <2> QED BY <1>1, <1>9, <1>10, <2>1
<1>12. ASSUME NEW n \in Nat, NEW f, k + 1 <= n, n <= Len(s), MeansTo(f, s, n)
       PROVE  (k + 1) + 1 \in 1 .. n + 1 /\ f[i] = x \o f[(k + 1) + 1]
  <2>1. i \in 1 .. n + 1 /\ k + 1 \in i + 2 .. n /\ (k + 1) + 1 \in 1 .. n + 1 /\ (k + 1) - 1 = k
        /\ (k + 1) - 2 = k - 1
    BY <1>2, <1>12
  <2>2. MeansAt(s, n, i, f[i], f)
    BY <1>12, <2>1, PrefixMeans
  <2>3. s[i] = "esc" /\ s[i + 1] = "_" /\ Open(s, i, (k + 1) - 1)
    BY <2>1 DEF ApcFrom
  <2>4. f[i] = Decoded(SubSeq(s, i + 2, IF s[k + 1] = "\\" THEN (k + 1) - 2 ELSE (k + 1) - 1))
                 \o f[(k + 1) + 1]
    BY <2>1, <2>2, <2>3 DEF MeansAt
  <2>5. e = IF s[k + 1] = "\\" THEN (k + 1) - 2 ELSE (k + 1) - 1
    BY <2>1 DEF e
  <2> QED BY <2>1, <2>4, <2>5 DEF x
<1>13. Goes(t, s, k, i)
  BY DEF ApcFrom
<1>14. Goes(u, s, k + 1, (k + 1) + 1)
  BY ZenonT(30), <1>1, <1>6, <1>11, <1>12, <1>13, Moves
<1>15. Dangling(u, s, k + 1)
  BY <1>10 DEF Dangling
<1> QED BY <1>10, <1>14, <1>15 DEF Good

\* One byte through the filter, in any of its states.
LEMMA FilterStep ==
  ASSUME NEW s \in Seq(Byte), Text(s), NEW k \in Nat, k < Len(s), NEW t, Good(t, s, k)
  PROVE  Good(FilterByte(t, s[k + 1]), s, k + 1)
<1> DEFINE b == s[k + 1]
           u == FilterByte(t, b)
<1>0. t \in Terms
  BY DEF Good
<1>1. CASE t.apc_state = "Normal"
  BY <1>1, NormalStep
<1>2. CASE t.apc_state = "Esc"
  BY <1>2, EscStep
<1>3. CASE t.apc_state = "Apc"
  <2>1. PICK i : ApcFrom(t, s, k, i)
    BY <1>3 DEF Good
  <2>2. /\ t.seen_first <=> k > i + 1
        /\ t.is_kitty <=> Kitty(s, i, k)
        /\ k > i + 1 => s[k] # "esc"
    BY <1>3, <2>1 DEF ApcFrom
  <2>20. t.is_kitty \in BOOLEAN
    BY <1>0 DEF Terms
  <2>3. i \in Nat \ {0} /\ i < k
    BY <2>1, InApcFacts
  <2>4. u = IF b = "bel" THEN finish_apc(t, t.is_kitty)
            ELSE IF b = "esc" THEN [t EXCEPT !.apc_state = "ApcEsc"]
            ELSE LET kitty == IF t.seen_first THEN t.is_kitty ELSE b = "G" IN
                 [(IF kitty THEN Kept(t, b) ELSE t) EXCEPT !.is_kitty = kitty, !.seen_first = TRUE]
    BY <1>3 DEF FilterByte, InApc
  <2>5. CASE b = "bel"
    <3>1. Closes(s, i, k + 1)
      BY <2>5 DEF Closes
    <3>2. u = finish_apc(t, t.is_kitty)
      BY <2>4, <2>5
    <3> QED BY <2>1, <2>2, <2>20, <3>1, <3>2, ApcEnd
  <2>6. CASE b = "esc"
    <3>1. u = [t EXCEPT !.apc_state = "ApcEsc"]
      BY <2>4, <2>6
    <3> QED BY <2>1, <2>6, <3>1, ApcEscape
  <2>7. CASE b \notin {"bel", "esc"}
    <3> DEFINE K == IF t.seen_first THEN t.is_kitty ELSE b = "G"
               v == IF K THEN Kept(t, b) ELSE t
    <3>1. u = [v EXCEPT !.is_kitty = K, !.seen_first = TRUE]
      BY <2>4, <2>7
    <3>2. K \in BOOLEAN
      BY <2>20
    <3>3. K <=> Kitty(s, i, k + 1)
      <4>1. CASE k = i + 1
        <5>1. ~(k > i + 1) /\ k + 1 = i + 2 /\ k + 1 >= i + 2
          BY <2>3, <4>1
        <5>2. K <=> b = "G"
          BY <2>2, <5>1
        <5> HIDE DEF K
        <5> QED BY <5>1, <5>2 DEF Kitty
      <4>2. CASE k # i + 1
        <5>1. k > i + 1 /\ k >= i + 2 /\ k + 1 >= i + 2
          BY <2>3, <4>2
        <5>2. K <=> t.is_kitty
          BY <2>2, <5>1
        <5> HIDE DEF K
        <5> QED BY <2>2, <5>1, <5>2 DEF Kitty
      <4> QED BY <4>1, <4>2
    <3>4. ~Closes(s, i, k + 1)
      <4> SUFFICES ASSUME b = "\\", k + 1 > i + 2, s[(k + 1) - 1] = "esc" PROVE FALSE
        BY <2>7 DEF Closes
      <4>1. k > i + 1 /\ (k + 1) - 1 = k
        BY <2>3
      <4>2. s[k] = "esc"
        BY <4>1
      <4> QED BY <2>2, <4>1, <4>2
    <3> HIDE DEF K
    <3>5. v \in Terms /\ v.apc_state = "Apc"
      <4>1. CASE K
        <5>1. Kept(t, b) \in Terms /\ Kept(t, b).apc_state = "Apc"
          <6>1. b \in Byte
            BY <2>1, InApcFacts
          <6>2. Append(t.apc_accum, b) \in Seq(Byte)
            BY <1>0, <6>1, AppendIn DEF Terms
          <6> QED BY <1>0, <1>3, <6>2 DEF Kept, Terms
        <5> QED BY <4>1, <5>1
      <4>2. CASE ~K
        BY <1>0, <1>3, <4>2
      <4> QED BY <4>1, <4>2
    <3> HIDE DEF v
    <3>6. u = [v EXCEPT !.apc_state = "Apc", !.is_kitty = K, !.seen_first = TRUE]
      BY <3>1, <3>2, <3>5 DEF Terms
    <3>7. u = [(IF K THEN Kept(t, b) ELSE t) EXCEPT !.apc_state = "Apc", !.is_kitty = K, !.seen_first = TRUE]
      BY <3>6 DEF v
    <3> HIDE DEF u
    <3>8. Good(u, s, k + 1)
      BY <2>1, <2>7, <3>2, <3>3, <3>4, <3>7, ApcText
    <3> QED BY <3>8 DEF u
  <2> QED BY <2>5, <2>6, <2>7
<1>4. CASE t.apc_state = "ApcEsc"
  <2>1. PICK i : ApcFrom(t, s, k, i)
    BY <1>4 DEF Good
  <2>2. k > i + 1 /\ s[k] = "esc"
    BY <1>4, <2>1 DEF ApcFrom
  <2>3. i \in Nat \ {0} /\ i < k
    BY <2>1, InApcFacts
  <2> DEFINE K == t.apc_accum # <<>> /\ Head(t.apc_accum) = "G"
  <2>4. K \in BOOLEAN /\ (K <=> Kitty(s, i, k))
    BY <2>1 DEF ApcFrom
  <2>5. u = IF b \in {"\\", "bel"} THEN finish_apc(t, K)
            ELSE IF b = "esc" THEN t
            ELSE [(IF K THEN Kept(t, b) ELSE t)
                    EXCEPT !.apc_state = "Apc", !.is_kitty = K, !.seen_first = TRUE]
    BY <1>4 DEF FilterByte, InApcEsc
  <2> HIDE DEF K
  <2>6. CASE b \in {"\\", "bel"}
    <3>1. k + 1 > i + 2 /\ (k + 1) - 1 = k
      BY <2>2, <2>3
    <3>2. Closes(s, i, k + 1)
      BY <2>2, <2>6, <3>1 DEF Closes
    <3>3. u = finish_apc(t, K)
      BY <2>5, <2>6
    <3> QED BY <2>1, <2>4, <3>2, <3>3, ApcEnd
  <2>7. CASE b = "esc"
    <3>1. u = t
      BY <2>5, <2>7
    <3>2. t = [t EXCEPT !.apc_state = "ApcEsc"]
      BY <1>0, <1>4 DEF Terms
    <3>3. u = [t EXCEPT !.apc_state = "ApcEsc"]
      BY <3>1, <3>2
    <3> QED BY <2>1, <2>7, <3>3, ApcEscape
  <2>8. CASE b \notin {"\\", "bel", "esc"}
    <3>1. u = [(IF K THEN Kept(t, b) ELSE t)
                 EXCEPT !.apc_state = "Apc", !.is_kitty = K, !.seen_first = TRUE]
      BY <2>5, <2>8
    <3>2. ~Closes(s, i, k + 1)
      BY <2>8 DEF Closes
    <3>3. K <=> Kitty(s, i, k + 1)
      <4>1. k >= i + 2 /\ k + 1 >= i + 2
        BY <2>2, <2>3
      <4> QED BY <2>4, <4>1 DEF Kitty
    <3> HIDE DEF u
    <3>4. Good(u, s, k + 1)
      BY <2>1, <2>4, <2>8, <3>1, <3>2, <3>3, ApcText
    <3> QED BY <3>4 DEF u
  <2> QED BY <2>6, <2>7, <2>8
<1>5. t.apc_state \in {"Normal", "Esc", "Apc", "ApcEsc"}
  BY <1>0 DEF Terms
<1> QED BY <1>1, <1>2, <1>3, <1>4, <1>5, Zenon

\* the first k bytes of s do not end inside a codepoint
Boundary(s, k) == \A i \in 1 .. k : i + Needed(s[i]) - 1 <= k

\* The filter does not touch what is held back.
LEMMA FilterHolds ==
  ASSUME NEW t \in Terms, NEW b
  PROVE  FilterByte(t, b).utf8_pending = t.utf8_pending
<1>1. CASE t.apc_state = "Normal"
  BY <1>1 DEF FilterByte, InNormal, Terms
<1>2. CASE t.apc_state = "Esc"
  <2>1. Flushed(t) \in Terms /\ Flushed(t).utf8_pending = t.utf8_pending
    BY FlushIs DEF SameFilter
  <2> DEFINE v == Flushed(t)
  <2>2. v \in Terms /\ v.utf8_pending = t.utf8_pending
    BY <2>1
  <2>3. FilterByte(t, b) = IF b = "_" THEN [v EXCEPT !.apc_accum = <<>>, !.apc_state = "Apc",
                                     !.is_kitty = FALSE, !.seen_first = FALSE]
                  ELSE IF b = "esc" THEN [t EXCEPT !.passthrough = Append(@, "esc")]
                  ELSE [t EXCEPT !.passthrough = @ \o <<"esc", b>>, !.apc_state = "Normal"]
    BY <1>2 DEF FilterByte, InEsc
  <2> HIDE DEF v
  <2> QED BY <2>2, <2>3 DEF Terms
<1>30. Kept(t, b) = [t EXCEPT !.apc_accum = Append(@, b)] \/ Kept(t, b) = t
  BY DEF Kept
<1>32. \A K : finish_apc(t, K).utf8_pending = t.utf8_pending
  BY DEF finish_apc, Terms
<1>3. CASE t.apc_state = "Apc"
  <2>1. FilterByte(t, b) = InApc(t, b)
    BY <1>3 DEF FilterByte
  <2>2. [t EXCEPT !.apc_state = "ApcEsc"].utf8_pending = t.utf8_pending
    BY DEF Terms
  <2> DEFINE K == IF t.seen_first THEN t.is_kitty ELSE b = "G"
             v == IF K THEN Kept(t, b) ELSE t
  <2>3. \/ FilterByte(t, b) = finish_apc(t, t.is_kitty)
        \/ FilterByte(t, b) = [t EXCEPT !.apc_state = "ApcEsc"]
        \/ FilterByte(t, b) = [v EXCEPT !.is_kitty = K, !.seen_first = TRUE]
    BY <2>1 DEF InApc
  <2>4. v = [t EXCEPT !.apc_accum = Append(@, b)] \/ v = t
    BY <1>30
  <2> HIDE DEF K, v
  <2>5. [v EXCEPT !.is_kitty = K, !.seen_first = TRUE].utf8_pending = t.utf8_pending
    BY <2>4 DEF Terms
  <2> QED BY <1>32, <2>2, <2>3, <2>5
<1>4. CASE t.apc_state = "ApcEsc"
  <2>1. FilterByte(t, b) = InApcEsc(t, b)
    BY <1>4 DEF FilterByte
  <2> DEFINE K == t.apc_accum # <<>> /\ Head(t.apc_accum) = "G"
             v == IF K THEN Kept(t, b) ELSE t
  <2>3. \/ FilterByte(t, b) = finish_apc(t, K)
        \/ FilterByte(t, b) = t
        \/ FilterByte(t, b) = [v EXCEPT !.apc_state = "Apc", !.is_kitty = K, !.seen_first = TRUE]
    BY <2>1 DEF InApcEsc
  <2>4. v = [t EXCEPT !.apc_accum = Append(@, b)] \/ v = t
    BY <1>30
  <2> HIDE DEF K, v
  <2>5. [v EXCEPT !.apc_state = "Apc", !.is_kitty = K, !.seen_first = TRUE].utf8_pending = t.utf8_pending
    BY <2>4 DEF Terms
  <2> QED BY <1>32, <2>3, <2>5
<1>5. t.apc_state \in {"Normal", "Esc", "Apc", "ApcEsc"}
  BY DEF Terms
<1> QED BY <1>1, <1>2, <1>3, <1>4, <1>5

\* OnEach takes an operator, so it is cited under a name without one
Filtered(t, q) == OnEach(FilterByte, t, q)

\* the filter on one byte of s after the other
LEMMA FilterAll ==
  ASSUME NEW s \in Seq(Byte), Text(s), NEW c \in Nat, NEW d \in Nat, c <= d, d <= Len(s),
         NEW t, Good(t, s, c), NEW u, u = Filtered(t, SubSeq(s, c + 1, d))
  PROVE  Good(u, s, d) /\ u.utf8_pending = t.utf8_pending
<1> DEFINE q == SubSeq(s, c + 1, d)
           X == Terms
           next(x, i) == FilterByte(x, q[i])
           Eq(f) == f = [i \in 0 .. Len(q) |->
                           IF i = 0 THEN t ELSE ValueOf({FilterByte(v, q[i]) : v \in {f[i - 1]}})]
           F == CHOOSE f : Eq(f)
           g == [p \in X \X Nat |-> IF next(p[1], p[2]) \in X THEN next(p[1], p[2]) ELSE p[1]]
<1>1. /\ q \in Seq(Byte) /\ Len(q) = d - c /\ Len(q) \in Nat
      /\ \A i \in 1 .. Len(q) : q[i] = s[c + i]
  <2>1. c + 1 \in 1 .. Len(s) + 1 /\ (IF c + 1 <= d THEN d - (c + 1) + 1 ELSE 0) = d - c
        /\ d - (c + 1) + 1 = d - c /\ d - c \in Nat
    OBVIOUS
  <2>2. /\ q \in Seq(Byte) /\ Len(q) = (IF c + 1 <= d THEN d - (c + 1) + 1 ELSE 0)
        /\ \A i \in 1 .. d - (c + 1) + 1 : q[i] = s[c + 1 + i - 1]
    BY <2>1, Part
  <2>3. \A i \in 1 .. d - c : c + 1 + i - 1 = c + i
    OBVIOUS
  <2> HIDE DEF q
  <2> QED BY <2>1, <2>2, <2>3
<1> HIDE DEF q
<1>2. t \in Terms
  BY DEF Good
<1>3. ASSUME NEW x \in X, NEW i \in Nat
      PROVE  /\ g[<<x, i>>] \in X
             /\ next(x, i) \in X => g[<<x, i>>] = next(x, i)
  <2>1. <<x, i>> \in X \X Nat
    OBVIOUS
  <2>2. g[<<x, i>>] = IF next(x, i) \in X THEN next(x, i) ELSE x
    BY <2>1
  <2> HIDE DEF g, next, X
  <2> QED BY <2>2
<1> HIDE DEF g
<1>4. PICK f \in [0 .. Len(q) -> X] : Iterate(f, t, g, Len(q))
  <2>1. t \in X /\ StaysIn(g, X)
    BY <1>2, <1>3 DEF StaysIn
  <2> HIDE DEF X
  <2> QED BY <1>1, <2>1, Iterates
<1> DEFINE Done(i) == /\ Good(f[i], s, c + i) /\ f[i].utf8_pending = t.utf8_pending
                      /\ i > 0 => f[i] = next(f[i - 1], i)
           S == {i \in Nat : i <= Len(q) => Done(i)}
<1>5. 0 \in S
  <2>1. f[0] = t /\ c + 0 = c
    BY <1>4 DEF Iterate
  <2>2. Done(0)
    BY <2>1
  <2> QED BY <2>2
<1>6. ASSUME NEW i \in Nat, i \in S PROVE i + 1 \in S
  <2> SUFFICES ASSUME i + 1 <= Len(q) PROVE Done(i + 1)
    OBVIOUS
  <2>1. i <= Len(q) /\ i + 1 \in 1 .. Len(q) /\ (i + 1) - 1 = i /\ c + (i + 1) = (c + i) + 1
        /\ c + i \in Nat /\ c + i < Len(s) /\ i \in 0 .. Len(q)
    BY <1>1
  <2>2. Good(f[i], s, c + i) /\ f[i].utf8_pending = t.utf8_pending
    BY <1>6, <2>1
  <2>3. f[i + 1] = g[<<f[i], i + 1>>]
    BY <1>4, <2>1 DEF Iterate
  <2>4. next(f[i], i + 1) = FilterByte(f[i], s[(c + i) + 1])
    BY <1>1, <2>1
  <2>5. Good(next(f[i], i + 1), s, (c + i) + 1)
    BY <2>1, <2>2, <2>4, FilterStep
  <2>6. f[i] \in X /\ next(f[i], i + 1) \in X
    BY <2>2, <2>5 DEF Good
  <2>7. next(f[i], i + 1).utf8_pending = f[i].utf8_pending
    BY <2>6, FilterHolds
  <2>8. f[i + 1] = next(f[i], i + 1)
    <3> HIDE DEF next, X
    <3>1. i + 1 \in Nat
      OBVIOUS
    <3> QED BY <1>3, <2>3, <2>6, <3>1
  <2> HIDE DEF next
  <2> QED BY <2>1, <2>2, <2>5, <2>7, <2>8
<1> HIDE DEF S
<1>7. \A i \in Nat : i <= Len(q) => Done(i)
  <2>1. Nat \subseteq S
    BY <1>5, <1>6, SetInduction
  <2> HIDE DEF Done
  <2> QED BY <2>1 DEF S
<1>8. f[0] = t /\ \A i \in 1 .. Len(q) : f[i] = next(f[i - 1], i)
  <2>1. \A i \in 1 .. Len(q) : i \in Nat /\ i <= Len(q) /\ i > 0
    BY <1>1
  <2> HIDE DEF next
  <2> QED BY <1>4, <1>7, <2>1 DEF Iterate
<1>50. \A w, i : ValueOf({FilterByte(v, q[i]) : v \in {w}}) = next(w, i)
  BY DEF ValueOf
<1>9. Eq(f)
  <2>1. ASSUME NEW i \in 0 .. Len(q)
        PROVE  f[i] = IF i = 0 THEN t ELSE ValueOf({FilterByte(v, q[i]) : v \in {f[i - 1]}})
    <3>1. CASE i = 0
      BY <1>8, <3>1
    <3>2. CASE i # 0
      <4>1. i \in 1 .. Len(q)
        BY <1>1, <3>2
      <4> HIDE DEF next
      <4> QED BY <1>8, <1>50, <3>2, <4>1
    <3> QED BY <3>1, <3>2
  <2>2. DOMAIN f = 0 .. Len(q) /\ f = [i \in DOMAIN f |-> f[i]]
    BY <1>4
  <2> QED BY <2>1, <2>2
<1>10. u = F[Len(q)]
  BY ZenonT(60) DEF OnEach, Filtered, q
<1>11. Eq(F)
  <2> HIDE DEF Eq
  <2> QED BY <1>9
<1> HIDE DEF F
<1>12. \A i \in 0 .. Len(q) : F[i] = IF i = 0 THEN t ELSE next(F[i - 1], i)
  <2>1. \A i \in 0 .. Len(q) :
          F[i] = IF i = 0 THEN t ELSE ValueOf({FilterByte(v, q[i]) : v \in {F[i - 1]}})
    BY <1>11
  <2> HIDE DEF next
  <2> QED BY <1>50, <2>1
<1>13. \A i \in Nat : i <= Len(q) => F[i] = f[i]
  <2> DEFINE R == {i \in Nat : i <= Len(q) => F[i] = f[i]}
  <2>1. 0 \in R
    BY <1>1, <1>8, <1>12
  <2>2. ASSUME NEW i \in Nat, i \in R PROVE i + 1 \in R
    <3> SUFFICES ASSUME i + 1 <= Len(q) PROVE F[i + 1] = f[i + 1]
      OBVIOUS
    <3>1. F[i] = f[i] /\ i + 1 \in 1 .. Len(q) /\ i + 1 \in 0 .. Len(q) /\ i + 1 # 0 /\ (i + 1) - 1 = i
      BY <1>1, <2>2
    <3> HIDE DEF next
    <3> QED BY <1>8, <1>12, <3>1
  <2> HIDE DEF R
  <2>3. Nat \subseteq R
    BY <2>1, <2>2, SetInduction
  <2> QED BY <2>3 DEF R
<1>14. Done(Len(q)) /\ F[Len(q)] = f[Len(q)] /\ c + Len(q) = d
  <2>1. Len(q) \in Nat /\ Len(q) <= Len(q) /\ c + Len(q) = d
    BY <1>1
  <2> HIDE DEF Done
  <2> QED BY <1>7, <1>13, <2>1
<1> QED BY <1>10, <1>14 DEF q

\* what a filter state shows of a script: not the bytes held back, nor what the
\* parser has made of the rest
LEMMA GoodShows ==
  ASSUME NEW s, NEW k, NEW t, Good(t, s, k), NEW u \in Terms,
         u.apc_state = t.apc_state, u.is_kitty = t.is_kitty, u.seen_first = t.seen_first,
         u.apc_accum = t.apc_accum, ~u.split, Outcome(u) = Outcome(t),
         u.passthrough = t.passthrough \/ u.passthrough = <<>>
  PROVE  Good(u, s, k)
<1>1. \A i : Goes(t, s, k, i) => Goes(u, s, k, i)
  BY DEF Goes
<1>2. Dangling(u, s, k)
  BY DEF Dangling, Good
<1>3. \A i : ApcFrom(t, s, k, i) => ApcFrom(u, s, k, i)
  BY <1>1 DEF ApcFrom
<1> QED BY <1>1, <1>2, <1>3 DEF Good

\* The batch is handed to the parser only where no codepoint is cut.
LEMMA FlushGood ==
  ASSUME NEW s \in Seq(Byte), NEW k \in Nat, NEW t, Good(t, s, k), Boundary(s, k)
  PROVE  Good(Flushed(t), s, k) /\ Flushed(t).passthrough = <<>>
         /\ Flushed(t).utf8_pending = t.utf8_pending
<1> DEFINE u == Flushed(t)
           q == t.passthrough
           m == Len(q)
<1>1. t \in Terms /\ ~t.split
  BY DEF Good
<1>2. /\ u \in Terms /\ u.log = Outcome(t) /\ SameFilter(t, u) /\ u.passthrough = <<>>
      /\ (u.split <=> t.split \/ EndsInside(q))
  BY <1>1, FlushIs DEF Outcome
<1>3. ~EndsInside(q)
  <2> SUFFICES ASSUME NEW i \in 1 .. m, i + Needed(q[i]) - 1 > m PROVE FALSE
    BY DEF EndsInside
  <2> DEFINE j == k - (m - i)
             w == Needed(q[i])
  <2>1. j >= 1 /\ s[j] = q[i]
    BY DEF Good, Dangling
  <2>2. m \in Nat /\ w \in Nat /\ i + w - 1 > m
    <3>1. q \in Seq(Byte)
      BY <1>1 DEF Terms
    <3>2. w \in Nat /\ i + w - 1 > m
      BY NeededIs
    <3> QED BY <3>1, <3>2
  <2> HIDE DEF m, w
  <2>3. /\ j >= 1 => j \in Nat /\ j < k + 1
        /\ i + w - 1 > m => k + 1 < j + w
    BY <2>2, Shift
  <2>4. j \in Nat /\ j < k + 1 /\ k + 1 < j + w /\ j >= 1
    BY <2>1, <2>2, <2>3
  <2> HIDE DEF j
  <2>5. j \in 1 .. k /\ ~(j + w - 1 <= k)
    BY <2>2, <2>4
  <2>6. w = Needed(s[j])
    BY <2>1 DEF w
  <2> QED BY <2>5, <2>6 DEF Boundary
<1> HIDE DEF u
<1>4. Outcome(u) = Outcome(t)
  BY <1>2, OutcomeIn
<1>5. Good(u, s, k)
  BY <1>1, <1>2, <1>3, <1>4, GoodShows DEF SameFilter
<1> QED BY <1>2, <1>5 DEF u, SameFilter

\* what has been handed on is what the first k bytes mean
LEMMA LogIs ==
  ASSUME NEW s \in Seq(Byte), NEW k \in Nat, k <= Len(s), NEW t, Good(t, s, k),
         t.passthrough = <<>>
  PROVE  t.log = Meaning(SubSeq(s, 1, k))
<1>1. t \in Terms
  BY DEF Good
<1>2. Outcome(t) = t.log /\ t.log \in Out
  BY <1>1, OutcomeIn
<1>3. SubSeq(s, 1, k) \in Seq(Byte)
  <2>1. 1 \in 1 .. Len(s) + 1
    OBVIOUS
  <2> QED BY <2>1, Part
<1>4. PICK f : Means(f, SubSeq(s, 1, k)) /\ Meaning(SubSeq(s, 1, k)) = f[1]
  BY <1>3, MeaningIs
<1>5. MeansTo(f, s, k) /\ k <= k
  BY <1>4 DEF MeansTo
<1>6. \A i : Goes(t, s, k, i) /\ f[i] = <<>> => t.log = f[1]
  <2> TAKE i
  <2> HAVE Goes(t, s, k, i) /\ f[i] = <<>>
  <2>1. Outcome(t) \o f[i] = f[1]
    BY <1>5 DEF Goes
  <2>2. t.log \o <<>> = t.log
    BY <1>2, JoinedNothing
  <2> QED BY <1>2, <2>1, <2>2
<1>7. \A i \in 1 .. k + 1 : MeansAt(s, k, i, f[i], f)
  BY <1>5, PrefixMeans
<1>8. CASE t.apc_state = "Normal"
  <2>1. k + 1 \in 1 .. k + 1
    OBVIOUS
  <2>2. f[k + 1] = <<>>
    BY <1>7, <2>1 DEF MeansAt
  <2> QED BY <1>4, <1>6, <1>8, <2>2 DEF Good
<1>9. CASE t.apc_state = "Esc"
  <2>1. k >= 1 /\ s[k] = "esc" /\ Goes(t, s, k, k)
    BY <1>9 DEF Good
  <2>2. k \in 1 .. k + 1
    BY <2>1
  <2>3. f[k] = <<>>
    BY <1>7, <2>1, <2>2 DEF MeansAt
  <2> QED BY <1>4, <1>6, <2>1, <2>3
<1>10. CASE t.apc_state \in {"Apc", "ApcEsc"}
  <2>1. PICK i : ApcFrom(t, s, k, i)
    BY <1>10 DEF Good
  <2>2. /\ i \in 1 .. k - 1 /\ s[i] = "esc" /\ s[i + 1] = "_" /\ Open(s, i, k)
        /\ Goes(t, s, k, i)
    BY <2>1 DEF ApcFrom
  <2>5. i \in 1 .. k - 1
    BY <2>1 DEF ApcFrom
  <2>3. i \in 1 .. k + 1 /\ i < k
    BY ONLY <2>5, k \in Nat
  <2>4. f[i] = <<>>
    BY <1>7, <2>2, <2>3 DEF MeansAt
  <2> QED BY <1>4, <1>6, <2>2, <2>4
<1>11. t.apc_state \in {"Normal", "Esc", "Apc", "ApcEsc"}
  BY <1>1 DEF Terms
<1> QED BY <1>8, <1>9, <1>10, <1>11

-----------------------------------------------------------------------------
(* The terminal, one chunk after the other.                                *)

\* The greatest number is one that no other exceeds.
LEMMA MaxIs ==
  ASSUME NEW T, T \subseteq Nat, NEW m \in T, \A k \in T : k <= m
  PROVE  Max(T) = m
<1>1. \E x \in T : \A y \in T : x >= y
  BY SMT
<1>2. Max(T) \in T /\ \A y \in T : Max(T) >= y
  BY <1>1 DEF Max
<1> DEFINE x == Max(T)
<1>3. x \in Nat /\ x >= m /\ x <= m /\ m \in Nat
  BY <1>2
<1> HIDE DEF x
<1>4. x = m
  BY <1>3
<1> QED BY <1>4 DEF x

\* b is the last boundary of a codepoint up to d
LastBoundary(s, b, d) == /\ b \in Nat /\ b <= d /\ Boundary(s, b)
                 /\ \A k \in b + 1 .. d : ~Boundary(s, k)

\* Whole cuts at the last boundary.
LEMMA LastWhole ==
  ASSUME NEW s \in Seq(Byte), NEW d \in Nat, d <= Len(s), NEW b, LastBoundary(s, b, d)
  PROVE  Whole(SubSeq(s, 1, d)) = SubSeq(s, 1, b)
<1> DEFINE p == SubSeq(s, 1, d)
           T == {k \in 0 .. Len(p) : \A i \in 1 .. k : i + Needed(p[i]) - 1 <= k}
<1>0. b \in Nat /\ b <= d /\ Boundary(s, b) /\ \A k \in b + 1 .. d : ~Boundary(s, k)
  BY DEF LastBoundary
<1>1. Len(p) = d /\ \A i \in 1 .. d : p[i] = s[i]
  <2>1. 1 \in 1 .. Len(s) + 1 /\ d - 1 + 1 = d /\ (IF 1 <= d THEN d - 1 + 1 ELSE 0) = d
        /\ \A i \in 1 .. d : 1 + i - 1 = i
    OBVIOUS
  <2>2. /\ Len(p) = (IF 1 <= d THEN d - 1 + 1 ELSE 0)
        /\ \A i \in 1 .. d - 1 + 1 : p[i] = s[1 + i - 1]
    BY <2>1, Part
  <2> HIDE DEF p
  <2> QED BY <2>1, <2>2
<1>2. SubSeq(p, 1, b) = SubSeq(s, 1, b)
  <2>1. 1 \in 1 .. Len(s) + 1 /\ 1 \in Nat \ {0} /\ 1 + b <= d + 1 /\ 1 + 1 <= d + 2
        /\ 1 + 1 - 1 = 1 /\ 1 + b - 1 = b
    BY <1>0
  <2>2. SubSeq(p, 1, b) = SubSeq(s, 1 + 1 - 1, 1 + b - 1)
    BY <1>0, <2>1, PartOfPart
  <2> QED BY <2>1, <2>2
<1> HIDE DEF p
<1>3. \A k \in 0 .. d : k \in T <=> Boundary(s, k)
  <2> TAKE k \in 0 .. d
  <2>1. \A i \in 1 .. k : p[i] = s[i]
    BY <1>1
  <2> QED BY <1>1, <2>1 DEF Boundary
<1>4. b \in T /\ T \subseteq Nat
  BY <1>0, <1>1, <1>3
<1>5. \A k \in T : k <= b
  <2> TAKE k \in T
  <2>1. k \in 0 .. d
    BY <1>1
  <2>2. Boundary(s, k)
    BY <1>3, <2>1
  <2>3. k \notin b + 1 .. d
    BY <1>0, <2>2
  <2> HIDE DEF T
  <2> QED BY <1>0, <2>1, <2>3
<1>6. Max(T) = b
  <2> HIDE DEF T
  <2> QED BY <1>4, <1>5, MaxIs
<1>7. Whole(p) = SubSeq(p, 1, Max(T))
  BY DEF Whole
<1> QED BY <1>2, <1>6, <1>7 DEF p

\* a chunk is cut at the last boundary in it
LEMMA TailIsLast ==
  ASSUME NEW s \in Seq(Byte), Text(s), NEW c \in Nat, NEW d \in Nat, c <= d, d <= Len(s),
         Boundary(s, c)
  PROVE  LET cut == utf8_tail_boundary(SubSeq(s, c + 1, d))
         IN  cut \in Nat /\ LastBoundary(s, c + cut, d)
<1> DEFINE x == SubSeq(s, c + 1, d)
           n == Len(x)
           small == IF n < 3 THEN n ELSE 3
           T == {k \in 0 .. small : \A i \in n - k + 1 .. n : IsCont(x[i])}
           cont == Max(T)
           L == n - cont
           cut == IF cont < n /\ Needed(x[L]) > cont + 1 THEN L - 1 ELSE n
<1>1. n = d - c /\ n \in Nat /\ \A i \in 1 .. n : x[i] = s[c + i]
  <2>1. c + 1 \in 1 .. Len(s) + 1 /\ (IF c + 1 <= d THEN d - (c + 1) + 1 ELSE 0) = d - c
        /\ d - (c + 1) + 1 = d - c /\ d - c \in Nat
    OBVIOUS
  <2>2. /\ Len(x) = (IF c + 1 <= d THEN d - (c + 1) + 1 ELSE 0)
        /\ \A i \in 1 .. d - (c + 1) + 1 : x[i] = s[c + 1 + i - 1]
    BY <2>1, Part
  <2>3. \A i \in 1 .. d - c : c + 1 + i - 1 = c + i
    OBVIOUS
  <2> HIDE DEF x
  <2> QED BY <2>1, <2>2, <2>3
<1>2. utf8_tail_boundary(x) = cut
  BY DEF utf8_tail_boundary
<1> HIDE DEF x, n
<1>3. small \in Nat /\ small <= n /\ small <= 3
  BY <1>1
<1> HIDE DEF small
<1>4. cont \in T /\ \A k \in T : k <= cont
  <2>1. T \subseteq Nat /\ \A k \in T : k <= small
    BY <1>3
  <2>2. 0 \in T
    BY <1>1, <1>3
  <2> HIDE DEF T
  <2>3. PICK m \in T : \A k \in T : k <= m
    BY <1>3, <2>1, <2>2, GreatestNat
  <2>4. Max(T) = m
    BY <2>1, <2>3, MaxIs
  <2> QED BY <2>3, <2>4
<1>5. cont \in Nat /\ cont <= n /\ \A i \in n - cont + 1 .. n : IsCont(x[i])
  <2> HIDE DEF cont
  <2>1. cont \in 0 .. small /\ \A i \in n - cont + 1 .. n : IsCont(x[i])
    BY <1>4
  <2> QED BY <1>1, <1>3, <2>1
<1>6. \A k \in T : k <= cont
  BY <1>4
<1> HIDE DEF cont
<1>7. \A i \in 1 .. c : i + Needed(s[i]) - 1 <= c
  BY DEF Boundary
<1>70. \A i, j \in 1 .. Len(s) : i < j /\ j < i + Needed(s[i]) => IsCont(s[j])
  BY DEF Text
<1>71. \A i : Needed(s[i]) \in 1 .. 3
  BY NeededIs
<1>8. CASE cont < n /\ Needed(x[L]) > cont + 1
  <2> DEFINE e == c + L
             w == Needed(s[e])
  <2>1. /\ cut = L - 1 /\ L \in 1 .. n /\ x[L] = s[e] /\ e \in c + 1 .. d
    BY <1>1, <1>5, <1>8
  <2>2. w > cont + 1 /\ c + cut = e - 1 /\ e + cont = d /\ cut \in Nat
    BY <1>1, <1>5, <1>8, <2>1
  <2>20. w \in Nat
    BY <1>71
  <2>3. ~IsCont(s[e])
    <3>1. IsCont(s[e]) => w = 1
      BY DEF IsCont, Needed
    <3> HIDE DEF w
    <3> QED BY <1>5, <2>2, <3>1
  <2> HIDE DEF e, cut
  <2>4. Boundary(s, e - 1)
    <3> SUFFICES ASSUME NEW i \in 1 .. e - 1, ~(i + Needed(s[i]) - 1 <= e - 1) PROVE FALSE
      BY DEF Boundary
    <3> DEFINE v == Needed(s[i])
    <3>1. v \in Nat /\ ~(i + v - 1 <= e - 1) /\ i \in Nat
      BY <1>71
    <3>2. i \in 1 .. c => i + v - 1 <= c
      BY <1>7
    <3> HIDE DEF v
    <3>3. i \notin 1 .. c
      BY <2>1, <3>1, <3>2
    <3>4. i \in 1 .. Len(s) /\ e \in 1 .. Len(s) /\ i < e /\ e < i + v
      BY <2>1, <3>1
    <3>5. IsCont(s[e])
      BY <1>70, <3>4 DEF v
    <3> QED BY <2>3, <3>5
  <2>5. \A k \in (e - 1) + 1 .. d : ~Boundary(s, k)
    <3> TAKE k \in (e - 1) + 1 .. d
    <3> HIDE DEF w
    <3>1. e \in 1 .. k /\ ~(e + w - 1 <= k)
      BY <1>5, <2>1, <2>2, <2>20
    <3> QED BY <3>1 DEF Boundary, w
  <2>6. e - 1 \in Nat /\ e - 1 <= d
    BY <2>1
  <2>7. LastBoundary(s, e - 1, d)
    BY <2>4, <2>5, <2>6 DEF LastBoundary
  <2> QED BY <1>2, <2>2, <2>7 DEF x
<1>9. CASE ~(cont < n /\ Needed(x[L]) > cont + 1)
  <2>1. cut = n /\ c + cut = d
    BY <1>1, <1>9
  <2>2. Boundary(s, d)
    <3> SUFFICES ASSUME NEW i \in 1 .. d, ~(i + Needed(s[i]) - 1 <= d) PROVE FALSE
      BY DEF Boundary
    <3> DEFINE v == Needed(s[i])
               h == i - c
    <3>1. v \in 1 .. 3 /\ ~(i + v - 1 <= d) /\ i \in Nat
      BY <1>71
    <3>2. i \in 1 .. c => i + v - 1 <= c
      BY <1>7
    <3>9. \A j \in 1 .. Len(s) : i \in 1 .. Len(s) /\ i < j /\ j < i + v => IsCont(s[j])
      BY <1>70
    <3>10. IsCont(s[i]) => v = 1
      BY DEF IsCont, Needed
    <3> HIDE DEF v
    <3>3. i \notin 1 .. c
      BY <3>1, <3>2
    <3>4. h \in 1 .. n /\ i = c + h /\ n - h <= 1
      BY <1>1, <3>1, <3>3
    <3>5. \A j \in i + 1 .. d : IsCont(s[j])
      <4> TAKE j \in i + 1 .. d
      <4>1. j \in 1 .. Len(s) /\ i \in 1 .. Len(s) /\ i < j /\ j < i + v
        BY <3>1
      <4> QED BY <3>9, <4>1
    <3>6. ~IsCont(s[i])
      BY <3>1, <3>10
    <3> HIDE DEF h
    <3>7. n - h \in T
      <4>1. n - h \in 0 .. small
        BY <1>1, <3>4 DEF small
      <4>2. \A j \in n - (n - h) + 1 .. n : IsCont(x[j])
        <5> TAKE j \in n - (n - h) + 1 .. n
        <5>3. n - (n - h) = h
          BY <1>1, <3>4
        <5>4. j \in h + 1 .. n
          BY <5>3
        <5>1. j \in 1 .. n /\ c + j \in i + 1 .. d
          BY <1>1, <3>4, <5>4
        <5>2. x[j] = s[c + j] /\ IsCont(s[c + j])
          BY <1>1, <3>5, <5>1
        <5> QED BY <5>2
      <4> QED BY <4>1, <4>2
    <3>8. n - h <= cont
      BY <1>6, <3>7
    <3>11. cont = n - h
      <4> SUFFICES ASSUME cont # n - h PROVE FALSE
        OBVIOUS
      <4>1. h \in n - cont + 1 .. n
        BY <1>1, <1>5, <3>4, <3>8
      <4>2. IsCont(x[h]) /\ x[h] = s[i]
        BY <1>1, <1>5, <3>4, <4>1
      <4> QED BY <3>6, <4>2
    <3>12. L = h /\ cont < n /\ x[L] = s[i]
      BY <1>1, <1>5, <3>4, <3>11
    <3>13. v > cont + 1
      BY <1>1, <3>1, <3>4, <3>11
    <3> QED BY <1>9, <3>12, <3>13 DEF v
  <2>3. \A k \in d + 1 .. d : ~Boundary(s, k)
    OBVIOUS
  <2>4. LastBoundary(s, d, d)
    BY <2>2, <2>3 DEF LastBoundary
  <2>5. cut \in Nat
    BY <1>1, <2>1
  <2> HIDE DEF cut
  <2> QED BY <1>2, <2>1, <2>4, <2>5 DEF x
<1> QED BY <1>8, <1>9

\* The terminal has the first p bytes of s: those up to the last boundary are
\* through the filter, the others are held back.
Tracks(t, s, p) ==
  /\ t.passthrough = <<>>
  /\ \E c \in 0 .. p : /\ LastBoundary(s, c, p) /\ Good(t, s, c)
                       /\ t.utf8_pending = SubSeq(s, c + 1, p)

\* Such a terminal is what ChunksInvisible asks for.
LEMMA TracksMeaning ==
  ASSUME NEW s \in Seq(Byte), NEW p \in Nat, p <= Len(s), NEW t, Tracks(t, s, p)
  PROVE  ~t.split /\ t.log = Meaning(Whole(SubSeq(s, 1, p)))
<1>1. PICK c \in 0 .. p : LastBoundary(s, c, p) /\ Good(t, s, c)
  BY DEF Tracks
<1>2. c \in Nat /\ c <= Len(s) /\ t.passthrough = <<>>
  BY DEF Tracks
<1>3. t.log = Meaning(SubSeq(s, 1, c))
  BY <1>1, <1>2, LogIs
<1>4. Whole(SubSeq(s, 1, p)) = SubSeq(s, 1, c)
  BY <1>1, LastWhole
<1> QED BY <1>1, <1>3, <1>4 DEF Good

\* Neighbouring parts make one part.
LEMMA PartsJoin ==
  ASSUME NEW S, NEW s \in Seq(S), NEW c \in Nat, NEW p \in Nat, NEW d \in Nat,
         c <= p, p <= d, d <= Len(s)
  PROVE  SubSeq(s, c + 1, p) \o SubSeq(s, p + 1, d) = SubSeq(s, c + 1, d)
<1> DEFINE x == SubSeq(s, c + 1, p)
           y == SubSeq(s, p + 1, d)
           z == SubSeq(s, c + 1, d)
           v == x \o y
<1>1. ASSUME NEW a \in Nat, NEW b \in Nat, a <= b, b <= Len(s)
      PROVE  /\ SubSeq(s, a + 1, b) \in Seq(S) /\ Len(SubSeq(s, a + 1, b)) = b - a
             /\ \A i \in 1 .. b - a : SubSeq(s, a + 1, b)[i] = s[a + i]
  <2> DEFINE q == SubSeq(s, a + 1, b)
  <2>1. a + 1 \in 1 .. Len(s) + 1 /\ (IF a + 1 <= b THEN b - (a + 1) + 1 ELSE 0) = b - a
        /\ b - (a + 1) + 1 = b - a /\ b - a \in Nat
    BY <1>1
  <2>2. /\ q \in Seq(S) /\ Len(q) = (IF a + 1 <= b THEN b - (a + 1) + 1 ELSE 0)
        /\ \A i \in 1 .. b - (a + 1) + 1 : q[i] = s[a + 1 + i - 1]
    BY <1>1, <2>1, Part
  <2>3. \A i \in 1 .. b - a : a + 1 + i - 1 = a + i
    OBVIOUS
  <2> HIDE DEF q
  <2>4. /\ q \in Seq(S) /\ Len(q) = b - a
        /\ \A i \in 1 .. b - a : q[i] = s[a + i]
    BY <2>1, <2>2, <2>3
  <2> QED BY <2>4 DEF q
<1>2. x \in Seq(S) /\ Len(x) = p - c /\ \A i \in 1 .. p - c : x[i] = s[c + i]
  <2>1. p <= Len(s)
    OBVIOUS
  <2> QED BY <1>1, <2>1
<1>3. y \in Seq(S) /\ Len(y) = d - p /\ \A i \in 1 .. d - p : y[i] = s[p + i]
  BY <1>1
<1>4. z \in Seq(S) /\ Len(z) = d - c /\ \A i \in 1 .. d - c : z[i] = s[c + i]
  <2>1. c <= d
    OBVIOUS
  <2> QED BY <1>1, <2>1
<1> HIDE DEF x, y, z
<1>5. /\ v \in Seq(S) /\ Len(v) = Len(x) + Len(y)
      /\ \A i \in 1 .. Len(x) + Len(y) : v[i] = IF i <= Len(x) THEN x[i] ELSE y[i - Len(x)]
  BY <1>2, <1>3, ConcatProperties
<1> HIDE DEF v
<1>6. Len(v) = Len(z) /\ Len(v) = d - c
  BY <1>2, <1>3, <1>4, <1>5
<1>7. ASSUME NEW i \in 1 .. Len(v) PROVE v[i] = z[i]
  <2>1. i \in 1 .. d - c /\ i \in 1 .. Len(x) + Len(y)
    BY <1>2, <1>3, <1>6
  <2>2. z[i] = s[c + i]
    BY <1>4, <2>1
  <2>3. CASE i <= p - c
    <3>1. i \in 1 .. p - c /\ i <= Len(x)
      BY <1>2, <2>1, <2>3
    <3>2. v[i] = x[i] /\ x[i] = s[c + i]
      BY <1>2, <1>5, <2>1, <3>1
    <3> QED BY <2>2, <3>2
  <2>4. CASE ~(i <= p - c)
    <3>1. i - (p - c) \in 1 .. d - p /\ ~(i <= Len(x)) /\ p + (i - (p - c)) = c + i
      BY <1>2, <2>1, <2>4
    <3>2. v[i] = y[i - (p - c)]
      BY <1>2, <1>5, <2>1, <3>1
    <3>3. y[i - (p - c)] = s[p + (i - (p - c))]
      BY <1>3, <3>1
    <3> QED BY <2>2, <3>1, <3>2, <3>3
  <2> QED BY <2>3, <2>4
<1>8. v = z
  BY <1>4, <1>5, <1>6, <1>7, SeqEqual
<1> QED BY <1>8 DEF v, x, y, z

\* advance on the bytes from p to d
LEMMA AdvanceTracks ==
  ASSUME NEW s \in Seq(Byte), Text(s), NEW p \in Nat, NEW d \in Nat, p <= d, d <= Len(s),
         NEW t, Tracks(t, s, p)
  PROVE  Tracks(advance(t, SubSeq(s, p + 1, d)), s, d)
<1>1. PICK c \in 0 .. p : /\ LastBoundary(s, c, p) /\ Good(t, s, c)
                          /\ t.utf8_pending = SubSeq(s, c + 1, p)
  BY DEF Tracks
<1>2. c \in Nat /\ c <= p /\ c <= d /\ Boundary(s, c)
  BY <1>1 DEF LastBoundary
<1> DEFINE combined == t.utf8_pending \o SubSeq(s, p + 1, d)
           cut == utf8_tail_boundary(combined)
           rest == SubSeq(combined, cut + 1, Len(combined))
           v == [t EXCEPT !.utf8_pending = rest]
           filtered == OnEach(FilterByte, v, SubSeq(combined, 1, cut))
           u == advance(t, SubSeq(s, p + 1, d))
           e == c + cut
<1>3. combined = SubSeq(s, c + 1, d)
  BY <1>1, <1>2, PartsJoin
<1>4. u = Flushed(filtered)
  <2>1. u = ValueOf({Flushed(w) : w \in {filtered}})
    BY DEF advance
  <2>2. \A w : ValueOf({Flushed(y) : y \in {w}}) = Flushed(w)
    BY DEF ValueOf
  <2> HIDE DEF filtered
  <2> QED BY <2>1, <2>2
<1> HIDE DEF combined
<1>5. cut \in Nat /\ LastBoundary(s, e, d)
  BY <1>2, <1>3, TailIsLast
<1>6. Len(combined) = d - c
  <2>1. c + 1 \in 1 .. Len(s) + 1 /\ (IF c + 1 <= d THEN d - (c + 1) + 1 ELSE 0) = d - c
    BY <1>2
  <2>2. Len(combined) = (IF c + 1 <= d THEN d - (c + 1) + 1 ELSE 0)
    BY <1>3, <2>1, Part
  <2> QED BY <2>1, <2>2
<1> HIDE DEF cut
<1>7. e \in Nat /\ e <= d /\ Boundary(s, e)
  BY <1>5 DEF LastBoundary
<1>8. rest = SubSeq(s, e + 1, d) /\ SubSeq(combined, 1, cut) = SubSeq(s, c + 1, e)
  <2>1. ASSUME NEW a \in Nat \ {0}, NEW b \in Nat, c + 1 + b <= d + 1, c + 1 + a <= d + 2
        PROVE  SubSeq(combined, a, b) = SubSeq(s, c + 1 + a - 1, c + 1 + b - 1)
    <3>1. c + 1 \in 1 .. Len(s) + 1
      BY <1>2
    <3> QED BY <1>3, <2>1, <3>1, PartOfPart
  <2>2. /\ cut + 1 \in Nat \ {0} /\ d - c \in Nat /\ c + 1 + (d - c) <= d + 1 /\ c + 1 + (cut + 1) <= d + 2
        /\ c + 1 + (cut + 1) - 1 = e + 1 /\ c + 1 + (d - c) - 1 = d
    BY <1>2, <1>5, <1>7
  <2>3. rest = SubSeq(s, e + 1, d)
    <3>1. SubSeq(combined, cut + 1, d - c) = SubSeq(s, c + 1 + (cut + 1) - 1, c + 1 + (d - c) - 1)
      BY <2>1, <2>2
    <3> QED BY <1>6, <2>2, <3>1
  <2>4. 1 \in Nat \ {0} /\ c + 1 + cut <= d + 1 /\ c + 1 + 1 <= d + 2 /\ c + 1 + 1 - 1 = c + 1 /\ c + 1 + cut - 1 = e
    BY <1>2, <1>5, <1>7
  <2>5. SubSeq(combined, 1, cut) = SubSeq(s, c + 1 + 1 - 1, c + 1 + cut - 1)
    BY <1>5, <2>1, <2>4
  <2> QED BY <2>3, <2>4, <2>5
<1>9. rest \in Seq(Byte)
  <2>1. e + 1 \in 1 .. Len(s) + 1
    BY <1>7
  <2> QED BY <1>8, <2>1, Part
<1> HIDE DEF rest
<1>10. Good(v, s, c) /\ v.utf8_pending = rest
  <2>1. t \in Terms /\ ~t.split
    BY <1>1 DEF Good
  <2>2. /\ v \in Terms /\ v.utf8_pending = rest /\ v.apc_state = t.apc_state
        /\ v.is_kitty = t.is_kitty /\ v.seen_first = t.seen_first /\ v.apc_accum = t.apc_accum
        /\ v.split = t.split /\ v.log = t.log /\ v.passthrough = t.passthrough
    BY <1>9, <2>1 DEF Terms
  <2> HIDE DEF v
  <2>3. Outcome(v) = Outcome(t)
    BY <2>2 DEF Outcome
  <2> QED BY <1>1, <2>1, <2>2, <2>3, GoodShows
<1> HIDE DEF v
<1>11. Good(filtered, s, e) /\ filtered.utf8_pending = rest
  <2>1. c <= e /\ e <= Len(s)
    BY <1>2, <1>5, <1>7
  <2>2. e \in Nat
    BY <1>7
  <2>3. c \in Nat
    BY <1>2
  <2>4. filtered = Filtered(v, SubSeq(s, c + 1, e))
    BY <1>8, Zenon DEF Filtered
  <2>5. Good(v, s, c) /\ c <= e /\ e <= Len(s)
    BY <1>10, <2>1
  <2> HIDE DEF e, filtered
  <2>6. Good(filtered, s, e) /\ filtered.utf8_pending = v.utf8_pending
    BY <2>2, <2>3, <2>4, <2>5, FilterAll
  <2> QED BY <1>10, <2>6
<1> HIDE DEF filtered
<1>12. Good(u, s, e) /\ u.passthrough = <<>> /\ u.utf8_pending = rest
  BY <1>4, <1>7, <1>11, FlushGood
<1>13. e \in 0 .. d
  BY <1>7
<1> HIDE DEF e, u
<1>14. Tracks(u, s, d)
  BY <1>5, <1>8, <1>12, <1>13 DEF Tracks
<1> QED BY <1>14 DEF u

\* a terminal that has nothing yet
LEMMA TracksNothing ==
  ASSUME NEW s \in Seq(Byte)
  PROVE  Tracks(Terminal_new, s, 0)
<1> DEFINE t == Terminal_new
<1>0. <<>> \in Seq(Byte) /\ <<>> \in Out
  BY EmptySeq DEF Out
<1>1. /\ t \in Terms /\ t.passthrough = <<>> /\ t.utf8_pending = <<>> /\ t.log = <<>>
      /\ ~t.split /\ t.apc_state = "Normal"
  BY <1>0 DEF Terminal_new, Terms
<1> HIDE DEF t
<1>2. Outcome(t) = <<>>
  BY <1>1, OutcomeIn
<1>3. Goes(t, s, 0, 0 + 1)
  <2> SUFFICES ASSUME NEW n \in Nat, NEW f, n <= Len(s), MeansTo(f, s, n)
               PROVE  <<>> \o f[1] = f[1]
    BY <1>2 DEF Goes
  <2>1. 1 \in 1 .. n + 1
    OBVIOUS
  <2>2. f[1] \in Seq(Seq(Byte))
    BY <2>1, PrefixMeans DEF Out
  <2> QED BY <2>2, ConcatEmptySeq
<1>4. Dangling(t, s, 0)
  BY <1>1 DEF Dangling
<1>5. Good(t, s, 0)
  BY <1>1, <1>3, <1>4 DEF Good
<1>6. LastBoundary(s, 0, 0)
  BY DEF LastBoundary, Boundary
<1>7. SubSeq(s, 0 + 1, 0) = <<>>
  <2>1. 0 + 1 \in 1 .. Len(s) + 1 /\ 0 <= Len(s) /\ ~(0 + 1 <= 0)
    OBVIOUS
  <2>2. SubSeq(s, 0 + 1, 0) \in Seq(Byte) /\ Len(SubSeq(s, 0 + 1, 0)) = 0
    BY <2>1, Part
  <2> QED BY <2>2, EmptySeq
<1>8. 0 \in 0 .. 0
  OBVIOUS
<1>9. Tracks(t, s, 0)
  BY <1>1, <1>5, <1>6, <1>7, <1>8 DEF Tracks
<1> QED BY <1>9 DEF t

\* the UI takes the replies
LEMMA TracksReplies ==
  ASSUME NEW s, NEW p, NEW t, Tracks(t, s, p)
  PROVE  Tracks([t EXCEPT !.replies = 0], s, p)
<1> DEFINE u == [t EXCEPT !.replies = 0]
<1>1. PICK c \in 0 .. p : /\ LastBoundary(s, c, p) /\ Good(t, s, c)
                          /\ t.utf8_pending = SubSeq(s, c + 1, p)
  BY DEF Tracks
<1>2. t \in Terms /\ ~t.split /\ t.passthrough = <<>>
  BY <1>1 DEF Good, Tracks
<1>3. /\ u \in Terms /\ u.utf8_pending = t.utf8_pending /\ u.apc_state = t.apc_state
      /\ u.is_kitty = t.is_kitty /\ u.seen_first = t.seen_first /\ u.apc_accum = t.apc_accum
      /\ u.split = t.split /\ u.log = t.log /\ u.passthrough = t.passthrough
  BY <1>2 DEF Terms
<1> HIDE DEF u
<1>4. Outcome(u) = Outcome(t)
  BY <1>3 DEF Outcome
<1>5. Good(u, s, c)
  BY <1>1, <1>2, <1>3, <1>4, GoodShows
<1>6. Tracks(u, s, p)
  BY <1>1, <1>2, <1>3, <1>5 DEF Tracks
<1> QED BY <1>6 DEF u

-----------------------------------------------------------------------------
(* The session: what its terminal has is what the program has written.     *)

\* A write ends within the script.
SentFits == prog.sent + prog.todo <= Len(scene.script)

\* The terminal has what the reader has given to it, and in that order.
ChunksInv == SentFits /\ Tracks(term, scene.script, parsed)

\* A script is bytes.
LEMMA ScriptIs ==
  ASSUME IInv
  PROVE  scene.script \in Seq(Byte) /\ Len(scene.script) \in Nat
<1>1. scene.script \in Seq(STRING)
  BY ScenesAssumption DEF IInv, Shape
<1>2. STRING \subseteq Byte
  BY DEF Byte
<1> HIDE DEF Byte
<1> DEFINE s == scene.script
<1>3. s \in Seq(STRING)
  BY <1>1
<1> HIDE DEF s
<1>4. s \in Seq(Byte)
  BY <1>2, <1>3, SeqMonotonic
<1> QED BY <1>4 DEF s

\* The numbers of the reader and the program.
LEMMA Numbers ==
  ASSUME IInv
  PROVE  /\ reader.taken \in Nat /\ reader.n \in Nat /\ reader.n <= reader.taken
         /\ parsed \in Nat /\ parsed <= reader.taken
         /\ prog.sent \in Nat /\ prog.todo \in Nat /\ reader.taken <= prog.sent
  BY DEF IInv, Shape, BytesInOrder, parsed

\* A step in which the terminal gets no bytes, and the program none to write.
LEMMA ChunksStay ==
  ASSUME ChunksInv, UNCHANGED <<scene, term>>, parsed' = parsed,
         prog'.sent + prog'.todo <= Len(scene.script)
  PROVE  ChunksInv'
  BY DEF ChunksInv, SentFits

\* The program writes what is left of its script at most.
LEMMA ProgramChunks ==
  ASSUME IInv, ChunksInv, StartsWrite \/ Writes \/ Reads \/ Exits
  PROVE  ChunksInv'
<1>1. UNCHANGED <<scene, term>> /\ UNCHANGED reader
  BY DEF StartsWrite, Writes, Reads, Exits, Program
<1>2. parsed' = parsed
  BY <1>1 DEF parsed
<1>3. prog.sent \in Nat /\ prog.todo \in Nat /\ Len(scene.script) \in Nat /\ scene.burst \in Nat
  BY Numbers, Rooms
<1>4. prog = [alive |-> prog.alive, sent |-> prog.sent, todo |-> prog.todo]
  BY DEF IInv, Shape
<1>5. CASE StartsWrite
  <2> DEFINE k == Shorter(scene.burst, Len(scene.script) - prog.sent)
  <2>1. k <= Len(scene.script) - prog.sent /\ k \in Int
    <3>1. Len(scene.script) - prog.sent \in Int /\ scene.burst \in Int
      BY <1>3
    <3> QED BY <3>1, ShorterLeast
  <2> HIDE DEF k
  <2>2. prog' = [prog EXCEPT !.todo = k]
    BY <1>5 DEF StartsWrite, k
  <2>3. prog'.sent = prog.sent /\ prog'.todo = k
    BY <1>4, <2>2
  <2>4. prog.sent + k <= Len(scene.script)
    BY <1>3, <2>1
  <2> QED BY <1>1, <1>2, <2>3, <2>4, ChunksStay
<1>6. CASE Writes
  <2> DEFINE k == Shorter(prog.todo, scene.out - (prog.sent - reader.taken))
  <2>1. k \in Int
    <3>1. scene.out - (prog.sent - reader.taken) \in Int /\ prog.todo \in Int
      BY Numbers, Rooms
    <3> QED BY <3>1, ShorterLeast
  <2> HIDE DEF k
  <2>2. prog' = [prog EXCEPT !.sent = @ + k, !.todo = @ - k]
    BY <1>6 DEF Writes, k
  <2>3. prog'.sent = prog.sent + k /\ prog'.todo = prog.todo - k
    BY <1>4, <2>2
  <2>4. prog'.sent + prog'.todo = prog.sent + prog.todo
    BY <1>3, <2>1, <2>3
  <2> QED BY <1>1, <1>2, <2>4, ChunksStay DEF ChunksInv, SentFits
<1>7. CASE Reads \/ Exits
  <2>1. prog'.sent = prog.sent /\ prog'.todo = prog.todo
    BY <1>4, <1>7 DEF Reads, Exits
  <2> QED BY <1>1, <1>2, <2>1, ChunksStay DEF ChunksInv, SentFits
<1> QED BY <1>5, <1>6, <1>7

\* The reader hands the chunk that it holds to the terminal, the next bytes of
\* the script: this is where AdvanceTracks is needed.
LEMMA ReaderChunks ==
  ASSUME IInv, ChunksInv, WritesText, Read \/ Parse \/ Wake \/ Eof
  PROVE  ChunksInv'
<1>1. UNCHANGED <<scene, prog>>
  BY DEF Read, Parse, Wake, Eof
<1>2. reader = [pc |-> reader.pc, taken |-> reader.taken, n |-> reader.n,
                sync_since |-> reader.sync_since]
  BY DEF IInv, Shape
<1>3. prog'.sent + prog'.todo <= Len(scene.script)
  BY <1>1 DEF ChunksInv, SentFits
<1>4. CASE Read
  <2>1. PICK k \in 1 .. Shorter(READ_BUF, prog.sent - reader.taken) :
          reader' = [reader EXCEPT !.pc = "parse", !.taken = @ + k, !.n = k]
    BY <1>4 DEF Read
  <2>2. reader'.taken = reader.taken + k /\ reader'.n = k /\ k \in Int
    BY <1>2, <2>1
  <2>3. reader.n = 0 /\ UNCHANGED term
    BY <1>4 DEF Read, IInv, BytesInOrder
  <2>4. parsed' = parsed
    BY <2>2, <2>3, Numbers DEF parsed
  <2> QED BY <1>1, <1>3, <2>3, <2>4, ChunksStay
<1>5. CASE Wake \/ Eof
  <2>1. reader'.taken = reader.taken /\ reader'.n = reader.n /\ UNCHANGED term
    BY <1>2, <1>5 DEF Wake, Eof
  <2> QED BY <1>1, <1>3, <2>1, ChunksStay DEF parsed
<1>6. CASE Parse
  <2> DEFINE s == scene.script
             u == advance(term, SubSeq(s, parsed + 1, reader.taken))
  <2>1. PICK t \in Advanced, expired \in BOOLEAN :
          LET held == t.sync_output /\ ~(reader.sync_since /\ expired) IN
          /\ term' = t
          /\ reader' = [reader EXCEPT !.pc = IF held THEN "read" ELSE "wake", !.n = 0,
                                      !.sync_since = t.sync_output]
    BY <1>6 DEF Parse
  <2>2. term' = u
    BY <2>1, Zenon DEF Advanced
  <2>3. reader'.taken = reader.taken /\ reader'.n = 0
    BY <1>2, <2>1
  <2>4. parsed' = reader.taken
    BY <2>3, Numbers DEF parsed
  <2>5. s \in Seq(Byte) /\ Text(s)
    BY ScriptIs DEF WritesText, IInv, Shape
  <2>6. /\ parsed \in Nat /\ reader.taken \in Nat /\ parsed <= reader.taken
        /\ reader.taken <= Len(s)
    BY Numbers, ScriptIs DEF ChunksInv, SentFits
  <2>7. Tracks(term, s, parsed)
    BY DEF ChunksInv
  <2> HIDE DEF s
  <2>8. Tracks(u, s, reader.taken)
    BY <2>5, <2>6, <2>7, AdvanceTracks
  <2> HIDE DEF u
  <2>9. Tracks(term, s, parsed)'
    BY <1>1, <2>2, <2>4, <2>8 DEF s
  <2> QED BY <1>1, <1>3, <2>9 DEF ChunksInv, SentFits, s
<1> QED BY <1>4, <1>5, <1>6

\* The UI thread takes the replies of the terminal and kills the program.
LEMMA UiChunks ==
  ASSUME IInv, ChunksInv, Frame \/ UiStep
  PROVE  ChunksInv'
<1>1. UNCHANGED scene
  BY DEF Frame, UiStep, pump_host_effects, WriteReply, wire_wake, Keys, WriteKey, Spawn,
         resize, ResizeGrid, Draw, Blank, KillChild, CloseMaster
<1>2. prog = [alive |-> prog.alive, sent |-> prog.sent, todo |-> prog.todo]
  BY DEF IInv, Shape
<1>3. reader = [pc |-> reader.pc, taken |-> reader.taken, n |-> reader.n,
                sync_since |-> reader.sync_since]
  BY DEF IInv, Shape
<1>4. CASE pump_host_effects
  <2>1. term' = [term EXCEPT !.replies = 0] /\ UNCHANGED <<prog, reader>>
    BY <1>4 DEF pump_host_effects
  <2>2. parsed' = parsed
    BY <2>1 DEF parsed
  <2>3. Tracks(term', scene.script, parsed)
    BY <2>1, TracksReplies DEF ChunksInv
  <2> QED BY <1>1, <2>1, <2>2, <2>3 DEF ChunksInv, SentFits
<1>5. CASE KillChild
  <2>1. prog'.sent = prog.sent /\ prog'.todo = 0 /\ UNCHANGED <<term, reader>>
    BY <1>2, <1>5 DEF KillChild
  <2>2. prog'.sent + prog'.todo <= Len(scene.script)
    BY <2>1, Numbers, ScriptIs DEF ChunksInv, SentFits
  <2> QED BY <1>1, <2>1, <2>2, ChunksStay DEF parsed
<1>6. CASE Spawn
  <2>1. prog'.sent = prog.sent /\ prog'.todo = prog.todo /\ UNCHANGED term
    BY <1>2, <1>6 DEF Spawn
  <2>2. reader'.taken = reader.taken /\ reader'.n = reader.n
    BY <1>3, <1>6 DEF Spawn
  <2> QED BY <1>1, <2>1, <2>2, ChunksStay DEF ChunksInv, SentFits, parsed
<1>7. CASE \/ Frame \/ WriteReply \/ wire_wake \/ Keys \/ WriteKey \/ resize \/ ResizeGrid
           \/ Draw \/ Blank \/ CloseMaster
  <2>1. UNCHANGED <<prog, term, reader>>
    BY <1>7 DEF Frame, WriteReply, wire_wake, Keys, WriteKey, resize, ResizeGrid, Draw,
                Blank, CloseMaster
  <2> QED BY <1>1, <2>1, ChunksStay DEF ChunksInv, SentFits, parsed
<1>8. \/ pump_host_effects \/ KillChild \/ Spawn
      \/ Frame \/ WriteReply \/ wire_wake \/ Keys \/ WriteKey \/ resize \/ ResizeGrid
      \/ Draw \/ Blank \/ CloseMaster
  BY Zenon DEF UiStep
<1> QED BY <1>4, <1>5, <1>6, <1>7, <1>8, Zenon

\* The invariant of the terminal holds at the start and is kept by every step.
LEMMA ChunksKeep ==
  ASSUME WritesText
  PROVE  /\ Init => ChunksInv
         /\ IInv /\ ChunksInv /\ [Next]_vars => ChunksInv'
<1>1. ASSUME Init PROVE ChunksInv
  <2>1. scene.script \in Seq(Byte) /\ Len(scene.script) \in Nat
    BY <1>1, InitIInv, ScriptIs
  <2>2. term = Terminal_new /\ prog.sent = 0 /\ prog.todo = 0 /\ parsed = 0
    BY <1>1 DEF Init, parsed
  <2> QED BY <2>1, <2>2, TracksNothing DEF ChunksInv, SentFits
<1>2. ASSUME IInv, ChunksInv, [Next]_vars PROVE ChunksInv'
  <2>1. CASE UNCHANGED vars
    BY <1>2, <2>1 DEF vars, ChunksInv, SentFits, parsed
  <2> QED BY <1>2, <2>1, ProgramChunks, ReaderChunks, UiChunks DEF Next
<1> QED BY <1>1, <1>2

\* However the pipe and the reader cut the output of a program that writes text,
\* the parser and the Kitty decoder get of it what it means, each byte once and
\* in order, and no call of the parser ends inside a codepoint
\* (Terminal::advance, utf8_tail_boundary).
THEOREM CutsUnseen == WritesText => (Spec => []ChunksInvisible)
<1> SUFFICES ASSUME WritesText PROVE Spec => []ChunksInvisible
  OBVIOUS
<1>1. Init => ChunksInv
  BY ChunksKeep
<1>2. IInv /\ ChunksInv /\ [Next]_vars => ChunksInv'
  BY ChunksKeep
<1>3. IInv /\ ChunksInv => ChunksInvisible
  <2> SUFFICES ASSUME IInv, ChunksInv PROVE ChunksInvisible
    OBVIOUS
  <2>1. parsed \in Nat /\ parsed <= Len(scene.script) /\ scene.script \in Seq(Byte)
    BY Numbers, ScriptIs DEF ChunksInv, SentFits
  <2> QED BY <2>1, TracksMeaning DEF ChunksInv, ChunksInvisible
<1> QED BY <1>1, <1>2, <1>3, Invariant, PTL DEF Spec
=============================================================================
